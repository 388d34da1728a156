---------------------------- MODULE NumberFacts ----------------------------
(***************************************************************************)
(* Facts about numbers that several proofs need: quotients and remainders, *)
(* for the address computations, and induction over the natural numbers,   *)
(* for what a walk or a recursive function does.  Induction is stated for  *)
(* sets and functions instead of operators, so that it can be cited.       *)
(***************************************************************************)
EXTENDS Integers, WellFoundedInduction, TLAPS

LEMMA TimesMonotone ==
  ASSUME NEW n \in Nat, NEW a \in Int, NEW b \in Int, a <= b
  PROVE  n * a \in Int /\ n * b \in Int /\ n * a <= n * b
BY SMT

(* Quotient and remainder are the only pair of their kind. *)
LEMMA DivModUnique ==
  ASSUME NEW n \in Nat \ {0}, NEW q \in Int, NEW r \in 0 .. n - 1
  PROVE  (n * q + r) \div n = q /\ (n * q + r) % n = r
<1> DEFINE a == n * q + r
           p == a \div n
           s == a % n
<1>1. a \in Int /\ p \in Int /\ s \in 0 .. n - 1 /\ a = n * p + s
  BY SMT
<1>2. ASSUME p < q PROVE FALSE
  <2>1. n * (p + 1) <= n * q
    BY <1>1, <1>2, TimesMonotone
  <2> QED
    BY <1>1, <2>1
<1>3. ASSUME q < p PROVE FALSE
  <2>1. n * (q + 1) <= n * p
    BY <1>1, <1>3, TimesMonotone
  <2> QED
    BY <1>1, <2>1
<1>4. p = q
  BY <1>1, <1>2, <1>3
<1> QED
  BY <1>1, <1>4

LEMMA DivMod ==
  ASSUME NEW n \in Nat \ {0}, NEW a \in Nat
  PROVE  /\ a \div n \in Nat /\ a % n \in 0 .. n - 1
         /\ a = n * (a \div n) + (a % n)
<1>1. a \div n \in Int /\ a % n \in 0 .. n - 1 /\ a = n * (a \div n) + (a % n)
  BY SMT
<1>2. ASSUME a \div n <= -1 PROVE FALSE
  <2>1. n * (a \div n) <= n * (-1)
    BY <1>1, <1>2, TimesMonotone
  <2> QED
    BY <1>1, <2>1
<1> QED
  BY <1>1, <1>2

(* A factor of both numbers does not change the quotient. *)
LEMMA DivCancel ==
  ASSUME NEW n \in Nat \ {0}, NEW c \in Nat \ {0}, NEW a \in Nat
  PROVE  (a * c) \div (n * c) = a \div n
<1> DEFINE q == a \div n
           r == a % n
<1>1. q \in Nat /\ r \in 0 .. n - 1 /\ a = n * q + r
  BY DivMod
<1> HIDE DEF q, r
<1>2. n * c \in Nat \ {0} /\ c * r \in Int /\ c * 0 <= c * r /\ c * r <= c * (n - 1)
  BY <1>1, TimesMonotone
<1>3. c * r \in 0 .. n * c - 1
  BY <1>2
<1>4. ((n * c) * q + c * r) \div (n * c) = q
  BY <1>1, <1>2, <1>3, DivModUnique
<1>5. a * c = (n * c) * q + c * r
  BY <1>1
<1> QED
  BY <1>4, <1>5 DEF q

(* Dividing twice divides by the product. *)
LEMMA DivDiv ==
  ASSUME NEW n \in Nat \ {0}, NEW m \in Nat \ {0}, NEW a \in Nat
  PROVE  /\ (a \div n) \div m = a \div (n * m)
         /\ a % (n * m) = n * ((a \div n) % m) + (a % n)
<1> DEFINE q == a \div n
           r == a % n
           p == q \div m
           s == q % m
<1>1. q \in Nat /\ r \in 0 .. n - 1 /\ a = n * q + r
  BY DivMod
<1>2. p \in Nat /\ s \in 0 .. m - 1 /\ q = m * p + s
  <2> HIDE DEF q
  <2> QED
    BY <1>1, DivMod
<1> HIDE DEF q, r, p, s
<1>3. n * m \in Nat \ {0} /\ n * s \in Int /\ n * 0 <= n * s /\ n * s <= n * (m - 1)
  BY <1>2, TimesMonotone
<1>4. n * s + r \in 0 .. n * m - 1
  BY <1>1, <1>3
<1>5. a = (n * m) * p + (n * s + r)
  BY <1>1, <1>2
<1>6. a \div (n * m) = p /\ a % (n * m) = n * s + r
  BY <1>2, <1>3, <1>4, <1>5, DivModUnique
<1> QED
  BY <1>6 DEF p, q, r, s

-----------------------------------------------------------------------------
(* A set of natural numbers that is not empty has a least element. *)
LEMMA LeastNumber ==
  ASSUME NEW T \in SUBSET Nat, T # {}
  PROVE  \E m \in T : \A k \in T : m <= k
<1> DEFINE R == OpToRel(<, Nat)
<1>1. IsWellFoundedOn(R, Nat)
  BY NatLessThanWellFounded
<1> HIDE DEF R
<1>2. PICK m \in T : \A k \in T : ~ (<<k, m>> \in R)
  BY <1>1, WFMin
<1>3. \A k \in T : ~ (k < m)
  BY <1>2 DEF R, OpToRel
<1> QED
  BY <1>3

(* A set with 0 and with the successor of each of its numbers holds them all. *)
LEMMA NumberInduction ==
  ASSUME NEW S, 0 \in S, \A n \in Nat : n \in S => n + 1 \in S
  PROVE  Nat \subseteq S
<1> DEFINE T == Nat \ S
<1>1. SUFFICES ASSUME T # {} PROVE FALSE
  OBVIOUS
<1>2. PICK m \in T : \A k \in T : m <= k
  BY <1>1, LeastNumber
<1>3. m # 0 /\ m - 1 \in Nat /\ (m - 1) + 1 = m
  BY <1>2
<1>4. m - 1 \in S
  BY <1>2, <1>3
<1> QED
  BY <1>2, <1>3, <1>4

(* f goes on from c by one step of G at each number. *)
StepsBy(f, c, G) == f[0] = c /\ \A n \in Nat : f[n + 1] = G[n][f[n]]

(* Recursion: such a function exists. *)
LEMMA Recursion ==
  ASSUME NEW S, NEW c \in S, NEW G \in [Nat -> [S -> S]]
  PROVE  \E f \in [Nat -> S] : StepsBy(f, c, G)
<1> DEFINE Good(n, g) == /\ g \in [0 .. n -> S]
                         /\ g[0] = c
                         /\ \A i \in 0 .. n - 1 : g[i + 1] = G[i][g[i]]
           T == {n \in Nat : \E g : Good(n, g)}
<1>1. 0 \in T
  <2>1. Good(0, [i \in 0 .. 0 |-> c])
    OBVIOUS
  <2> QED
    BY <2>1
<1>2. ASSUME NEW n \in Nat, n \in T PROVE n + 1 \in T
  <2>1. PICK g : Good(n, g)
    BY <1>2
  <2> DEFINE h == [i \in 0 .. n + 1 |-> IF i <= n THEN g[i] ELSE G[n][g[n]]]
  <2>2. G[n][g[n]] \in S
    BY <2>1
  <2>3. h \in [0 .. n + 1 -> S]
    BY <2>1, <2>2
  <2>4. h[0] = c /\ h[n + 1] = G[n][g[n]] /\ \A i \in 0 .. n : h[i] = g[i]
    BY <2>1
  <2> HIDE DEF h
  <2>5. ASSUME NEW i \in 0 .. n PROVE h[i + 1] = G[i][h[i]]
    <3>1. CASE i = n
      BY <2>4, <3>1
    <3>2. CASE i < n
      <4>1. i \in 0 .. n - 1 /\ i + 1 \in 0 .. n
        BY <3>2
      <4>2. h[i + 1] = g[i + 1] /\ h[i] = g[i]
        BY <2>4, <4>1
      <4> QED
        BY <2>1, <4>1, <4>2
    <3> QED
      BY <3>1, <3>2
  <2>6. 0 .. (n + 1) - 1 = 0 .. n
    OBVIOUS
  <2>7. Good(n + 1, h)
    BY <2>3, <2>4, <2>5, <2>6
  <2> QED
    BY <2>7
<1>3. Nat \subseteq T
  <2> HIDE DEF T
  <2> QED
    BY <1>1, <1>2, NumberInduction
<1> DEFINE h(n) == CHOOSE g : Good(n, g)
<1>4. ASSUME NEW n \in Nat PROVE Good(n, h(n))
  <2>1. \E g : Good(n, g)
    BY <1>3
  <2> HIDE DEF Good
  <2> QED
    BY <2>1
<1>5. ASSUME NEW n \in Nat, NEW g, NEW k, Good(n, g), Good(n + 1, k)
      PROVE  \A i \in 0 .. n : g[i] = k[i]
  <2>1. g[0] = k[0]
    BY <1>5
  <2>2. \A i \in 0 .. n - 1 : g[i + 1] = G[i][g[i]] /\ k[i + 1] = G[i][k[i]]
    <3>1. 0 .. n - 1 \subseteq 0 .. (n + 1) - 1
      OBVIOUS
    <3> QED
      BY <1>5, <3>1
  <2> DEFINE U == {i \in Nat : i <= n => g[i] = k[i]}
  <2>3. 0 \in U
    BY <2>1
  <2>4. ASSUME NEW i \in Nat, i \in U PROVE i + 1 \in U
    <3>1. CASE i < n
      BY <2>2, <2>4, <3>1
    <3>2. CASE ~ (i < n)
      BY <3>2
    <3> QED
      BY <3>1, <3>2
  <2>5. Nat \subseteq U
    <3> HIDE DEF U
    <3> QED
      BY <2>3, <2>4, NumberInduction
  <2> QED
    BY <2>5
<1> DEFINE f == [n \in Nat |-> h(n)[n]]
<1>6. f \in [Nat -> S] /\ f[0] = c
  <2>1. \A n \in Nat : h(n)[n] \in S /\ h(n)[0] = c
    <3> TAKE n \in Nat
    <3>1. n \in 0 .. n
      OBVIOUS
    <3> HIDE DEF h
    <3>2. Good(n, h(n))
      BY <1>4
    <3> QED
      BY <3>1, <3>2
  <2> HIDE DEF h
  <2> QED
    BY <2>1
<1>7. ASSUME NEW n \in Nat PROVE f[n + 1] = G[n][f[n]]
  <2>1. h(n + 1)[n + 1] = G[n][h(n + 1)[n]]
    BY <1>4, n + 1 \in Nat, n \in 0 .. (n + 1) - 1
  <2>2. h(n)[n] = h(n + 1)[n]
    <3>1. Good(n, h(n)) /\ Good(n + 1, h(n + 1))
      BY <1>4, n + 1 \in Nat
    <3> HIDE DEF Good, h
    <3>2. \A i \in 0 .. n : h(n)[i] = h(n + 1)[i]
      BY <1>5, <3>1
    <3> QED
      BY <3>2
  <2> HIDE DEF h
  <2> QED
    BY <2>1, <2>2
<1> HIDE DEF f
<1> QED
  BY <1>6, <1>7 DEF StepsBy

(* Recursion on smaller numbers: a function of the natural numbers that is *)
(* given on Z and elsewhere computed from its value at down[n] < n.        *)
Descends(f, Z, C, down, G) ==
  \A n \in Nat : f[n] = IF n \in Z THEN C[n] ELSE G[n][f[down[n]]]

LEMMA Descent ==
  ASSUME NEW S, NEW Z, NEW C \in [Nat -> S], NEW down \in [Nat -> Nat],
         NEW G \in [Nat -> [S -> S]], \A n \in Nat \ Z : down[n] < n
  PROVE  \E f \in [Nat -> S] : Descends(f, Z, C, down, G)
<1> DEFINE W == [Nat -> S]
           more(f) == [n \in Nat |-> IF n \in Z THEN C[n] ELSE G[n][f[down[n]]]]
           H == [k \in Nat |-> [f \in W |-> more(f)]]
<1>1. ASSUME NEW f \in W PROVE more(f) \in W
  OBVIOUS
<1>2. H \in [Nat -> [W -> W]] /\ C \in W
  <2> HIDE DEF W, more
  <2>1. [f \in W |-> more(f)] \in [W -> W]
    BY <1>1
  <2>2. C \in W
    BY DEF W
  <2> QED
    BY <2>1, <2>2
<1>3. PICK F \in [Nat -> W] : StepsBy(F, C, H)
  <2> HIDE DEF W, H
  <2> QED
    BY <1>2, Recursion
<1>4. ASSUME NEW k \in Nat PROVE F[k] \in W /\ F[k + 1] = more(F[k])
  BY <1>3 DEF StepsBy
<1> HIDE DEF more, H, W
(* From its n-th successor on the function keeps its value at n. *)
<1> DEFINE Kept(n) == \A k \in Nat : k > n => F[k][n] = F[n + 1][n]
           T == {n \in Nat : \A m \in 0 .. n : Kept(m)}
<1>5. ASSUME NEW n \in Nat, \A m \in Nat : m < n => Kept(m) PROVE Kept(n)
  <2> SUFFICES ASSUME NEW k \in Nat, k > n PROVE F[k][n] = F[n + 1][n]
    OBVIOUS
  <2>1. PICK j \in Nat : k = j + 1 /\ j >= n
    <3>1. k - 1 \in Nat /\ k = (k - 1) + 1 /\ k - 1 >= n
      OBVIOUS
    <3> QED
      BY <3>1
  <2>2. F[k] = more(F[j]) /\ F[n + 1] = more(F[n])
    BY <1>4, <2>1
  <2>3. /\ F[k][n] = IF n \in Z THEN C[n] ELSE G[n][F[j][down[n]]]
        /\ F[n + 1][n] = IF n \in Z THEN C[n] ELSE G[n][F[n][down[n]]]
    BY <2>2 DEF more
  <2>4. ASSUME n \notin Z PROVE F[j][down[n]] = F[n][down[n]]
    <3>1. down[n] \in Nat /\ down[n] < n
      BY <2>4
    <3>2. Kept(down[n]) /\ j > down[n]
      BY <1>5, <2>1, <3>1
    <3> QED
      BY <2>1, <3>1, <3>2
  <2> QED
    BY <2>3, <2>4
<1>6. 0 \in T
  <2>1. Kept(0)
    <3> HIDE DEF Kept
    <3> QED
      BY <1>5
  <2> QED
    BY <2>1
<1>7. ASSUME NEW n \in Nat, n \in T PROVE n + 1 \in T
  <2> HIDE DEF Kept
  <2>1. \A m \in Nat : m < n + 1 => Kept(m)
    BY <1>7
  <2>2. Kept(n + 1)
    BY <1>5, <2>1
  <2>3. \A m \in 0 .. n + 1 : m < n + 1 \/ m = n + 1
    OBVIOUS
  <2> QED
    BY <2>1, <2>2, <2>3
<1>8. Nat \subseteq T
  <2> HIDE DEF T
  <2> QED
    BY <1>6, <1>7, NumberInduction
<1>9. ASSUME NEW n \in Nat PROVE Kept(n)
  <2> HIDE DEF Kept
  <2>1. n \in T
    <3> HIDE DEF T
    <3> QED
      BY <1>8
  <2>2. n \in 0 .. n
    OBVIOUS
  <2> QED
    BY <2>1, <2>2
<1> DEFINE f == [n \in Nat |-> F[n + 1][n]]
<1>10. f \in [Nat -> S]
  BY <1>4 DEF W
<1>11. ASSUME NEW n \in Nat PROVE f[n] = IF n \in Z THEN C[n] ELSE G[n][f[down[n]]]
  <2>1. f[n] = IF n \in Z THEN C[n] ELSE G[n][F[n][down[n]]]
    BY <1>4 DEF more
  <2>2. ASSUME n \notin Z PROVE F[n][down[n]] = f[down[n]]
    BY <1>9, <2>2
  <2> QED
    BY <2>1, <2>2
<1> HIDE DEF f
<1> QED
  BY <1>10, <1>11 DEF Descends

-----------------------------------------------------------------------------
(* Folds of sequences: the community modules define them by recursion over *)
(* the sets of indices that are left, of which the greatest comes first.   *)
Greatest(s) == CHOOSE x \in s : \A y \in s : x >= y

LEMMA GreatestIs ==
  ASSUME NEW n \in Nat, NEW s \in SUBSET (1 .. n), s # {}
  PROVE  Greatest(s) \in s /\ \A y \in s : Greatest(s) >= y
<1> DEFINE T == {n - y : y \in s}
<1>0. \A y \in s : y \in 1 .. n /\ n - y \in Nat /\ n - y \in T
  OBVIOUS
<1>1. T \in SUBSET Nat /\ T # {}
  BY <1>0
<1>2. PICK m \in T : \A k \in T : m <= k
  <2> HIDE DEF T
  <2> QED
    BY <1>1, LeastNumber
<1>3. PICK x \in s : m = n - x
  OBVIOUS
<1>4. \A y \in s : x >= y
  <2> TAKE y \in s
  <2>1. m <= n - y
    BY <1>0, <1>2
  <2> QED
    BY <1>0, <1>3, <2>1
<1> QED
  BY <1>4 DEF Greatest

LEMMA GreatestOfAll ==
  ASSUME NEW k \in Nat
  PROVE  /\ 1 .. k + 1 # {} /\ Greatest(1 .. k + 1) = k + 1
         /\ (1 .. k + 1) \ {k + 1} = 1 .. k
<1>1. k + 1 \in 1 .. k + 1 /\ 1 .. k + 1 # {} /\ (1 .. k + 1) \ {k + 1} = 1 .. k
  OBVIOUS
<1>2. Greatest(1 .. k + 1) \in 1 .. k + 1 /\ Greatest(1 .. k + 1) >= k + 1
  BY <1>1, k + 1 \in Nat, GreatestIs
<1> QED
  BY <1>1, <1>2

(* A fold over 1 .. n from c on with the step G[k] for index k exists.     *)
FoldsBy(it, n, c, G) ==
  \A s \in SUBSET (1 .. n) :
    it[s] = IF s = {} THEN c ELSE G[Greatest(s)][it[s \ {Greatest(s)}]]

LEMMA FoldExists ==
  ASSUME NEW S, NEW c \in S, NEW n \in Nat, NEW G \in [1 .. n -> [S -> S]]
  PROVE  \E it \in [SUBSET (1 .. n) -> S] : FoldsBy(it, n, c, G)
<1> DEFINE I == 1 .. n
           W == [SUBSET I -> S]
           none == [s \in SUBSET I |-> c]
           more(k, f) == [s \in SUBSET I |-> IF k + 1 \in s
                                             THEN G[k + 1][f[s \ {k + 1}]] ELSE f[s]]
           H == [k \in Nat |-> [f \in W |-> more(k, f)]]
<1>1. none \in W
  OBVIOUS
<1>2. ASSUME NEW k \in Nat, NEW f \in W PROVE more(k, f) \in W
  <2>1. ASSUME NEW s \in SUBSET I, k + 1 \in s PROVE G[k + 1][f[s \ {k + 1}]] \in S
    <3>1. k + 1 \in I /\ s \ {k + 1} \in SUBSET I
      BY <2>1
    <3>2. f[s \ {k + 1}] \in S /\ G[k + 1] \in [S -> S]
      BY <3>1
    <3> QED
      BY <3>2
  <2> QED
    BY <2>1
<1>3. H \in [Nat -> [W -> W]]
  <2> HIDE DEF W, more
  <2> QED
    BY <1>2
<1>4. PICK F \in [Nat -> W] : StepsBy(F, none, H)
  <2> HIDE DEF W, none, H
  <2> QED
    BY <1>1, <1>3, Recursion
<1>5. F[0] = none /\ \A k \in Nat : F[k] \in W /\ F[k + 1] = more(k, F[k])
  <2>1. F[0] = none /\ \A k \in Nat : F[k] \in W /\ F[k + 1] = H[k][F[k]]
    <3> HIDE DEF W, none, H
    <3> QED
      BY <1>4 DEF StepsBy
  <2> HIDE DEF W, more, none
  <2> QED
    BY <2>1
<1> HIDE DEF H, none
<1>6. ASSUME NEW k \in Nat, NEW s \in SUBSET I
      PROVE  F[k + 1][s] = IF k + 1 \in s THEN G[k + 1][F[k][s \ {k + 1}]]
                           ELSE F[k][s]
  BY <1>5
(* Once all of s is taken in, F keeps its value. *)
<1>7. ASSUME NEW s \in SUBSET I, NEW k \in Nat, \A y \in s : y <= k, k <= n
      PROVE  F[n][s] = F[k][s]
  <2> DEFINE U == {j \in Nat : F[k + j][s] = F[k][s]}
  <2>1. 0 \in U
    BY k + 0 = k
  <2>2. ASSUME NEW j \in Nat, j \in U PROVE j + 1 \in U
    <3>1. k + j \in Nat /\ k + (j + 1) = (k + j) + 1 /\ (k + j) + 1 \notin s
      BY <1>7
    <3>2. F[(k + j) + 1][s] = F[k + j][s]
      BY <1>6, <3>1
    <3> QED
      BY <2>2, <3>1, <3>2
  <2>3. Nat \subseteq U
    <3> HIDE DEF U
    <3> QED
      BY <2>1, <2>2, NumberInduction
  <2>4. n - k \in Nat /\ k + (n - k) = n
    BY <1>7
  <2> QED
    BY <2>3, <2>4
<1>8. ASSUME NEW s \in SUBSET I
      PROVE  F[n][s] = IF s = {} THEN c
                       ELSE G[Greatest(s)][F[n][s \ {Greatest(s)}]]
  <2>1. CASE s = {}
    <3>1. F[n][s] = F[0][s]
      BY <1>7, <2>1
    <3> QED
      BY <1>5, <2>1, <3>1 DEF none
  <2>2. CASE s # {}
    <3> DEFINE x == Greatest(s)
               r == s \ {x}
    <3>1. x \in s /\ \A y \in s : x >= y
      BY <2>2, GreatestIs
    <3> HIDE DEF x
    <3>2. x - 1 \in Nat /\ (x - 1) + 1 = x /\ x \in Nat /\ x <= n /\ x - 1 <= n
      BY <3>1
    <3>3. \A y \in s : y <= x
      BY <3>1, <3>2
    <3>4. F[n][s] = F[x][s]
      BY <1>7, <3>2, <3>3
    <3>5. F[x][s] = G[x][F[x - 1][r]]
      <4>1. PICK k \in Nat : k + 1 = x /\ k = x - 1
        BY <3>2
      <4>2. k + 1 \in s
        BY <3>1, <4>1
      <4>3. F[k + 1][s] = G[k + 1][F[k][s \ {k + 1}]]
        BY <1>6, <4>2
      <4> QED
        BY <4>1, <4>3
    <3>6. r \in SUBSET I /\ \A y \in r : y <= x - 1
      BY <3>1, <3>2
    <3>7. F[n][r] = F[x - 1][r]
      BY <1>7, <3>2, <3>6
    <3> QED
      BY <2>2, <3>4, <3>5, <3>7 DEF x
  <2> QED
    BY <2>1, <2>2
<1>9. F[n] \in W
  BY <1>5
<1>10. FoldsBy(F[n], n, c, G)
  BY <1>8 DEF FoldsBy
<1> QED
  BY <1>9, <1>10

(* it folds by G as long as its values are in S; f has the values that a   *)
(* fold of n elements takes.                                               *)
FoldsIn(it, n, c, S, G) ==
  /\ it[{}] = c
  /\ \A s \in SUBSET (1 .. n) :
       s # {} /\ it[s \ {Greatest(s)}] \in S =>
         it[s] = G[Greatest(s)][it[s \ {Greatest(s)}]]

FoldValues(f, n, c, last, G) ==
  /\ f[0] = c /\ f[n] = last
  /\ \A k \in 0 .. n - 1 : f[k + 1] = G[k + 1][f[k]]

LEMMA FoldIs ==
  ASSUME NEW S, NEW c \in S, NEW n \in Nat, NEW G \in [1 .. n -> [S -> S]],
         NEW it, FoldsIn(it, n, c, S, G)
  PROVE  \E f \in [0 .. n -> S] : FoldValues(f, n, c, it[1 .. n], G)
<1> USE DEF FoldsIn
<1>1. ASSUME NEW k \in Nat, k < n, it[1 .. k] \in S
      PROVE  /\ it[1 .. k + 1] = G[k + 1][it[1 .. k]]
             /\ it[1 .. k + 1] \in S
  <2>1. 1 .. k + 1 \in SUBSET (1 .. n) /\ k + 1 \in 1 .. n
    BY <1>1
  <2>2. /\ 1 .. k + 1 # {} /\ Greatest(1 .. k + 1) = k + 1
        /\ (1 .. k + 1) \ {k + 1} = 1 .. k
    BY GreatestOfAll
  <2>3. it[1 .. k + 1] = G[k + 1][it[1 .. k]]
    BY <1>1, <2>1, <2>2
  <2> QED
    BY <1>1, <2>1, <2>3
<1> DEFINE T == {k \in Nat : k <= n => it[1 .. k] \in S}
<1>2. 0 \in T
  BY 1 .. 0 = {}
<1>3. ASSUME NEW k \in Nat, k \in T PROVE k + 1 \in T
  BY <1>1, <1>3
<1>4. Nat \subseteq T
  <2> HIDE DEF T
  <2> QED
    BY <1>2, <1>3, NumberInduction
<1> DEFINE f == [k \in 0 .. n |-> it[1 .. k]]
<1>5. f \in [0 .. n -> S] /\ f[0] = c /\ f[n] = it[1 .. n]
  <2>1. \A k \in 0 .. n : it[1 .. k] \in S
    BY <1>4
  <2> QED
    BY <2>1, 1 .. 0 = {}
<1>6. ASSUME NEW k \in 0 .. n - 1 PROVE f[k + 1] = G[k + 1][f[k]]
  <2>1. it[1 .. k] \in S
    BY <1>4
  <2> QED
    BY <1>1, <2>1
<1> HIDE DEF f
<1> QED
  BY <1>5, <1>6 DEF FoldValues
=============================================================================
