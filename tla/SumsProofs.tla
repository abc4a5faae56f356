----------------------------- MODULE SumsProofs -----------------------------
(***************************************************************************)
(* What the proofs need about recursive functions on 1..n: that a fold     *)
(* exists, and what a prefix sum is, keeps and adds up to.                 *)
(***************************************************************************)
EXTENDS Sums, WellFoundedInduction, TLAPS

LessThan == {ss \in Nat \X Nat : ss[1] < ss[2]}

(* The order the inductions below run along is well founded.               *)
LEMMA LessThanWellFounded == IsWellFoundedOn(LessThan, Nat)
BY NatLessThanWellFounded DEF OpToRel, LessThan

(* Induction over the naturals, stated for a set: a set that holds 0 and   *)
(* is closed under successor holds every natural number.                   *)
LEMMA NatSetInduction ==
  ASSUME NEW S, 0 \in S, \A n \in Nat : n \in S => n + 1 \in S
  PROVE  Nat \subseteq S
<1> DEFINE T == Nat \ S
<1>1. SUFFICES ASSUME T # {} PROVE FALSE
  OBVIOUS
<1>2. PICK x \in T : \A y \in T : ~ (<<y, x>> \in LessThan)
  <2> QED BY <1>1, LessThanWellFounded, WFMin
<1>3. x \in Nat \ {0}
  BY <1>2
<1>4. x - 1 \in Nat /\ x - 1 < x /\ x - 1 + 1 = x
  BY <1>3
<1>5. <<x - 1, x>> \in LessThan
  BY <1>3, <1>4 DEF LessThan
<1> QED BY <1>2, <1>3, <1>4, <1>5

(* s lists what folding g over x gives after 0, 1, ..., n functions.        *)
FoldOf(x, g, n, s) == s[0] = x /\ \A i \in 1..n : s[i] = g[i][s[i - 1]]

(* Folding a family g of functions on D over 1..n is well defined: this is *)
(* the existence that the recursive functions of the models rest on.       *)
LEMMA FoldExists ==
  ASSUME NEW D, NEW x \in D, NEW n \in Nat, NEW g \in [1..n -> [D -> D]]
  PROVE  \E s \in [0..n -> D] : FoldOf(x, g, n, s)
<1> DEFINE Folds(m, h, s) == s[0] = x /\ \A i \in 1..m : s[i] = h[i][s[i - 1]]
           Good == {m \in Nat : \A h \in [1..m -> [D -> D]] :
                                   \E s \in [0..m -> D] : Folds(m, h, s)}
<1>1. 0 \in Good
  <2>1. ASSUME NEW h \in [1..0 -> [D -> D]]
        PROVE  \E s \in [0..0 -> D] : Folds(0, h, s)
    <3>1. [i \in 0..0 |-> x] \in [0..0 -> D] /\ Folds(0, h, [i \in 0..0 |-> x])
      OBVIOUS
    <3> QED BY <3>1
  <2> QED BY <2>1
<1>2. ASSUME NEW m \in Nat, m \in Good PROVE m + 1 \in Good
  <2>1. ASSUME NEW h \in [1..(m + 1) -> [D -> D]]
        PROVE  \E s \in [0..(m + 1) -> D] : Folds(m + 1, h, s)
    <3> DEFINE k == [i \in 1..m |-> h[i]]
    <3>1. k \in [1..m -> [D -> D]]
      OBVIOUS
    <3>2. PICK s \in [0..m -> D] : Folds(m, k, s)
      BY <1>2, <3>1
    <3> DEFINE t == [i \in 0..(m + 1) |-> IF i = m + 1 THEN h[m + 1][s[m]] ELSE s[i]]
    <3>3. h[m + 1] \in [D -> D] /\ s[m] \in D
      OBVIOUS
    <3>4. t \in [0..(m + 1) -> D]
      BY <3>3
    <3>5. t[0] = x
      BY <3>2
    <3>6. ASSUME NEW i \in 1..(m + 1) PROVE t[i] = h[i][t[i - 1]]
      <4>1. CASE i = m + 1
        <5>1. t[i] = h[m + 1][s[m]] /\ t[i - 1] = s[m]
          BY <4>1
        <5> QED BY <5>1, <4>1
      <4>2. CASE i # m + 1
        <5>1. i \in 1..m /\ t[i] = s[i] /\ t[i - 1] = s[i - 1] /\ k[i] = h[i]
          BY <4>2
        <5> QED BY <5>1, <3>2
      <4> QED BY <4>1, <4>2
    <3> QED BY <3>4, <3>5, <3>6
  <2> QED BY <2>1
<1>3. Nat \subseteq Good
  <2> HIDE DEF Good
  <2> QED BY <1>1, <1>2, NatSetInduction
<1>4. n \in Good
  BY <1>3
<1> QED BY <1>4 DEF FoldOf

-----------------------------------------------------------------------------
(* Prefix sums of functions that are integers on 1..n.                     *)

Summable(f, n) == \A i \in 1..n : f[i] \in Int
SumsOf(f, n, s) == s[0] = 0 /\ \A i \in 1..n : s[i] = s[i - 1] + f[i]

(* There are partial sums ...                                              *)
LEMMA PartialSumsExist ==
  ASSUME NEW f, NEW n \in Nat, Summable(f, n)
  PROVE  \E s \in [0..n -> Int] : SumsOf(f, n, s)
<1> DEFINE g == [i \in 1..n |-> [v \in Int |-> v + f[i]]]
<1>1. g \in [1..n -> [Int -> Int]] /\ 0 \in Int
  BY DEF Summable
<1>2. PICK s \in [0..n -> Int] : FoldOf(0, g, n, s)
  <2> HIDE DEF g
  <2> QED BY <1>1, FoldExists
<1>3. ASSUME NEW i \in 1..n PROVE s[i] = s[i - 1] + f[i]
  <2>1. i - 1 \in 0..n
    OBVIOUS
  <2> QED BY <1>2, <2>1 DEF FoldOf
<1> QED BY <1>2, <1>3 DEF SumsOf, FoldOf

(* ... and SumTo is the last of them, whichever they are.                  *)
LEMMA SumToIs ==
  ASSUME NEW f, NEW n \in Nat, Summable(f, n), NEW s \in [0..n -> Int], SumsOf(f, n, s)
  PROVE  SumTo(f, n) = s[n]
<1> DEFINE IsSum(c) == c = [i \in 0..n |-> IF i = 0 THEN 0 ELSE c[i - 1] + f[i]]
           c == CHOOSE c : IsSum(c)
<1>1. IsSum(s)
  <2>1. ASSUME NEW i \in 0..n
        PROVE  s[i] = IF i = 0 THEN 0 ELSE s[i - 1] + f[i]
    BY DEF SumsOf
  <2> QED BY <2>1
<1>2. IsSum(c)
  BY <1>1
<1> DEFINE Same == {i \in Nat : i \in 0..n => c[i] = s[i]}
<1>3. 0 \in Same
  BY <1>2 DEF SumsOf
<1>4. ASSUME NEW i \in Nat, i \in Same PROVE i + 1 \in Same
  <2>1. CASE i + 1 \in 0..n
    <3>1. c[i + 1] = c[i] + f[i + 1]
      <4>1. i + 1 \in 0..n /\ i + 1 # 0 /\ (i + 1) - 1 = i
        BY <2>1
      <4> HIDE DEF c
      <4> QED BY <1>2, <4>1
    <3>2. s[i + 1] = s[i] + f[i + 1]
      BY <2>1 DEF SumsOf
    <3>3. c[i] = s[i]
      BY <1>4, <2>1
    <3> QED BY <3>1, <3>2, <3>3
  <2> QED BY <2>1
<1>5. n \in Same
  <2>1. Nat \subseteq Same
    <3> HIDE DEF Same
    <3> QED BY <1>3, <1>4, NatSetInduction
  <2> QED BY <2>1
<1>6. c[n] = s[n]
  BY <1>5
<1>7. SumTo(f, n) = c[n]
  BY DEF SumTo
<1> QED BY <1>6, <1>7

(* Nothing adds up to nothing.                                             *)
LEMMA SumToZero == ASSUME NEW f PROVE SumTo(f, 0) = 0
<1>1. Summable(f, 0)
  BY DEF Summable
<1>2. PICK s \in [0..0 -> Int] : SumsOf(f, 0, s)
  BY <1>1, PartialSumsExist
<1>3. SumTo(f, 0) = s[0]
  BY <1>1, <1>2, SumToIs
<1> QED BY <1>2, <1>3 DEF SumsOf

(* The recursion equation, and the type of a sum.                          *)
LEMMA SumToStep ==
  ASSUME NEW f, NEW n \in Nat, Summable(f, n + 1)
  PROVE  /\ SumTo(f, n) \in Int
         /\ SumTo(f, n + 1) = SumTo(f, n) + f[n + 1]
<1>1. PICK s \in [0..(n + 1) -> Int] : SumsOf(f, n + 1, s)
  BY PartialSumsExist
<1>2. SumTo(f, n + 1) = s[n + 1]
  BY <1>1, SumToIs
<1> DEFINE t == [i \in 0..n |-> s[i]]
<1>3. t \in [0..n -> Int] /\ Summable(f, n)
  BY DEF Summable
<1>4. SumsOf(f, n, t)
  <2>1. t[0] = 0
    BY <1>1 DEF SumsOf
  <2>2. ASSUME NEW i \in 1..n PROVE t[i] = t[i - 1] + f[i]
    <3>1. t[i] = s[i] /\ t[i - 1] = s[i - 1] /\ i \in 1..(n + 1)
      OBVIOUS
    <3> QED BY <3>1, <1>1 DEF SumsOf
  <2> HIDE DEF t
  <2> QED BY <2>1, <2>2 DEF SumsOf
<1>5. SumTo(f, n) = t[n]
  <2> HIDE DEF t
  <2> QED BY <1>3, <1>4, SumToIs
<1>6. t[n] = s[n] /\ s[n] \in Int
  OBVIOUS
<1>7. s[n + 1] = s[n] + f[n + 1]
  BY <1>1 DEF SumsOf
<1> QED BY <1>2, <1>5, <1>6, <1>7

(* The type of a sum.                                                      *)
LEMMA SumToInt ==
  ASSUME NEW f, NEW n \in Nat, Summable(f, n)
  PROVE  SumTo(f, n) \in Int
<1>1. PICK s \in [0..n -> Int] : SumsOf(f, n, s)
  BY PartialSumsExist
<1>2. SumTo(f, n) = s[n]
  BY <1>1, SumToIs
<1> QED BY <1>2

(* Naturals add up to a natural, and every prefix to no more.              *)
LEMMA SumToNat ==
  ASSUME NEW f, NEW n \in Nat, \A i \in 1..n : f[i] \in Nat
  PROVE  /\ SumTo(f, n) \in Nat
         /\ \A k \in 0..n : SumTo(f, k) \in Nat /\ SumTo(f, k) <= SumTo(f, n)
<1> DEFINE Good == {m \in Nat : m <= n =>
                      /\ SumTo(f, m) \in Nat
                      /\ \A k \in 0..m : SumTo(f, k) \in Nat /\ SumTo(f, k) <= SumTo(f, m)}
<1>1. 0 \in Good
  BY SumToZero
<1>2. ASSUME NEW m \in Nat, m \in Good PROVE m + 1 \in Good
  <2>1. SUFFICES ASSUME m + 1 <= n
        PROVE  /\ SumTo(f, m + 1) \in Nat
               /\ \A k \in 0..(m + 1) : SumTo(f, k) \in Nat /\ SumTo(f, k) <= SumTo(f, m + 1)
    OBVIOUS
  <2>2. Summable(f, m + 1)
    BY <2>1 DEF Summable
  <2>3. SumTo(f, m + 1) = SumTo(f, m) + f[m + 1]
    BY <2>2, SumToStep
  <2>4. /\ SumTo(f, m) \in Nat /\ f[m + 1] \in Nat
        /\ \A k \in 0..m : SumTo(f, k) \in Nat /\ SumTo(f, k) <= SumTo(f, m)
    BY <1>2, <2>1
  <2>5. SumTo(f, m + 1) \in Nat /\ SumTo(f, m) <= SumTo(f, m + 1)
    BY <2>3, <2>4
  <2>6. ASSUME NEW k \in 0..(m + 1)
        PROVE  SumTo(f, k) \in Nat /\ SumTo(f, k) <= SumTo(f, m + 1)
    <3>1. CASE k = m + 1
      BY <3>1, <2>5
    <3>2. CASE k \in 0..m
      BY <3>2, <2>4, <2>5
    <3> QED BY <3>1, <3>2
  <2> QED BY <2>5, <2>6
<1>3. n \in Good
  <2>1. Nat \subseteq Good
    <3> HIDE DEF Good
    <3> QED BY <1>1, <1>2, NatSetInduction
  <2> QED BY <2>1
<1> QED BY <1>3

(* Changing one entry changes the sum by as much.                          *)
LEMMA SumToUpdate ==
  ASSUME NEW f, NEW h, NEW n \in Nat, NEW j,
         Summable(f, n), Summable(h, n),
         \A i \in 1..n : i # j => h[i] = f[i]
  PROVE  SumTo(h, n) = SumTo(f, n) + (IF j \in 1..n THEN h[j] - f[j] ELSE 0)
<1> DEFINE Off(m) == IF j \in 1..m THEN h[j] - f[j] ELSE 0
           Good == {m \in Nat : m <= n => SumTo(h, m) = SumTo(f, m) + Off(m)}
<1>1. 0 \in Good
  BY SumToZero
<1>2. ASSUME NEW m \in Nat, m \in Good PROVE m + 1 \in Good
  <2>1. SUFFICES ASSUME m + 1 <= n PROVE SumTo(h, m + 1) = SumTo(f, m + 1) + Off(m + 1)
    OBVIOUS
  <2>2. Summable(f, m + 1) /\ Summable(h, m + 1) /\ f[m + 1] \in Int /\ h[m + 1] \in Int
    BY <2>1 DEF Summable
  <2>3. SumTo(f, m) \in Int /\ SumTo(f, m + 1) = SumTo(f, m) + f[m + 1]
    BY <2>2, SumToStep
  <2>4. SumTo(h, m) \in Int /\ SumTo(h, m + 1) = SumTo(h, m) + h[m + 1]
    BY <2>2, SumToStep
  <2>5. SumTo(h, m) = SumTo(f, m) + Off(m)
    BY <1>2, <2>1
  <2>6. CASE j = m + 1
    <3>1. Off(m) = 0 /\ Off(m + 1) = h[m + 1] - f[m + 1]
      BY <2>6
    <3> HIDE DEF Off
    <3> QED BY <2>2, <2>3, <2>4, <2>5, <3>1
  <2>7. CASE j # m + 1
    <3>1. h[m + 1] = f[m + 1]
      BY <2>1, <2>7
    <3>2. Off(m) = Off(m + 1) /\ Off(m) \in Int
      BY <2>1, <2>7 DEF Summable
    <3> HIDE DEF Off
    <3> QED BY <2>2, <2>3, <2>4, <2>5, <3>1, <3>2
  <2> QED BY <2>6, <2>7
<1>3. n \in Good
  <2>1. Nat \subseteq Good
    <3> HIDE DEF Good
    <3> QED BY <1>1, <1>2, NatSetInduction
  <2> QED BY <2>1
<1> QED BY <1>3

(* Functions that agree on 1..n have the same sum.                         *)
LEMMA SumToSame ==
  ASSUME NEW f, NEW h, NEW n \in Nat, Summable(f, n), \A i \in 1..n : h[i] = f[i]
  PROVE  SumTo(h, n) = SumTo(f, n)
<1>1. Summable(h, n)
  BY DEF Summable
<1>2. SumTo(f, n) \in Int
  BY SumToInt
<1>3. SumTo(h, n) = SumTo(f, n) + (IF 0 \in 1..n THEN h[0] - f[0] ELSE 0)
  BY <1>1, SumToUpdate
<1> QED BY <1>2, <1>3

(* Zeros add up to zero.                                                   *)
LEMMA SumToZeros ==
  ASSUME NEW f, NEW n \in Nat, \A i \in 1..n : f[i] = 0
  PROVE  SumTo(f, n) = 0
<1> DEFINE Good == {m \in Nat : m <= n => SumTo(f, m) = 0}
<1>1. 0 \in Good
  BY SumToZero
<1>2. ASSUME NEW m \in Nat, m \in Good PROVE m + 1 \in Good
  <2>1. SUFFICES ASSUME m + 1 <= n PROVE SumTo(f, m + 1) = 0
    OBVIOUS
  <2>2. Summable(f, m + 1)
    BY <2>1 DEF Summable
  <2>3. SumTo(f, m + 1) = SumTo(f, m) + f[m + 1]
    BY <2>2, SumToStep
  <2> QED BY <1>2, <2>1, <2>3
<1>3. Nat \subseteq Good
  <2> HIDE DEF Good
  <2> QED BY <1>1, <1>2, NatSetInduction
<1> QED BY <1>3

(* Sums add up entry by entry.                                             *)
LEMMA SumToPlus ==
  ASSUME NEW f, NEW g, NEW h, NEW n \in Nat, Summable(f, n), Summable(g, n),
         \A i \in 1..n : h[i] = f[i] + g[i]
  PROVE  SumTo(h, n) = SumTo(f, n) + SumTo(g, n)
<1> DEFINE Good == {m \in Nat : m <= n => SumTo(h, m) = SumTo(f, m) + SumTo(g, m)}
<1>1. 0 \in Good
  BY SumToZero
<1>2. ASSUME NEW m \in Nat, m \in Good PROVE m + 1 \in Good
  <2>1. SUFFICES ASSUME m + 1 <= n PROVE SumTo(h, m + 1) = SumTo(f, m + 1) + SumTo(g, m + 1)
    OBVIOUS
  <2>2. /\ Summable(f, m + 1) /\ Summable(g, m + 1) /\ Summable(h, m + 1)
        /\ f[m + 1] \in Int /\ g[m + 1] \in Int /\ h[m + 1] = f[m + 1] + g[m + 1]
    BY <2>1 DEF Summable
  <2>3. /\ SumTo(f, m) \in Int /\ SumTo(f, m + 1) = SumTo(f, m) + f[m + 1]
        /\ SumTo(g, m) \in Int /\ SumTo(g, m + 1) = SumTo(g, m) + g[m + 1]
        /\ SumTo(h, m + 1) = SumTo(h, m) + h[m + 1]
    BY <2>2, SumToStep
  <2>4. SumTo(h, m) = SumTo(f, m) + SumTo(g, m)
    BY <1>2, <2>1
  <2> QED BY <2>2, <2>3, <2>4
<1>3. Nat \subseteq Good
  <2> HIDE DEF Good
  <2> QED BY <1>1, <1>2, NatSetInduction
<1> QED BY <1>3

(* Larger entries have a larger sum.                                       *)
LEMMA SumToAtMost ==
  ASSUME NEW f, NEW h, NEW n \in Nat, Summable(f, n), Summable(h, n),
         \A i \in 1..n : f[i] <= h[i]
  PROVE  SumTo(f, n) <= SumTo(h, n)
<1> DEFINE g == [i \in 1..n |-> h[i] - f[i]]
<1>1. \A i \in 1..n : g[i] \in Nat /\ h[i] = f[i] + g[i]
  BY DEF Summable
<1>2. Summable(g, n)
  BY <1>1 DEF Summable
<1> HIDE DEF g
<1>3. SumTo(h, n) = SumTo(f, n) + SumTo(g, n)
  BY <1>1, <1>2, SumToPlus
<1>4. SumTo(g, n) \in Nat
  BY <1>1, SumToNat
<1>5. SumTo(f, n) \in Int
  BY SumToInt
<1> QED BY <1>3, <1>4, <1>5

(* A sum over two stretches is the sum of both.                            *)
LEMMA SumToSplit ==
  ASSUME NEW f, NEW g, NEW n \in Nat, NEW m \in Nat, NEW p, p = n + m, Summable(f, p),
         \A i \in 1..m : g[i] = f[n + i]
  PROVE  SumTo(f, p) = SumTo(f, n) + SumTo(g, m)
<1> DEFINE Good == {k \in Nat : k <= m => SumTo(f, n + k) = SumTo(f, n) + SumTo(g, k)}
<1>1. Summable(f, n) /\ SumTo(f, n) \in Int
  <2>1. Summable(f, n)
    BY DEF Summable
  <2> QED BY <2>1, SumToInt
<1>2. 0 \in Good
  BY <1>1, SumToZero
<1>3. ASSUME NEW k \in Nat, k \in Good PROVE k + 1 \in Good
  <2>1. SUFFICES ASSUME k + 1 <= m PROVE SumTo(f, n + (k + 1)) = SumTo(f, n) + SumTo(g, k + 1)
    OBVIOUS
  <2>2. SumTo(f, n + k) = SumTo(f, n) + SumTo(g, k)
    BY <1>3, <2>1
  <2>3. Summable(f, (n + k) + 1) /\ Summable(g, k + 1) /\ n + k \in Nat
        /\ g[k + 1] = f[(n + k) + 1] /\ g[k + 1] \in Int
    BY <2>1 DEF Summable
  <2>4. SumTo(f, (n + k) + 1) = SumTo(f, n + k) + f[(n + k) + 1]
    BY <2>3, SumToStep
  <2>5. SumTo(g, k + 1) = SumTo(g, k) + g[k + 1] /\ SumTo(g, k) \in Int
    BY <2>3, SumToStep
  <2>6. n + (k + 1) = (n + k) + 1
    OBVIOUS
  <2> QED BY <1>1, <2>2, <2>3, <2>4, <2>5, <2>6
<1>4. Nat \subseteq Good
  <2> HIDE DEF Good
  <2> QED BY <1>2, <1>3, NatSetInduction
<1> QED BY <1>4
=============================================================================
