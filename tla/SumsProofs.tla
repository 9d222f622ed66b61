------------------------------ MODULE SumsProofs ------------------------------
(***************************************************************************)
(* Induction over the natural numbers, from the least element of a set of  *)
(* them, and what it gives of the sum of a sequence.                       *)
(***************************************************************************)
EXTENDS Sums, WellFoundedInduction, TLAPS

LEMMA LeastNumber ==
  ASSUME NEW T \in SUBSET Nat, T # {}
  PROVE  \E m \in T : \A n \in T : m <= n
<1> DEFINE R == OpToRel(<, Nat)
<1>1. IsWellFoundedOn(R, Nat)
  BY NatLessThanWellFounded
<1>2. \A x, y \in Nat : x < y => <<x, y>> \in R
  BY DEF OpToRel
<1> HIDE DEF R
<1>3. PICK m \in T : \A n \in T : <<n, m>> \notin R
  BY <1>1, WFMin
<1>4. \A n \in T : ~(n < m)
  BY <1>2, <1>3, Zenon
<1>5. \A n \in T : n \in Nat
  OBVIOUS
<1> QED BY <1>4, <1>5

(* Induction, with the set of the numbers that have the property.           *)
LEMMA SetInduction ==
  ASSUME NEW T, 0 \in T, \A n \in Nat : n \in T => n + 1 \in T
  PROVE  \A n \in Nat : n \in T
<1> DEFINE Out == {n \in Nat : n \notin T}
<1>1. SUFFICES ASSUME Out # {} PROVE FALSE
  OBVIOUS
<1>2. PICK m \in Out : \A n \in Out : m <= n
  BY <1>1, LeastNumber
<1>3. m # 0 /\ m \in Nat
  OBVIOUS
<1>4. m - 1 \in Nat /\ m - 1 \notin Out
  BY <1>2, <1>3
<1>5. m - 1 \in T
  BY <1>4
<1>6. m - 1 + 1 \in T
  BY <1>4, <1>5
<1> QED BY <1>3, <1>6
--------------------------------------------------------------------------------
(* Every sequence of integers has a running sum: each prefix has one.       *)
LEMMA RunningSumExists ==
  ASSUME NEW s \in Seq(Int)
  PROVE  \E sum \in [0 .. Len(s) -> Int] :
            sum[0] = 0 /\ \A i \in 1 .. Len(s) : sum[i] = sum[i - 1] + s[i]
<1> DEFINE Has(n) == \E sum \in [0 .. n -> Int] :
                        sum[0] = 0 /\ \A i \in 1 .. n : sum[i] = sum[i - 1] + s[i]
<1>1. Has(0)
  <2>1. /\ [i \in 0 .. 0 |-> 0] \in [0 .. 0 -> Int]
        /\ [i \in 0 .. 0 |-> 0][0] = 0
        /\ 1 .. 0 = {}
    OBVIOUS
  <2> QED BY <2>1
<1>2. ASSUME NEW n \in Nat, Has(n), n + 1 <= Len(s) PROVE Has(n + 1)
  <2>1. PICK sum \in [0 .. n -> Int] :
               sum[0] = 0 /\ \A i \in 1 .. n : sum[i] = sum[i - 1] + s[i]
    BY <1>2
  <2> DEFINE next == [i \in 0 .. n + 1 |-> IF i = n + 1 THEN sum[n] + s[n + 1] ELSE sum[i]]
  <2>2. s[n + 1] \in Int /\ sum[n] \in Int
    BY <1>2
  <2>3. /\ next \in [0 .. n + 1 -> Int]
        /\ next[0] = 0 /\ next[n] = sum[n] /\ next[n + 1] = sum[n] + s[n + 1]
        /\ \A i \in 0 .. n : next[i] = sum[i]
    BY <2>1, <2>2
  <2> HIDE DEF next
  <2>4. ASSUME NEW i \in 1 .. n + 1 PROVE next[i] = next[i - 1] + s[i]
    <3>1. CASE i = n + 1
      BY <3>1, <2>3
    <3>2. CASE i # n + 1
      <4>1. i \in 1 .. n /\ i - 1 \in 0 .. n /\ i \in 0 .. n
        BY <3>2
      <4> QED BY <4>1, <2>1, <2>3
    <3> QED BY <3>1, <3>2
  <2> QED BY <2>3, <2>4
<1> HIDE DEF Has
<1> DEFINE T == {n \in Nat : n <= Len(s) => Has(n)}
<1>3. \A n \in Nat : n \in T
  <2>1. 0 \in T
    BY <1>1
  <2>2. ASSUME NEW n \in Nat, n \in T PROVE n + 1 \in T
    <3>1. n + 1 <= Len(s) => n <= Len(s)
      OBVIOUS
    <3> QED BY <3>1, <2>2, <1>2
  <2> HIDE DEF T
  <2> QED BY <2>1, <2>2, SetInduction
<1>4. Len(s) \in Nat /\ Len(s) <= Len(s)
  OBVIOUS
<1>5. Has(Len(s))
  BY <1>3, <1>4
<1> QED BY <1>5 DEF Has

(* Total is the last of a running sum.                                      *)
LEMMA TotalIsLast ==
  ASSUME NEW s \in Seq(Int)
  PROVE  \E sum \in [0 .. Len(s) -> Int] :
            /\ sum[0] = 0 /\ \A i \in 1 .. Len(s) : sum[i] = sum[i - 1] + s[i]
            /\ Total(s) = sum[Len(s)]
<1> DEFINE Eq(g) == g = [i \in 0 .. Len(s) |-> IF i = 0 THEN 0 ELSE g[i - 1] + s[i]]
           sum == CHOOSE g : Eq(g)
<1>1. \E g : Eq(g)
  <2>1. PICK g \in [0 .. Len(s) -> Int] :
               g[0] = 0 /\ \A i \in 1 .. Len(s) : g[i] = g[i - 1] + s[i]
    BY RunningSumExists
  <2>2. \A i \in 0 .. Len(s) : g[i] = IF i = 0 THEN 0 ELSE g[i - 1] + s[i]
    BY <2>1
  <2>3. Eq(g)
    BY <2>2
  <2> QED BY <2>3
<1>2. Eq(sum)
  BY <1>1
<1>3. Total(s) = sum[Len(s)]
  BY DEF Total
<1> HIDE DEF sum
<1>4. /\ sum[0] = 0
      /\ \A i \in 1 .. Len(s) : sum[i] = sum[i - 1] + s[i]
  <2>1. \A i \in 0 .. Len(s) : sum[i] = IF i = 0 THEN 0 ELSE sum[i - 1] + s[i]
    BY <1>2
  <2> QED BY <2>1
<1> DEFINE T == {n \in Nat : n <= Len(s) => sum[n] \in Int}
<1>5. 0 \in T
  BY <1>4
<1>6. ASSUME NEW n \in Nat, n \in T PROVE n + 1 \in T
  <2> SUFFICES ASSUME n + 1 <= Len(s) PROVE sum[n + 1] \in Int
    OBVIOUS
  <2>1. sum[n] \in Int /\ s[n + 1] \in Int /\ n + 1 \in 1 .. Len(s)
    BY <1>6
  <2>2. sum[n + 1] = sum[(n + 1) - 1] + s[n + 1]
    BY <2>1, <1>4
  <2> QED BY <2>1, <2>2
<1>7. \A n \in Nat : n \in T
  <2> HIDE DEF T
  <2> QED BY <1>5, <1>6, SetInduction
<1>8. sum \in [0 .. Len(s) -> Int]
  <2>1. \A i \in 0 .. Len(s) : sum[i] \in Int
    BY <1>7
  <2>2. DOMAIN sum = 0 .. Len(s) /\ sum = [i \in 0 .. Len(s) |-> sum[i]]
    BY <1>2
  <2> QED BY <2>1, <2>2
<1> QED BY <1>3, <1>4, <1>8

LEMMA TotalType == ASSUME NEW s \in Seq(Int) PROVE Total(s) \in Int
BY TotalIsLast

(* A sum whose terms are the differences of a function telescopes.          *)
LEMMA Telescope ==
  ASSUME NEW s \in Seq(Int), NEW h \in [0 .. Len(s) -> Int], h[0] = 0,
         \A i \in 1 .. Len(s) : s[i] = h[i] - h[i - 1]
  PROVE  Total(s) = h[Len(s)]
<1>1. PICK sum \in [0 .. Len(s) -> Int] :
             /\ sum[0] = 0 /\ \A i \in 1 .. Len(s) : sum[i] = sum[i - 1] + s[i]
             /\ Total(s) = sum[Len(s)]
  BY TotalIsLast
<1> DEFINE T == {n \in Nat : n <= Len(s) => sum[n] = h[n]}
<1>2. 0 \in T
  BY <1>1
<1>3. ASSUME NEW n \in Nat, n \in T PROVE n + 1 \in T
  <2> SUFFICES ASSUME n + 1 <= Len(s) PROVE sum[n + 1] = h[n + 1]
    OBVIOUS
  <2>1. n + 1 \in 1 .. Len(s) /\ (n + 1) - 1 = n /\ n \in 0 .. Len(s) /\ n + 1 \in 0 .. Len(s)
    OBVIOUS
  <2>2. sum[n + 1] = sum[n] + s[n + 1] /\ s[n + 1] = h[n + 1] - h[n] /\ sum[n] = h[n]
    BY <2>1, <1>1, <1>3
  <2>3. h[n] \in Int /\ h[n + 1] \in Int
    BY <2>1
  <2> QED BY <2>2, <2>3
<1>4. \A n \in Nat : n \in T
  <2> HIDE DEF T
  <2> QED BY <1>2, <1>3, SetInduction
<1> QED BY <1>1, <1>4

(* A sum lies between its length times bounds on its terms.                 *)
LEMMA TotalBounds ==
  ASSUME NEW s \in Seq(Int), NEW lo \in Int, NEW hi \in Int,
         \A i \in 1 .. Len(s) : lo <= s[i] /\ s[i] <= hi
  PROVE  Total(s) \in Int /\ Len(s) * lo <= Total(s) /\ Total(s) <= Len(s) * hi
<1>1. PICK sum \in [0 .. Len(s) -> Int] :
             /\ sum[0] = 0 /\ \A i \in 1 .. Len(s) : sum[i] = sum[i - 1] + s[i]
             /\ Total(s) = sum[Len(s)]
  BY TotalIsLast
<1> DEFINE T == {n \in Nat : n <= Len(s) => n * lo <= sum[n] /\ sum[n] <= n * hi}
<1>2. 0 \in T
  BY <1>1
<1>3. ASSUME NEW n \in Nat, n \in T PROVE n + 1 \in T
  <2> SUFFICES ASSUME n + 1 <= Len(s)
               PROVE  (n + 1) * lo <= sum[n + 1] /\ sum[n + 1] <= (n + 1) * hi
    OBVIOUS
  <2>1. n + 1 \in 1 .. Len(s) /\ (n + 1) - 1 = n /\ n \in 0 .. Len(s) /\ n + 1 \in 0 .. Len(s)
    OBVIOUS
  <2>2. sum[n + 1] = sum[n] + s[n + 1] /\ lo <= s[n + 1] /\ s[n + 1] <= hi
    BY <2>1, <1>1
  <2>3. n * lo <= sum[n] /\ sum[n] <= n * hi
    BY <1>3
  <2>4. sum[n] \in Int /\ s[n + 1] \in Int /\ n * lo \in Int /\ n * hi \in Int
    BY <2>1, SMTT(30)
  <2>5. (n + 1) * lo = n * lo + lo /\ (n + 1) * hi = n * hi + hi
    OBVIOUS
  <2> QED BY <2>2, <2>3, <2>4, <2>5
<1>4. \A n \in Nat : n \in T
  <2> HIDE DEF T
  <2> QED BY <1>2, <1>3, SetInduction
<1>5. Len(s) \in Nat /\ Len(s) \in T /\ sum[Len(s)] \in Int
  BY <1>4
<1> QED BY <1>1, <1>5

(* And its mean, rounded down, between the bounds themselves.               *)
LEMMA MeanBounds ==
  ASSUME NEW n \in Nat \ {0}, NEW total \in Int, NEW lo \in Int, NEW hi \in Int,
         n * lo <= total, total <= n * hi
  PROVE  total \div n \in Int /\ lo <= total \div n /\ total \div n <= hi
<1> DEFINE q == total \div n
<1>1. q \in Int /\ n * q <= total /\ total < n * q + n
  OBVIOUS
<1> HIDE DEF q
<1>2. ASSUME q < lo PROVE FALSE
  <2>1. n * (q + 1) <= n * lo
    BY <1>2, <1>1
  <2> QED BY <2>1, <1>1
<1>3. ASSUME hi < q PROVE FALSE
  <2>1. n * (hi + 1) <= n * q
    BY <1>3, <1>1
  <2> QED BY <2>1, <1>1
<1> QED BY <1>1, <1>2, <1>3 DEF q
================================================================================
