----------------------------- MODULE Induction -----------------------------
(***************************************************************************)
(* Induction over the naturals for the proofs, stated with sets: a         *)
(* property is the set of the numbers that have it.  From it, that a       *)
(* function defined by recursion is what its equation says; what the       *)
(* powers and sums of Arithmetic and flattened sequences are; and the      *)
(* quotients and remainders that cutting a number into digits leaves.      *)
(***************************************************************************)
EXTENDS Arithmetic, FiniteSetsExt, WellFoundedInduction, SequenceTheorems,
        FiniteSetTheorems, TLAPS

\* A set of naturals that is not empty has a least element.
LEMMA LeastNatural ==
    ASSUME NEW T, T \subseteq Nat, T # {}
    PROVE  \E n \in T : \A m \in T : n <= m
  <1> DEFINE R == {p \in Nat \X Nat : p[1] < p[2]}
  <1>1. IsWellFoundedOn(R, Nat)
    BY NatLessThanWellFounded DEF OpToRel
  <1>2. PICK n \in T : \A m \in T : ~(<<m, n>> \in R)
    <2> HIDE DEF R
    <2> QED
      BY <1>1, WFMin
  <1>3. ASSUME NEW m \in T PROVE n <= m
    <2>1. <<m, n>> \notin R
      BY <1>2
    <2>2. m \in Nat /\ n \in Nat /\ ~(m < n)
      BY <2>1
    <2>3. QED
      BY <2>2
  <1>4. QED
    BY <1>3

\* What holds of zero, and of the successor of every number it holds of, holds of
\* every number.
LEMMA InductionOnNat ==
    ASSUME NEW P, 0 \in P, \A n \in Nat : n \in P => n + 1 \in P
    PROVE  \A n \in Nat : n \in P
  <1>1. SUFFICES ASSUME Nat \ P # {} PROVE FALSE
    OBVIOUS
  <1>2. PICK n \in Nat \ P : \A m \in Nat \ P : n <= m
    BY <1>1, LeastNatural
  <1>3. n - 1 \in Nat /\ n - 1 \in P
    BY <1>2
  <1>4. QED
    BY <1>2, <1>3

-----------------------------------------------------------------------------
(* Recursion.  F is the step: F[<<v, i>>] is the value at i when v is the  *)
(* one at i - 1.                                                           *)

\* g follows the recursion up to n.
Follows(g, v0, F, n) ==
    /\ g[0] = v0
    /\ \A i \in 1..n : g[i] = F[<<g[i - 1], i>>]

\* Two functions that follow a recursion agree.
LEMMA RecursionUnique ==
    ASSUME NEW v0, NEW F, NEW m \in Nat, NEW n \in Nat, NEW g, NEW h,
           Follows(g, v0, F, m), Follows(h, v0, F, n)
    PROVE  \A i \in Nat : i <= m /\ i <= n => g[i] = h[i]
  <1> DEFINE P == {i \in Nat : i <= m /\ i <= n => g[i] = h[i]}
  <1>1. 0 \in P
    BY DEF Follows
  <1>2. ASSUME NEW i \in Nat, i \in P PROVE i + 1 \in P
    <2>1. SUFFICES ASSUME i + 1 <= m, i + 1 <= n PROVE g[i + 1] = h[i + 1]
      OBVIOUS
    <2>2. g[i] = h[i]
      BY <1>2, <2>1
    <2>3. i + 1 \in 1..m /\ i + 1 \in 1..n /\ (i + 1) - 1 = i
      BY <2>1
    <2>4. g[i + 1] = F[<<g[i], i + 1>>] /\ h[i + 1] = F[<<h[i], i + 1>>]
      BY <2>3 DEF Follows
    <2>5. QED
      BY <2>2, <2>4
  <1>3. \A i \in Nat : i \in P
    <2> HIDE DEF P
    <2> QED
      BY <1>1, <1>2, InductionOnNat
  <1>4. QED
    BY <1>3

\* A recursion whose values stay in S has a solution up to every number.
LEMMA FiniteRecursion ==
    ASSUME NEW S, NEW v0 \in S, NEW F \in [S \X (Nat \ {0}) -> S]
    PROVE  \A n \in Nat : \E g \in [0..n -> S] : Follows(g, v0, F, n)
  <1> DEFINE P == {n \in Nat : \E g \in [0..n -> S] : Follows(g, v0, F, n)}
  <1>1. 0 \in P
    <2> DEFINE g == [i \in 0..0 |-> v0]
    <2>1. g \in [0..0 -> S] /\ Follows(g, v0, F, 0)
      BY DEF Follows
    <2>2. QED
      BY <2>1
  <1>2. ASSUME NEW n \in Nat, n \in P PROVE n + 1 \in P
    <2>1. PICK g \in [0..n -> S] : Follows(g, v0, F, n)
      BY <1>2
    <2> DEFINE h == [i \in 0..(n + 1) |-> IF i <= n THEN g[i] ELSE F[<<g[n], n + 1>>]]
    <2>2. g[n] \in S /\ F[<<g[n], n + 1>>] \in S
      BY <2>1
    <2>3. h \in [0..(n + 1) -> S]
      BY <2>2
    <2>4. Follows(h, v0, F, n + 1)
      <3>1. h[0] = v0
        BY <2>1 DEF Follows
      <3>2. ASSUME NEW i \in 1..(n + 1) PROVE h[i] = F[<<h[i - 1], i>>]
        <4>1. h[i - 1] = g[i - 1]
          OBVIOUS
        <4>2. CASE i <= n
          <5>1. h[i] = g[i] /\ i \in 1..n
            BY <4>2
          <5>2. QED
            BY <2>1, <4>1, <5>1 DEF Follows
        <4>3. CASE i = n + 1
          <5>1. i - 1 = n /\ ~(i <= n) /\ i \in 0..(n + 1)
            BY <4>3
          <5>2. h[i] = F[<<g[n], n + 1>>]
            BY <4>3, <5>1
          <5>3. QED
            BY <4>1, <4>3, <5>1, <5>2
        <4>4. QED
          BY <4>2, <4>3
      <3>3. QED
        BY <3>1, <3>2 DEF Follows
    <2>5. QED
      BY <2>3, <2>4
  <1>3. \A n \in Nat : n \in P
    <2> HIDE DEF P
    <2> QED
      BY <1>1, <1>2, InductionOnNat
  <1>4. QED
    BY <1>3

\* f follows the recursion everywhere.
Solves(f, v0, F) ==
    f[0] = v0 /\ \A n \in Nat \ {0} : f[n] = F[<<f[n - 1], n>>]

\* A recursion whose values stay in S defines a function on all the naturals.
LEMMA Recursion ==
    ASSUME NEW S, NEW v0 \in S, NEW F \in [S \X (Nat \ {0}) -> S]
    PROVE  \E f \in [Nat -> S] : Solves(f, v0, F)
  <1> DEFINE G(n) == CHOOSE g \in [0..n -> S] : Follows(g, v0, F, n)
             f == [n \in Nat |-> G(n)[n]]
  <1>1. ASSUME NEW n \in Nat PROVE G(n) \in [0..n -> S] /\ Follows(G(n), v0, F, n)
    BY FiniteRecursion
  <1> HIDE DEF G
  <1>2. f \in [Nat -> S]
    BY <1>1
  <1>3. f[0] = v0
    BY <1>1 DEF Follows
  <1>4. ASSUME NEW n \in Nat \ {0}
        PROVE  f[n] = F[<<f[n - 1], n>>]
    <2>1. n - 1 \in Nat /\ n \in 1..n
      OBVIOUS
    <2>2. G(n)[n] = F[<<G(n)[n - 1], n>>]
      BY <1>1, <2>1 DEF Follows
    <2>3. G(n)[n - 1] = G(n - 1)[n - 1]
      BY <1>1, <2>1, RecursionUnique
    <2>4. QED
      BY <2>1, <2>2, <2>3
  <1>5. QED
    BY <1>2, <1>3, <1>4 DEF Solves

-----------------------------------------------------------------------------
(* The recursive functions that the models sum and shift with.             *)

\* The function that a recursion with i = 0 as its base defines on 0..n.
Recursive(g, v0, F, n) ==
    g = [i \in 0..n |-> IF i = 0 THEN v0 ELSE F[<<g[i - 1], i>>]]

\* Such a recursion has a solution, and what solves it follows it.
LEMMA RecursiveFollows ==
    ASSUME NEW S, NEW v0 \in S, NEW F \in [S \X (Nat \ {0}) -> S], NEW n \in Nat
    PROVE  /\ \E g : Recursive(g, v0, F, n)
           /\ \A g : Recursive(g, v0, F, n) => Follows(g, v0, F, n)
  <1>1. PICK h \in [0..n -> S] : Follows(h, v0, F, n)
    BY FiniteRecursion
  <1>2. Recursive(h, v0, F, n)
    <2>1. ASSUME NEW i \in 0..n
          PROVE  h[i] = IF i = 0 THEN v0 ELSE F[<<h[i - 1], i>>]
      <3>1. CASE i = 0
        BY <1>1, <3>1 DEF Follows
      <3>2. CASE i # 0
        <4>1. i \in 1..n
          BY <3>2
        <4>2. QED
          BY <1>1, <3>2, <4>1 DEF Follows
      <3>3. QED
        BY <3>1, <3>2
    <2>2. QED
      BY <2>1 DEF Recursive
  <1>3. ASSUME NEW g, Recursive(g, v0, F, n) PROVE Follows(g, v0, F, n)
    <2>1. 0 \in 0..n /\ \A i \in 1..n : i \in 0..n /\ i # 0
      OBVIOUS
    <2>2. QED
      BY <1>3, <2>1 DEF Recursive, Follows
  <1>4. QED
    BY <1>2, <1>3

\* Powers of two are positive, and one bit more doubles them.
LEMMA PowerOfTwoStep ==
    /\ \A n \in Nat : PowerOfTwo[n] \in Nat \ {0}
    /\ PowerOfTwo[0] = 1
    /\ \A n \in Nat : PowerOfTwo[n + 1] = 2 * PowerOfTwo[n]
  <1> DEFINE S == Nat \ {0}
             F == [p \in S \X (Nat \ {0}) |-> 2 * p[1]]
             e == 1
  <1>1. e \in S /\ F \in [S \X (Nat \ {0}) -> S]
    OBVIOUS
  <1>2. PICK f \in [Nat -> S] : Solves(f, e, F)
    <2> HIDE DEF S, F, e
    <2> QED
      BY <1>1, Recursion
  <1>3. f = [n \in Nat |-> IF n = 0 THEN 1 ELSE 2 * f[n - 1]]
    <2>1. ASSUME NEW n \in Nat PROVE f[n] = IF n = 0 THEN 1 ELSE 2 * f[n - 1]
      <3>1. CASE n = 0
        BY <1>2, <3>1 DEF Solves
      <3>2. CASE n # 0
        <4>1. n - 1 \in Nat /\ f[n - 1] \in S /\ n \in Nat \ {0}
          BY <3>2
        <4>2. f[n] = F[<<f[n - 1], n>>]
          BY <1>2, <4>1 DEF Solves
        <4>3. F[<<f[n - 1], n>>] = 2 * f[n - 1]
          BY <4>1
        <4>4. QED
          BY <3>2, <4>2, <4>3
      <3>3. QED
        BY <3>1, <3>2
    <2>2. QED
      BY <2>1
  <1>4. PowerOfTwo = [n \in Nat |-> IF n = 0 THEN 1 ELSE 2 * PowerOfTwo[n - 1]]
    BY <1>3 DEF PowerOfTwo
  <1>5. PowerOfTwo[0] = 1
    BY <1>4
  <1>6. ASSUME NEW n \in Nat PROVE PowerOfTwo[n + 1] = 2 * PowerOfTwo[n]
    BY <1>4
  <1> DEFINE P == {n \in Nat : PowerOfTwo[n] \in Nat \ {0}}
  <1>7. 0 \in P
    BY <1>5
  <1>8. ASSUME NEW n \in Nat, n \in P PROVE n + 1 \in P
    BY <1>6, <1>8
  <1>9. \A n \in Nat : n \in P
    <2> HIDE DEF P
    <2> QED
      BY <1>7, <1>8, InductionOnNat
  <1>10. QED
    BY <1>5, <1>6, <1>9

\* A sum of bits multiplies the powers.
LEMMA PowerOfTwoSum ==
    ASSUME NEW a \in Nat, NEW b \in Nat
    PROVE  PowerOfTwo[a + b] = PowerOfTwo[a] * PowerOfTwo[b]
  <1> DEFINE P == {n \in Nat : PowerOfTwo[a + n] = PowerOfTwo[a] * PowerOfTwo[n]}
  <1>1. 0 \in P
    BY PowerOfTwoStep
  <1>2. ASSUME NEW n \in Nat, n \in P PROVE n + 1 \in P
    <2>1. PowerOfTwo[a + (n + 1)] = 2 * PowerOfTwo[a + n]
      <3>1. a + n \in Nat /\ a + (n + 1) = (a + n) + 1
        OBVIOUS
      <3>2. QED
        BY <3>1, PowerOfTwoStep
    <2>2. PowerOfTwo[n + 1] = 2 * PowerOfTwo[n]
      BY PowerOfTwoStep
    <2>3. PICK x \in Nat, y \in Nat : x = PowerOfTwo[a] /\ y = PowerOfTwo[n]
      BY PowerOfTwoStep
    <2>4. 2 * (x * y) = x * (2 * y)
      OBVIOUS
    <2>5. QED
      BY <1>2, <2>1, <2>2, <2>3, <2>4
  <1>3. \A n \in Nat : n \in P
    <2> HIDE DEF P
    <2> QED
      BY <1>1, <1>2, InductionOnNat
  <1>4. QED
    BY <1>3

\* A longer value has more patterns.
LEMMA PowerOfTwoGrows ==
    ASSUME NEW a \in Nat, NEW b \in Nat, a <= b
    PROVE  PowerOfTwo[a] <= PowerOfTwo[b]
  <1>1. b - a \in Nat /\ a + (b - a) = b
    OBVIOUS
  <1>2. PICK x \in Nat \ {0}, y \in Nat \ {0} : x = PowerOfTwo[a] /\ y = PowerOfTwo[b - a]
    BY <1>1, PowerOfTwoStep
  <1>3. x <= x * y
    OBVIOUS
  <1>4. QED
    BY <1>1, <1>2, <1>3, PowerOfTwoSum

\* A sum grows by its last element.
LEMMA SumToStep ==
    ASSUME NEW seq, NEW m \in Nat, \A i \in 1..m : seq[i] \in Nat
    PROVE  /\ SumTo(seq, 0) = 0
           /\ \A n \in 0..m : SumTo(seq, n) \in Nat
           /\ \A n \in 1..m : SumTo(seq, n) = SumTo(seq, n - 1) + seq[n]
  <1> DEFINE F == [p \in Nat \X (Nat \ {0}) |-> IF p[2] <= m THEN p[1] + seq[p[2]] ELSE 0]
             z == 0
             sum(n) == CHOOSE g : g = [i \in 0..n |-> IF i = 0 THEN 0 ELSE g[i - 1] + seq[i]]
  <1>1. F \in [Nat \X (Nat \ {0}) -> Nat] /\ z \in Nat
    OBVIOUS
  <1>2. ASSUME NEW n \in 0..m PROVE \E g \in [0..n -> Nat] : Follows(g, z, F, n)
    <2>1. n \in Nat
      OBVIOUS
    <2> HIDE DEF F, z
    <2> QED
      BY <1>1, <2>1, FiniteRecursion
  <1>3. ASSUME NEW n \in 0..m
        PROVE  /\ sum(n)[0] = 0 /\ \A i \in 1..n : sum(n)[i] = sum(n)[i - 1] + seq[i]
               /\ \A i \in 0..n : sum(n)[i] \in Nat
    <2>1. PICK h \in [0..n -> Nat] : Follows(h, z, F, n)
      BY <1>2
    <2>2. ASSUME NEW i \in 1..n PROVE h[i] = h[i - 1] + seq[i]
      <3>1. i \in Nat \ {0} /\ i - 1 \in 0..n /\ i <= m
        OBVIOUS
      <3>2. h[i] = F[<<h[i - 1], i>>] /\ h[i - 1] \in Nat
        BY <2>1, <3>1 DEF Follows
      <3>3. QED
        BY <3>1, <3>2
    <2>3. h[0] = 0
      BY <2>1 DEF Follows
    <2>4. h = [i \in 0..n |-> IF i = 0 THEN 0 ELSE h[i - 1] + seq[i]]
      <3>1. ASSUME NEW i \in 0..n PROVE h[i] = IF i = 0 THEN 0 ELSE h[i - 1] + seq[i]
        <4>1. i = 0 \/ i \in 1..n
          OBVIOUS
        <4>2. QED
          BY <2>2, <2>3, <4>1
      <3>2. QED
        BY <3>1
    <2>5. sum(n) = [i \in 0..n |-> IF i = 0 THEN 0 ELSE sum(n)[i - 1] + seq[i]]
      BY <2>4
    <2> HIDE DEF sum, F
    <2>6. sum(n)[0] = 0
      BY <2>5
    <2>7. ASSUME NEW i \in 1..n PROVE sum(n)[i] = sum(n)[i - 1] + seq[i]
      <3>1. i \in 0..n /\ i # 0
        OBVIOUS
      <3>2. QED
        BY <2>5, <3>1
    <2> DEFINE P == {i \in Nat : i <= n => sum(n)[i] \in Nat}
    <2>8. 0 \in P
      BY <2>6
    <2>9. ASSUME NEW i \in Nat, i \in P PROVE i + 1 \in P
      <3>1. SUFFICES ASSUME i + 1 <= n PROVE sum(n)[i + 1] \in Nat
        OBVIOUS
      <3>2. PICK j \in 1..n : j = i + 1 /\ j - 1 = i /\ j \in 1..m
        BY <3>1
      <3>3. sum(n)[i] \in Nat
        BY <2>9, <3>1
      <3>4. sum(n)[j] = sum(n)[j - 1] + seq[j] /\ seq[j] \in Nat
        BY <2>7, <3>2
      <3>5. QED
        BY <3>2, <3>3, <3>4
    <2>10. \A i \in Nat : i \in P
      <3> HIDE DEF P
      <3> QED
        BY <2>8, <2>9, InductionOnNat
    <2>11. QED
      BY <2>6, <2>7, <2>10
  <1>4. ASSUME NEW n \in 0..m PROVE SumTo(seq, n) = sum(n)[n]
    BY DEF SumTo
  <1> HIDE DEF sum
  <1>5. SumTo(seq, 0) = 0
    <2>1. PICK n \in 0..m : n = 0
      OBVIOUS
    <2>2. QED
      BY <1>3, <1>4, <2>1
  <1>6. ASSUME NEW n \in 0..m PROVE SumTo(seq, n) \in Nat
    BY <1>3, <1>4
  <1>7. ASSUME NEW n \in 1..m PROVE SumTo(seq, n) = SumTo(seq, n - 1) + seq[n]
    <2>1. n \in 0..m /\ n - 1 \in 0..m
      OBVIOUS
    <2> DEFINE P == {i \in Nat : i <= n - 1 => sum(n)[i] = sum(n - 1)[i]}
    <2>2. 0 \in P
      BY <1>3, <2>1
    <2>3. ASSUME NEW i \in Nat, i \in P PROVE i + 1 \in P
      <3>1. SUFFICES ASSUME i + 1 <= n - 1 PROVE sum(n)[i + 1] = sum(n - 1)[i + 1]
        OBVIOUS
      <3>2. PICK j \in 1..n : j = i + 1 /\ j - 1 = i /\ j \in 1..(n - 1)
        BY <3>1
      <3>3. sum(n)[i] = sum(n - 1)[i]
        BY <2>3, <3>1
      <3>4. QED
        BY <1>3, <2>1, <3>2, <3>3
    <2>4. \A i \in Nat : i \in P
      <3> HIDE DEF P
      <3> QED
        BY <2>2, <2>3, InductionOnNat
    <2>5. sum(n)[n - 1] = sum(n - 1)[n - 1]
      BY <2>4
    <2>6. sum(n)[n] = sum(n)[n - 1] + seq[n]
      BY <1>3, <2>1
    <2>7. QED
      BY <1>4, <2>1, <2>5, <2>6
  <1>8. QED
    BY <1>5, <1>6, <1>7

\* A sum is at most the sums that continue it.
LEMMA SumToGrows ==
    ASSUME NEW seq, NEW m \in Nat, \A i \in 1..m : seq[i] \in Nat,
           NEW a \in 0..m
    PROVE  \A n \in 0..m : a <= n => SumTo(seq, a) <= SumTo(seq, n)
  <1> DEFINE P == {n \in Nat : n \in 0..m /\ a <= n => SumTo(seq, a) <= SumTo(seq, n)}
  <1>1. 0 \in P
    <2>1. a <= 0 => a = 0
      OBVIOUS
    <2>2. SumTo(seq, a) \in Nat
      BY SumToStep
    <2>3. QED
      BY <2>1, <2>2
  <1>2. ASSUME NEW n \in Nat, n \in P PROVE n + 1 \in P
    <2>1. SUFFICES ASSUME n + 1 \in 0..m, a <= n + 1
                   PROVE SumTo(seq, a) <= SumTo(seq, n + 1)
      OBVIOUS
    <2>2. SumTo(seq, a) \in Nat /\ SumTo(seq, n) \in Nat
      BY <2>1, SumToStep
    <2>3. CASE a = n + 1
      BY <2>2, <2>3
    <2>4. CASE a <= n
      <3>1. PICK j \in 1..m : j = n + 1 /\ j - 1 = n
        BY <2>1
      <3>2. SumTo(seq, j) = SumTo(seq, n) + seq[j] /\ seq[j] \in Nat
        BY <3>1, SumToStep
      <3>3. SumTo(seq, a) <= SumTo(seq, n)
        BY <1>2, <2>1, <2>4
      <3>4. QED
        BY <2>2, <3>1, <3>2, <3>3
    <2>5. QED
      BY <2>1, <2>3, <2>4
  <1>3. \A n \in Nat : n \in P
    <2> HIDE DEF P
    <2> QED
      BY <1>1, <1>2, InductionOnNat
  <1>4. QED
    BY <1>3

-----------------------------------------------------------------------------
(* Quotients and remainders.                                               *)

\* A quotient and a remainder that fit are the ones.
LEMMA QuotientUnique ==
    ASSUME NEW q \in Int, NEW d \in Nat \ {0}, NEW r \in 0..(d - 1)
    PROVE  (q * d + r) \div d = q /\ (q * d + r) % d = r
  <1> DEFINE v == q * d + r
             p == v \div d
             t == v % d
  <1>1. v \in Int /\ p \in Int /\ t \in 0..(d - 1) /\ v = p * d + t
    OBVIOUS
  <1> HIDE DEF p, t
  <1>2. (q - p) * d = t - r
    BY <1>1
  <1>3. q = p
    <2>1. CASE q - p >= 1
      <3>1. (q - p) * d >= d
        BY <1>1, <2>1
      <3>2. QED
        BY <1>1, <1>2, <3>1
    <2>2. CASE q - p <= -1
      <3>1. (q - p) * d <= -d
        BY <1>1, <2>2
      <3>2. QED
        BY <1>1, <1>2, <3>1
    <2>3. QED
      BY <1>1, <2>1, <2>2
  <1>4. t = r
    BY <1>1, <1>3
  <1>5. QED
    BY <1>3, <1>4 DEF p, t

\* The low digits of a number are its lowest and the next ones.
LEMMA LowDigits ==
    ASSUME NEW v \in Nat, NEW m \in Nat \ {0}, NEW n \in Nat \ {0}
    PROVE  v % (m * n) = (v % m) + ((v \div m) % n) * m
  <1> DEFINE q == v \div m
             r == v % m
             p == q \div n
             t == q % n
  <1>1. q \in Nat /\ r \in 0..(m - 1) /\ v = q * m + r
    OBVIOUS
  <1> HIDE DEF q, r
  <1>2. p \in Nat /\ t \in 0..(n - 1) /\ q = p * n + t
    BY <1>1
  <1> HIDE DEF p, t
  <1>3. v = p * (m * n) + (t * m + r)
    <2>1. (p * n + t) * m = p * (m * n) + t * m
      BY <1>1, <1>2
    <2>2. QED
      BY <1>1, <1>2, <2>1
  <1>4. m * n \in Nat \ {0} /\ t * m + r \in 0..(m * n - 1)
    <2>1. t * m <= (n - 1) * m /\ t * m >= 0
      BY <1>2
    <2>2. (n - 1) * m = m * n - m /\ m * n > 0
      OBVIOUS
    <2>3. QED
      BY <1>1, <1>2, <2>1, <2>2
  <1>5. v % (m * n) = t * m + r
    <2>1. PICK d \in Nat \ {0} : d = m * n
      BY <1>4
    <2>2. PICK e \in 0..(d - 1) : e = t * m + r
      BY <1>4, <2>1
    <2>3. p \in Int /\ v = p * d + e
      BY <1>2, <1>3, <2>1, <2>2
    <2>4. QED
      BY <2>1, <2>2, <2>3, QuotientUnique
  <1>6. QED
    BY <1>1, <1>2, <1>5 DEF q, r, p, t

-----------------------------------------------------------------------------
(* Sequences one after the other.                                          *)

\* FlattenSeq of SequencesExt, under a name that every module can extend.
Flat(seqs) ==
    IF Len(seqs) = 0 THEN seqs
    ELSE LET flatten[i \in 1..Len(seqs)] ==
               IF i = 1 THEN seqs[i] ELSE flatten[i - 1] \o seqs[i]
         IN  flatten[Len(seqs)]

\* The elements of a concatenation, by the lengths of its halves.
LEMMA ConcatAt ==
    ASSUME NEW S, NEW s \in Seq(S), NEW t \in Seq(S), NEW u, NEW w,
           u = Len(s), w = Len(t)
    PROVE  /\ s \o t \in Seq(S)
           /\ u \in Nat /\ w \in Nat /\ Len(s \o t) = u + w
           /\ \A i \in 1..u : (s \o t)[i] = s[i]
           /\ \A i \in 1..w : (s \o t)[u + i] = t[i]
  OBVIOUS

\* The flat sequence is the last of the sequences that its recursion builds.
LEMMA FlatRecursion ==
    ASSUME NEW S, NEW seqs \in Seq(Seq(S))
    PROVE  \E F \in [Nat -> Seq(S)] :
              /\ F[0] = << >>
              /\ \A i \in 1..Len(seqs) : F[i] = F[i - 1] \o seqs[i]
              /\ Flat(seqs) = F[Len(seqs)]
  <1> DEFINE n == Len(seqs)
             step == [p \in Seq(S) \X (Nat \ {0}) |->
                         IF p[2] <= n THEN p[1] \o seqs[p[2]] ELSE << >>]
  <1>1. n \in Nat /\ \A i \in 1..n : seqs[i] \in Seq(S)
    OBVIOUS
  <1>2. step \in [Seq(S) \X (Nat \ {0}) -> Seq(S)]
    <2>1. ASSUME NEW s \in Seq(S), NEW i \in Nat \ {0}
          PROVE  (IF i <= n THEN s \o seqs[i] ELSE << >>) \in Seq(S)
      BY <1>1
    <2>2. QED
      BY <2>1
  <1> HIDE DEF n
  <1>3. PICK F \in [Nat -> Seq(S)] :
            F[0] = << >> /\ \A i \in Nat \ {0} : F[i] = step[<<F[i - 1], i>>]
    <2> DEFINE T == Seq(S)
               e == << >>
    <2>1. e \in T /\ step \in [T \X (Nat \ {0}) -> T]
      BY <1>2
    <2> HIDE DEF step, T, e
    <2>2. PICK F \in [Nat -> T] : Solves(F, e, step)
      BY <2>1, Recursion
    <2>3. QED
      BY <2>2 DEF T, e, Solves
  <1>4. F[0] = << >>
    BY <1>3
  <1>5. ASSUME NEW i \in 1..n PROVE F[i] = F[i - 1] \o seqs[i]
    <2>1. i \in Nat \ {0} /\ i - 1 \in Nat /\ F[i - 1] \in Seq(S)
      BY <1>1
    <2>2. F[i] = step[<<F[i - 1], i>>]
      BY <1>3, <2>1
    <2>3. ASSUME NEW s \in Seq(S) PROVE step[<<s, i>>] = s \o seqs[i]
      <3>1. i <= n
        BY <1>1
      <3>2. <<s, i>> \in Seq(S) \X (Nat \ {0})
        BY <2>1
      <3>3. QED
        BY <3>1, <3>2
    <2>4. QED
      BY <2>1, <2>2, <2>3
  <1>6. Flat(seqs) = F[n]
    <2>1. CASE n = 0
      BY <1>4, <2>1 DEF Flat, n
    <2>2. CASE n # 0
      <3> DEFINE flatten == CHOOSE g : g = [i \in 1..n |-> IF i = 1 THEN seqs[i]
                                                           ELSE g[i - 1] \o seqs[i]]
      <3>1. \E g : g = [i \in 1..n |-> IF i = 1 THEN seqs[i] ELSE g[i - 1] \o seqs[i]]
        <4> DEFINE g == [i \in 1..n |-> F[i]]
        <4>1. ASSUME NEW i \in 1..n
              PROVE  F[i] = IF i = 1 THEN seqs[i] ELSE g[i - 1] \o seqs[i]
          <5>1. CASE i = 1
            <6>1. F[i] = F[i - 1] \o seqs[i] /\ seqs[i] \in Seq(S)
              BY <1>1, <1>5
            <6>2. i - 1 = 0
              BY <5>1
            <6>3. << >> \o seqs[i] = seqs[i]
              BY <6>1, ConcatEmptySeq
            <6>4. QED
              BY <1>4, <5>1, <6>1, <6>2, <6>3
          <5>2. CASE i # 1
            <6>1. i - 1 \in 1..n
              BY <1>1, <5>2
            <6>2. QED
              BY <1>5, <5>2, <6>1
          <5>3. QED
            BY <5>1, <5>2
        <4>2. g = [i \in 1..n |-> IF i = 1 THEN seqs[i] ELSE g[i - 1] \o seqs[i]]
          BY <4>1
        <4>3. QED
          BY <4>2
      <3>2. flatten = [i \in 1..n |-> IF i = 1 THEN seqs[i] ELSE flatten[i - 1] \o seqs[i]]
        BY <3>1
      <3>3. Flat(seqs) = flatten[n]
        BY <2>2 DEF Flat, n
      <3> HIDE DEF flatten
      <3> DEFINE P == {i \in Nat : i \in 1..n => flatten[i] = F[i]}
      <3>4. 0 \in P
        OBVIOUS
      <3>5. ASSUME NEW i \in Nat, i \in P PROVE i + 1 \in P
        <4>1. SUFFICES ASSUME i + 1 \in 1..n PROVE flatten[i + 1] = F[i + 1]
          OBVIOUS
        <4>2. CASE i = 0
          <5>1. PICK j \in 1..n : j = i + 1 /\ j = 1 /\ j - 1 = 0
            BY <4>1, <4>2
          <5>2. F[j] = F[j - 1] \o seqs[j] /\ seqs[j] \in Seq(S)
            BY <1>1, <1>5
          <5>3. << >> \o seqs[j] = seqs[j]
            BY <5>2, ConcatEmptySeq
          <5>4. flatten[j] = seqs[j]
            BY <3>2, <5>1
          <5>5. QED
            BY <1>4, <5>1, <5>2, <5>3, <5>4
        <4>3. CASE i # 0
          <5>1. i \in 1..n /\ flatten[i] = F[i] /\ (i + 1) - 1 = i /\ i + 1 # 1
            BY <1>1, <3>5, <4>1, <4>3
          <5>2. flatten[i + 1] = flatten[i] \o seqs[i + 1]
            BY <3>2, <4>1, <5>1
          <5>3. QED
            BY <1>5, <4>1, <5>1, <5>2
        <4>4. QED
          BY <4>2, <4>3
      <3>6. n \in P
        <4> HIDE DEF P
        <4>1. QED
          BY <1>1, <3>4, <3>5, InductionOnNat
      <3>7. QED
        BY <1>1, <2>2, <3>3, <3>6
    <2>3. QED
      BY <2>1, <2>2
  <1>7. QED
    BY <1>4, <1>5, <1>6 DEF n

\* Flattening one more sequence appends it.
LEMMA FlatAppend ==
    ASSUME NEW S, NEW seqs \in Seq(Seq(S)), NEW e \in Seq(S)
    PROVE  /\ Flat(seqs) \in Seq(S)
           /\ Flat(Append(seqs, e)) = Flat(seqs) \o e
  <1> DEFINE n == Len(seqs)
             more == Append(seqs, e)
  <1>1. /\ more \in Seq(Seq(S)) /\ Len(more) = n + 1 /\ n \in Nat
        /\ \A i \in 1..n : more[i] = seqs[i]
        /\ more[n + 1] = e
    OBVIOUS
  <1>2. PICK F \in [Nat -> Seq(S)] :
            /\ F[0] = << >>
            /\ \A i \in 1..n : F[i] = F[i - 1] \o seqs[i]
            /\ Flat(seqs) = F[n]
    BY FlatRecursion
  <1> HIDE DEF more
  <1>3. PICK G \in [Nat -> Seq(S)] :
            /\ G[0] = << >>
            /\ \A i \in 1..Len(more) : G[i] = G[i - 1] \o more[i]
            /\ Flat(more) = G[Len(more)]
    BY <1>1, FlatRecursion
  <1> HIDE DEF n
  <1> DEFINE P == {i \in Nat : i <= n => G[i] = F[i]}
  <1>4. 0 \in P
    BY <1>2, <1>3
  <1>5. ASSUME NEW i \in Nat, i \in P PROVE i + 1 \in P
    <2>1. SUFFICES ASSUME i + 1 <= n PROVE G[i + 1] = F[i + 1]
      OBVIOUS
    <2>2. PICK j \in 1..n : j = i + 1 /\ j - 1 = i
      BY <1>1, <2>1
    <2>3. G[i] = F[i]
      BY <1>1, <1>5, <2>1
    <2>4. j \in 1..Len(more) /\ more[j] = seqs[j]
      <3>1. more[j] = seqs[j]
        BY <1>1
      <3>2. j \in 1..(n + 1)
        BY <1>1
      <3>3. QED
        BY <1>1, <3>1, <3>2
    <2>5. F[j] = F[j - 1] \o seqs[j] /\ G[j] = G[j - 1] \o seqs[j]
      BY <1>2, <1>3, <2>4
    <2>6. QED
      BY <2>2, <2>3, <2>5
  <1>6. n \in P
    <2> HIDE DEF P
    <2>1. QED
      BY <1>1, <1>4, <1>5, InductionOnNat
  <1>7. PICK j \in 1..Len(more) : j = n + 1 /\ j = Len(more) /\ j - 1 = n
    BY <1>1
  <1>8. G[j] = G[n] \o e
    BY <1>1, <1>3, <1>7
  <1>9. G[n] = F[n]
    BY <1>1, <1>6
  <1>10. QED
    BY <1>1, <1>2, <1>3, <1>7, <1>8, <1>9 DEF more

\* The parts, of these lengths, lie one behind the other.
LaidOut(flat, seqs, lens) ==
    /\ Len(flat) = SumTo(lens, Len(seqs))
    /\ \A i \in 1..Len(seqs) : \A x \in 1..Len(seqs[i]) :
          /\ SumTo(lens, i - 1) + x \in 1..Len(flat)
          /\ flat[SumTo(lens, i - 1) + x] = seqs[i][x]

\* Every element of every part is found behind the parts before it.
LEMMA FlatAt ==
    ASSUME NEW S, NEW seqs \in Seq(Seq(S)), NEW lens,
           \A i \in 1..Len(seqs) : lens[i] = Len(seqs[i])
    PROVE  Flat(seqs) \in Seq(S) /\ LaidOut(Flat(seqs), seqs, lens)
  <1> DEFINE n == Len(seqs)
  <1>1. n \in Nat /\ \A i \in 1..n : seqs[i] \in Seq(S) /\ lens[i] \in Nat
    BY LenProperties
  <1>2. PICK F \in [Nat -> Seq(S)] :
            /\ F[0] = << >>
            /\ \A i \in 1..n : F[i] = F[i - 1] \o seqs[i]
            /\ Flat(seqs) = F[n]
    BY FlatRecursion
  <1> HIDE DEF n
  <1>3. /\ SumTo(lens, 0) = 0
        /\ \A i \in 0..n : SumTo(lens, i) \in Nat
        /\ \A i \in 1..n : SumTo(lens, i) = SumTo(lens, i - 1) + lens[i]
    BY <1>1, SumToStep
  <1>4. \A i \in 1..n : lens[i] = Len(seqs[i])
    BY DEF n
  <1>5. \A i \in 0..n : Len(F[i]) = SumTo(lens, i)
    <2> DEFINE P == {i \in Nat : i <= n => Len(F[i]) = SumTo(lens, i)}
    <2>1. 0 \in P
      BY <1>2, <1>3, EmptySeq
    <2>2. ASSUME NEW i \in Nat, i \in P PROVE i + 1 \in P
      <3>1. SUFFICES ASSUME i + 1 <= n PROVE Len(F[i + 1]) = SumTo(lens, i + 1)
        OBVIOUS
      <3>2. PICK j \in 1..n : j = i + 1 /\ j - 1 = i
        BY <1>1, <3>1
      <3>3. F[j] = F[i] \o seqs[j] /\ F[i] \in Seq(S) /\ seqs[j] \in Seq(S)
        BY <1>1, <1>2, <3>2
      <3>4. Len(F[j]) = Len(F[i]) + Len(seqs[j])
        BY <3>3, ConcatProperties
      <3>5. Len(F[i]) = SumTo(lens, i)
        BY <1>1, <2>2, <3>1
      <3>6. SumTo(lens, j) = SumTo(lens, i) + lens[j] /\ lens[j] = Len(seqs[j])
        BY <1>3, <1>4, <3>2
      <3>7. QED
        BY <3>2, <3>4, <3>5, <3>6
    <2>3. \A i \in Nat : i \in P
      <3> HIDE DEF P
      <3> QED
        BY <2>1, <2>2, InductionOnNat
    <2>4. QED
      BY <1>1, <2>3
  <1>6. ASSUME NEW i \in 1..n, NEW x \in 1..Len(seqs[i])
        PROVE  /\ SumTo(lens, i - 1) + x \in 1..Len(F[n])
               /\ F[n][SumTo(lens, i - 1) + x] = seqs[i][x]
    <2>1. i - 1 \in 0..n /\ i \in 0..n /\ Len(seqs[i]) \in Nat
      <3>1. i \in Int /\ n \in Int /\ 1 <= i /\ i <= n
        BY ONLY <1>1, i \in 1..n
      <3>2. Len(seqs[i]) \in Nat
        BY <1>1, LenProperties
      <3>3. QED
        BY ONLY <3>1, <3>2
    <2>2. PICK o \in Nat : o = SumTo(lens, i - 1)
      BY <1>3, <2>1
    <2> DEFINE P == {m \in Nat : i <= m /\ m <= n =>
                        o + x \in 1..Len(F[m]) /\ F[m][o + x] = seqs[i][x]}
    <2>3. 0 \in P
      OBVIOUS
    <2>4. ASSUME NEW m \in Nat, m \in P PROVE m + 1 \in P
      <3>1. SUFFICES ASSUME i <= m + 1, m + 1 <= n
                     PROVE  o + x \in 1..Len(F[m + 1]) /\ F[m + 1][o + x] = seqs[i][x]
        OBVIOUS
      <3>2. PICK j \in 1..n : j = m + 1 /\ j - 1 = m
        BY <1>1, <3>1
      <3>3. F[j] = F[m] \o seqs[j] /\ F[m] \in Seq(S) /\ seqs[j] \in Seq(S)
        BY <1>1, <1>2, <3>2
      <3>4. PICK u \in Nat, w \in Nat : u = Len(F[m]) /\ w = Len(seqs[j])
        BY <3>3, LenProperties
      <3>5. /\ Len(F[j]) = u + w
            /\ \A y \in 1..(u + w) :
                  F[j][y] = IF y <= u THEN F[m][y] ELSE seqs[j][y - u]
        BY <3>3, <3>4, ConcatProperties
      <3>6. PICK y \in Nat : y = o + x
        BY <2>1
      <3>7. CASE i <= m
        <4>1. y \in 1..u /\ F[m][y] = seqs[i][x]
          BY <1>1, <2>4, <3>1, <3>4, <3>6, <3>7
        <4>2. y \in 1..(u + w) /\ y <= u
          BY <4>1
        <4>3. QED
          BY <3>2, <3>5, <3>6, <4>1, <4>2
      <3>8. CASE i = m + 1
        <4>1. i = j /\ u = o
          <5>1. m \in 0..n
            BY <1>1, <3>1
          <5>2. i - 1 = m
            BY <3>8
          <5>3. QED
            BY <1>5, <2>2, <3>2, <3>4, <3>8, <5>1, <5>2
        <4>2. x \in 1..w
          BY <3>4, <4>1
        <4>3. y \in 1..(u + w) /\ ~(y <= u) /\ y - u = x
          BY <3>6, <4>1, <4>2
        <4>4. QED
          BY <3>2, <3>5, <3>6, <4>1, <4>3
      <3>9. QED
        BY <1>1, <3>1, <3>7, <3>8
    <2>5. \A m \in Nat : m \in P
      <3> HIDE DEF P
      <3> QED
        BY <2>3, <2>4, InductionOnNat
    <2>6. n \in P
      BY <1>1, <2>5
    <2>7. QED
      BY <1>1, <2>2, <2>6
  <1>7. n \in 0..n
    BY <1>1
  <1>8. QED
    BY <1>1, <1>2, <1>5, <1>6, <1>7 DEF n, LaidOut
-----------------------------------------------------------------------------
(* More sums: over sequences, and over finite sets.                        *)

\* What is summed up to n is all that a sum depends on.
LEMMA SumToSame ==
    ASSUME NEW s, NEW t, NEW n \in Nat, \A i \in 1..n : s[i] \in Nat /\ t[i] = s[i]
    PROVE  SumTo(s, n) = SumTo(t, n)
  <1>1. /\ SumTo(s, 0) = 0 /\ SumTo(t, 0) = 0
        /\ \A i \in 1..n : SumTo(s, i) = SumTo(s, i - 1) + s[i]
        /\ \A i \in 1..n : SumTo(t, i) = SumTo(t, i - 1) + t[i]
    BY SumToStep
  <1> DEFINE P == {i \in Nat : i <= n => SumTo(s, i) = SumTo(t, i)}
  <1>2. 0 \in P
    BY <1>1
  <1>3. ASSUME NEW i \in Nat, i \in P PROVE i + 1 \in P
    <2>1. SUFFICES ASSUME i + 1 <= n PROVE SumTo(s, i + 1) = SumTo(t, i + 1)
      OBVIOUS
    <2>2. PICK j \in 1..n : j = i + 1 /\ j - 1 = i
      BY <2>1
    <2>3. SumTo(s, i) = SumTo(t, i)
      BY <1>3, <2>1
    <2>4. QED
      BY <1>1, <2>2, <2>3
  <1>4. \A i \in Nat : i \in P
    <2> HIDE DEF P
    <2> QED
      BY <1>2, <1>3, InductionOnNat
  <1>5. QED
    BY <1>4

\* A sum that starts with another summand.
LEMMA SumToShift ==
    ASSUME NEW s, NEW t, NEW n \in Nat, NEW x \in Nat, t[1] = x,
           \A i \in 1..n : s[i] \in Nat /\ t[i + 1] = s[i]
    PROVE  SumTo(t, n + 1) = x + SumTo(s, n)
  <1>1. \A i \in 1..(n + 1) : t[i] \in Nat
    <2>1. ASSUME NEW i \in 1..(n + 1), i # 1 PROVE t[i] \in Nat
      <3>1. PICK j \in 1..n : j + 1 = i
        <4>1. i - 1 \in 1..n /\ (i - 1) + 1 = i
          BY <2>1
        <4>2. QED
          BY <4>1
      <3>2. QED
        BY <3>1
    <2>2. QED
      BY <2>1
  <1>2. n + 1 \in Nat
    OBVIOUS
  <1>3. /\ SumTo(s, 0) = 0 /\ SumTo(t, 0) = 0
        /\ \A i \in 1..n : SumTo(s, i) = SumTo(s, i - 1) + s[i]
        /\ \A i \in 0..n : SumTo(s, i) \in Nat
    BY SumToStep
  <1>4. /\ SumTo(t, 0) = 0
        /\ \A i \in 1..(n + 1) : SumTo(t, i) = SumTo(t, i - 1) + t[i]
    BY <1>1, <1>2, SumToStep
  <1> DEFINE P == {i \in Nat : i <= n => SumTo(t, i + 1) = x + SumTo(s, i)}
  <1>5. 0 \in P
    <2>1. PICK j \in 1..(n + 1) : j = 1 /\ j - 1 = 0
      OBVIOUS
    <2>2. SumTo(t, j) = SumTo(t, 0) + t[j]
      BY <1>4, <2>1
    <2>3. SumTo(t, j) = x
      BY <1>4, <2>1, <2>2
    <2>4. SumTo(t, 0 + 1) = x
      BY <2>1, <2>3
    <2>5. QED
      BY <1>3, <2>4
  <1>6. ASSUME NEW i \in Nat, i \in P PROVE i + 1 \in P
    <2>1. SUFFICES ASSUME i + 1 <= n PROVE SumTo(t, (i + 1) + 1) = x + SumTo(s, i + 1)
      OBVIOUS
    <2>2. PICK j \in 1..n : j = i + 1 /\ j - 1 = i
      BY <2>1
    <2>3. PICK k \in 1..(n + 1) : k = j + 1 /\ k - 1 = j
      BY <2>2
    <2>4. SumTo(t, j) = x + SumTo(s, i)
      BY <1>6, <2>1, <2>2
    <2>5. SumTo(s, j) = SumTo(s, i) + s[j] /\ s[j] \in Nat
      BY <1>3, <2>2
    <2>6. SumTo(t, k) = SumTo(t, j) + t[k]
      BY <1>4, <2>3
    <2>7. t[k] = s[j]
      BY <2>3
    <2>8. i \in 0..n
      BY <2>2
    <2>9. QED
      BY <1>3, <2>2, <2>3, <2>4, <2>5, <2>6, <2>7, <2>8
  <1>7. \A i \in Nat : i \in P
    <2> HIDE DEF P
    <2> QED
      BY <1>5, <1>6, InductionOnNat
  <1>8. QED
    BY <1>7

\* One summand less.
LEMMA SumToWithout ==
    ASSUME NEW s, NEW t, NEW n \in Nat, NEW k \in 1..n, NEW x \in Nat,
           \A i \in 1..n : s[i] \in Nat /\ t[i] \in Nat,
           \A i \in 1..n : i # k => t[i] = s[i],
           s[k] = x, t[k] = 0
    PROVE  SumTo(s, n) = SumTo(t, n) + x
  <1>1. /\ SumTo(s, 0) = 0 /\ SumTo(t, 0) = 0
        /\ \A i \in 1..n : SumTo(s, i) = SumTo(s, i - 1) + s[i]
        /\ \A i \in 1..n : SumTo(t, i) = SumTo(t, i - 1) + t[i]
        /\ \A i \in 0..n : SumTo(t, i) \in Nat
    BY SumToStep
  <1> DEFINE P == {i \in Nat : i <= n =>
                      SumTo(s, i) = SumTo(t, i) + (IF i < k THEN 0 ELSE x)}
  <1>2. 0 \in P
    BY <1>1
  <1>3. ASSUME NEW i \in Nat, i \in P PROVE i + 1 \in P
    <2>1. SUFFICES ASSUME i + 1 <= n
                   PROVE  SumTo(s, i + 1) = SumTo(t, i + 1) + (IF i + 1 < k THEN 0 ELSE x)
      OBVIOUS
    <2>2. PICK j \in 1..n : j = i + 1 /\ j - 1 = i
      BY <2>1
    <2>3. SumTo(s, i) = SumTo(t, i) + (IF i < k THEN 0 ELSE x)
      BY <1>3, <2>1
    <2>4. SumTo(s, j) = SumTo(s, i) + s[j] /\ SumTo(t, j) = SumTo(t, i) + t[j]
      BY <1>1, <2>2
    <2>5. SumTo(t, i) \in Nat /\ s[j] \in Nat /\ t[j] \in Nat
      BY <1>1, <2>2
    <2>6. CASE j < k
      BY <2>2, <2>3, <2>4, <2>5, <2>6
    <2>7. CASE j = k
      BY <2>2, <2>3, <2>4, <2>5, <2>7
    <2>8. CASE j > k
      BY <2>2, <2>3, <2>4, <2>5, <2>8
    <2>9. QED
      BY <2>6, <2>7, <2>8
  <1>4. \A i \in Nat : i \in P
    <2> HIDE DEF P
    <2> QED
      BY <1>2, <1>3, InductionOnNat
  <1>5. QED
    BY <1>4

\* The sum of f over a set.
SetSum(f, S) ==
    LET iter[s \in SUBSET S] ==
          IF s = {} THEN 0 ELSE LET x == CHOOSE x \in s : TRUE IN f[x] + iter[s \ {x}]
    IN  iter[S]

\* Its recursion, as a condition on a function.
Sums(f, S, h) == h = [s \in SUBSET S |->
                        IF s = {} THEN 0 ELSE LET x == CHOOSE x \in s : TRUE IN f[x] + h[s \ {x}]]

\* e lists the n elements of S, each once.
Enumerates(e, n, S) ==
    /\ e \in [1..n -> S]
    /\ \A x \in S : \E i \in 1..n : e[i] = x
    /\ \A i, j \in 1..n : e[i] = e[j] => i = j

\* A finite set is summed like the sequence of its elements, in any order.
LEMMA SetSumEnumerates ==
    ASSUME NEW S, NEW f, \A x \in S : f[x] \in Nat, NEW n \in Nat, NEW e, Enumerates(e, n, S)
    PROVE  SetSum(f, S) = SumTo([i \in 1..n |-> f[e[i]]], n)
  <1> USE DEF Enumerates
  <1> DEFINE q(s) == [i \in 1..n |-> IF e[i] \in s THEN f[e[i]] ELSE 0]
             g == [s \in SUBSET S |-> SumTo(q(s), n)]
             iter == CHOOSE h : Sums(f, S, h)
  <1>1. ASSUME NEW s \in SUBSET S PROVE \A i \in 1..n : q(s)[i] \in Nat
    OBVIOUS
  <1>2. ASSUME NEW s \in SUBSET S, NEW x \in s PROVE g[s] = g[s \ {x}] + f[x]
    <2>1. PICK k \in 1..n : e[k] = x
      OBVIOUS
    <2>2. \E a, b : a = q(s) /\ b = q(s \ {x})
      OBVIOUS
    <2>9. PICK a, b : a = q(s) /\ b = q(s \ {x})
      BY <2>2
    <2>10. PICK v \in Nat : v = f[x]
      OBVIOUS
    <2>3. \A i \in 1..n : a[i] \in Nat /\ b[i] \in Nat
      BY <2>9
    <2>4. \A i \in 1..n : i # k => b[i] = a[i]
      BY <2>1, <2>9
    <2>5. a[k] = v /\ b[k] = 0
      BY <2>1, <2>9, <2>10
    <2>6. SumTo(a, n) = SumTo(b, n) + v
      BY <2>3, <2>4, <2>5, SumToWithout
    <2>7. s \ {x} \in SUBSET S
      OBVIOUS
    <2>8. QED
      BY <2>6, <2>7, <2>9, <2>10
  <1>3. ASSUME NEW i \in 0..n PROVE SumTo(q({}), i) = 0
    <2> DEFINE P == {m \in Nat : m <= n => SumTo(q({}), m) = 0}
    <2>1. /\ SumTo(q({}), 0) = 0
          /\ \A m \in 1..n : SumTo(q({}), m) = SumTo(q({}), m - 1) + q({})[m]
      BY <1>1, SumToStep
    <2>2. 0 \in P
      BY <2>1
    <2>3. ASSUME NEW m \in Nat, m \in P PROVE m + 1 \in P
      <3>1. SUFFICES ASSUME m + 1 <= n PROVE SumTo(q({}), m + 1) = 0
        OBVIOUS
      <3>2. PICK j \in 1..n : j = m + 1 /\ j - 1 = m
        BY <3>1
      <3>3. q({})[j] = 0
        OBVIOUS
      <3> HIDE DEF q
      <3>4. QED
        BY <2>1, <2>3, <3>1, <3>2, <3>3
    <2>4. \A m \in Nat : m \in P
      <3> HIDE DEF P
      <3> QED
        BY <2>2, <2>3, InductionOnNat
    <2>5. QED
      BY <2>4
  <1>4. g[{}] = 0
    BY <1>3
  <1>5. g[S] = SumTo([i \in 1..n |-> f[e[i]]], n)
    <2>1. q(S) = [i \in 1..n |-> f[e[i]]]
      OBVIOUS
    <2>2. g[S] = SumTo(q(S), n)
      OBVIOUS
    <2>3. QED
      BY <2>1, <2>2
  <1>6. \A s \in SUBSET S : g[s] \in Nat
    <2>1. ASSUME NEW s \in SUBSET S PROVE SumTo(q(s), n) \in Nat
      <3>1. n \in 0..n
        OBVIOUS
      <3> HIDE DEF q
      <3>2. QED
        BY <1>1, <3>1, SumToStep
    <2>2. QED
      BY <2>1
  <1> HIDE DEF g, q
  <1>7. g = [s \in SUBSET S |-> IF s = {} THEN 0
                                ELSE LET x == CHOOSE x \in s : TRUE IN f[x] + g[s \ {x}]]
    <2>1. ASSUME NEW s \in SUBSET S
          PROVE  g[s] = IF s = {} THEN 0 ELSE LET x == CHOOSE x \in s : TRUE
                                              IN f[x] + g[s \ {x}]
      <3>1. CASE s = {}
        BY <1>4, <3>1
      <3>2. CASE s # {}
        <4>1. PICK x \in s : x = CHOOSE y \in s : TRUE
          BY <3>2
        <4>2. g[s] = g[s \ {x}] + f[x] /\ f[x] \in Nat /\ g[s \ {x}] \in Nat
          BY <1>2, <1>6
        <4>3. QED
          BY <3>2, <4>1, <4>2
      <3>3. QED
        BY <3>1, <3>2
    <2>2. DOMAIN g = SUBSET S /\ g = [s \in DOMAIN g |-> g[s]]
      BY DEF g
    <2>3. QED
      BY <2>1, <2>2
  <1>8. iter = [s \in SUBSET S |-> IF s = {} THEN 0
                                   ELSE LET x == CHOOSE x \in s : TRUE IN f[x] + iter[s \ {x}]]
    <2> HIDE DEF iter
    <2>1. Sums(f, S, g)
      BY <1>7 DEF Sums
    <2>2. Sums(f, S, iter)
      BY <2>1 DEF iter
    <2>3. QED
      BY <2>2 DEF Sums
  <1>9. SetSum(f, S) = iter[S]
    BY DEF SetSum, Sums
  <1> HIDE DEF iter
  <1>10. IsFiniteSet(S)
    <2>1. e \in Surjection(1..n, S)
      BY DEF Surjection
    <2>2. IsFiniteSet(1..n)
      BY FS_Interval
    <2>3. QED
      BY <2>1, <2>2, FS_Surjection
  <1> DEFINE P == {m \in Nat : \A s \in SUBSET S : Cardinality(s) = m => iter[s] = g[s]}
  <1>11. 0 \in P
    <2>1. ASSUME NEW s \in SUBSET S, Cardinality(s) = 0 PROVE iter[s] = g[s]
      <3>1. s = {}
        BY <1>10, <2>1, FS_Subset, FS_EmptySet
      <3>2. QED
        BY <1>4, <1>8, <3>1
    <2>2. QED
      BY <2>1
  <1>12. ASSUME NEW m \in Nat, m \in P PROVE m + 1 \in P
    <2>1. ASSUME NEW s \in SUBSET S, Cardinality(s) = m + 1 PROVE iter[s] = g[s]
      <3>1. IsFiniteSet(s) /\ s # {}
        BY <1>10, <2>1, FS_Subset, FS_EmptySet
      <3>2. PICK x \in s : x = CHOOSE y \in s : TRUE
        BY <3>1
      <3>3. Cardinality(s \ {x}) = m
        <4>1. Cardinality(s \ {x}) = Cardinality(s) - 1
          BY <3>1, FS_RemoveElement
        <4>2. QED
          BY <2>1, <4>1
      <3>4. iter[s \ {x}] = g[s \ {x}]
        BY <1>12, <3>3
      <3>5. iter[s] = f[x] + iter[s \ {x}]
        <4>1. iter[s] = IF s = {} THEN 0 ELSE f[CHOOSE y \in s : TRUE] + iter[s \ {CHOOSE y \in s : TRUE}]
          BY <1>8, Zenon
        <4>2. QED
          BY <3>1, <3>2, <4>1
      <3>6. g[s] = f[x] + g[s \ {x}]
        <4>1. g[s] = IF s = {} THEN 0 ELSE f[CHOOSE y \in s : TRUE] + g[s \ {CHOOSE y \in s : TRUE}]
          BY <1>7, Zenon
        <4>2. QED
          BY <3>1, <3>2, <4>1
      <3>7. QED
        BY <3>4, <3>5, <3>6
    <2>2. QED
      BY <2>1
  <1>13. \A m \in Nat : m \in P
    <2> HIDE DEF P
    <2> QED
      BY <1>11, <1>12, InductionOnNat
  <1>14. iter[S] = g[S]
    <2>1. Cardinality(S) \in Nat
      BY <1>10, FS_CardinalityType
    <2>2. QED
      BY <1>13, <2>1
  <1>15. QED
    BY <1>5, <1>9, <1>14

\* A finite set's elements can be counted off.
LEMMA Enumeration ==
    ASSUME NEW S, IsFiniteSet(S)
    PROVE  \E n \in Nat : \E e : Enumerates(e, n, S)
  <1>1. Cardinality(S) \in Nat /\ ExistsBijection(1..Cardinality(S), S)
    BY FS_CardinalityType
  <1>2. PICK n \in Nat : n = Cardinality(S)
    BY <1>1
  <1>3. PICK e : e \in Bijection(1..n, S)
    BY <1>1, <1>2 DEF ExistsBijection
  <1>4. /\ e \in [1..n -> S]
        /\ \A x \in S : \E i \in 1..n : e[i] = x
        /\ \A i, j \in 1..n : e[i] = e[j] => i = j
    <2>1. e \in [1..n -> S]
      BY <1>3 DEF Bijection, Injection
    <2>2. \A x \in S : \E i \in 1..n : e[i] = x
      BY <1>3 DEF Bijection, Surjection
    <2>3. \A i, j \in 1..n : e[i] = e[j] => i = j
      BY <1>3 DEF Bijection, Injection, IsInjective
    <2>4. QED
      BY <2>1, <2>2, <2>3
  <1>5. Enumerates(e, n, S)
    BY <1>4 DEF Enumerates
  <1>6. QED
    BY <1>5

\* Functions to the naturals that differ at most at x, where f is w and g is v.
DifferAt(S, f, g, x, w, v) ==
    /\ \A y \in S : f[y] \in Nat
    /\ \A y \in S : g[y] \in Nat
    /\ \A y \in S : y # x => g[y] = f[y]
    /\ f[x] = w /\ g[x] = v

\* A sum over a finite set is a number, and follows a change of one summand.
LEMMA SetSumChange ==
    ASSUME NEW S, IsFiniteSet(S), NEW f, NEW g, NEW x \in S, NEW w \in Nat, NEW v \in Nat,
           DifferAt(S, f, g, x, w, v)
    PROVE  /\ SetSum(f, S) \in Nat
           /\ SetSum(g, S) \in Nat
           /\ SetSum(g, S) + w = SetSum(f, S) + v
  <1>1. /\ \A y \in S : f[y] \in Nat
         /\ f[x] = w
    BY DEF DifferAt
  <1>2. /\ \A y \in S : g[y] \in Nat
         /\ g[x] = v
    BY DEF DifferAt
  <1>3. \A y \in S : y # x => g[y] = f[y]
    BY DEF DifferAt
  <1>4. PICK n \in Nat : \E e : Enumerates(e, n, S)
    BY ONLY IsFiniteSet(S), Enumeration
  <1>5. PICK e : Enumerates(e, n, S)
    BY <1>4
  <1> DEFINE a == [i \in 1..n |-> f[e[i]]]
             b == [i \in 1..n |-> g[e[i]]]
             c == [i \in 1..n |-> IF e[i] = x THEN 0 ELSE f[e[i]]]
  <1>6. PICK k \in 1..n : e[k] = x
    BY <1>5 DEF Enumerates
  <1>7. /\ \A i \in 1..n : a[i] \in Nat /\ c[i] \in Nat
        /\ \A i \in 1..n : b[i] \in Nat /\ c[i] \in Nat
    BY <1>1, <1>2, <1>5 DEF Enumerates
  <1>8. \A i \in 1..n : i # k => c[i] = a[i]
    BY <1>5, <1>6 DEF Enumerates
  <1>9. \A i \in 1..n : i # k => c[i] = b[i]
    BY <1>5, <1>6, <1>3 DEF Enumerates
  <1>10. a[k] = w
    BY <1>6, <1>1
  <1>11. b[k] = v
    BY <1>6, <1>2
  <1>12. c[k] = 0
    BY <1>6
  <1>13. SetSum(f, S) = SumTo(a, n)
    BY ONLY <1>5, <1>1, n \in Nat, SetSumEnumerates
  <1>14. SetSum(g, S) = SumTo(b, n)
    BY ONLY <1>5, <1>2, n \in Nat, SetSumEnumerates
  <1> HIDE DEF a, b, c
  <1>15. SumTo(a, n) = SumTo(c, n) + w
    BY <1>7, <1>8, <1>10, <1>12, SumToWithout
  <1>16. SumTo(b, n) = SumTo(c, n) + v
    BY <1>7, <1>9, <1>11, <1>12, SumToWithout
  <1>17. SumTo(c, n) \in Nat
    <2>1. n \in 0..n
      OBVIOUS
    <2>2. QED
      BY <1>7, <2>1, SumToStep
  <1>18. QED
    BY <1>13, <1>14, <1>15, <1>16, <1>17

\* A sum of naturals is a natural.
LEMMA SetSumIsNat ==
    ASSUME NEW S, IsFiniteSet(S), NEW f, \A x \in S : f[x] \in Nat
    PROVE  SetSum(f, S) \in Nat
  <1>1. PICK n \in Nat : \E e : Enumerates(e, n, S)
    BY ONLY IsFiniteSet(S), Enumeration
  <1>2. PICK e : Enumerates(e, n, S)
    BY <1>1
  <1> DEFINE a == [i \in 1..n |-> f[e[i]]]
  <1>3. \A i \in 1..n : a[i] \in Nat
    BY <1>2 DEF Enumerates
  <1>4. SetSum(f, S) = SumTo(a, n)
    BY ONLY <1>2, n \in Nat, \A x \in S : f[x] \in Nat, SetSumEnumerates
  <1>5. n \in 0..n
    OBVIOUS
  <1> HIDE DEF a
  <1>6. SumTo(a, n) \in Nat
    BY ONLY <1>3, <1>5, n \in Nat, SumToStep
  <1>7. QED
    BY <1>4, <1>6

\* A sum of nothing.
LEMMA SetSumZero ==
    ASSUME NEW S, IsFiniteSet(S)
    PROVE  SetSum([x \in S |-> 0], S) = 0
  <1>0. PICK f : f = [x \in S |-> 0]
    OBVIOUS
  <1>1. PICK n \in Nat : \E e : Enumerates(e, n, S)
    BY ONLY IsFiniteSet(S), Enumeration
  <1>2. PICK e : Enumerates(e, n, S)
    BY <1>1
  <1> DEFINE a == [i \in 1..n |-> f[e[i]]]
  <1>3. \A y \in S : f[y] \in Nat /\ f[y] = 0
    BY <1>0
  <1>4. \A y \in S : f[y] \in Nat
    BY <1>3
  <1>5. \A i \in 1..n : a[i] = 0 /\ a[i] \in Nat
    BY <1>2, <1>3 DEF Enumerates
  <1>6. SetSum(f, S) = SumTo(a, n)
    BY ONLY <1>2, n \in Nat, <1>4, SetSumEnumerates
  <1> HIDE DEF a
  <1>7. /\ SumTo(a, 0) = 0
        /\ \A i \in 1..n : SumTo(a, i) = SumTo(a, i - 1) + a[i]
    BY ONLY <1>5, n \in Nat, SumToStep
  <1> DEFINE P == {i \in Nat : i <= n => SumTo(a, i) = 0}
  <1>8. 0 \in P
    BY <1>7
  <1>9. ASSUME NEW i \in Nat, i \in P PROVE i + 1 \in P
    <2>1. SUFFICES ASSUME i + 1 <= n PROVE SumTo(a, i + 1) = 0
      OBVIOUS
    <2>2. PICK j \in 1..n : j = i + 1 /\ j - 1 = i
      BY <2>1
    <2>3. QED
      BY <1>5, <1>7, <1>9, <2>1, <2>2
  <1>10. \A i \in Nat : i \in P
    <2> HIDE DEF P
    <2> QED
      BY <1>8, <1>9, InductionOnNat
  <1>11. SumTo(a, n) = 0
    BY <1>10
  <1>12. QED
    BY ONLY <1>0, <1>6, <1>11

\* It is the sum that the community modules fold.
LEMMA SetSumMap ==
    ASSUME NEW S, NEW f
    PROVE SetSum(f, S) = MapThenSumSet(LAMBDA x : f[x], S)
    BY DEF SetSum, MapThenSumSet, MapThenFoldSet

\* Induction from all smaller numbers.
LEMMA StrongInduction ==
    ASSUME NEW P, \A n \in Nat : (\A m \in Nat : m < n => m \in P) => n \in P
    PROVE  \A n \in Nat : n \in P
  <1>1. SUFFICES ASSUME Nat \ P # {} PROVE FALSE
    OBVIOUS
  <1>2. PICK n \in Nat \ P : \A m \in Nat \ P : n <= m
    BY <1>1, LeastNatural
  <1>3. \A m \in Nat : m < n => m \in P
    BY <1>2
  <1>4. QED
    BY <1>2, <1>3

\* F makes a function on D from another, and a value of it depends on values of
\* lower rank only, the rank being below n.
Ranked(D, S, F, rank, n) ==
    /\ F \in [[D -> S] -> [D -> S]]
    /\ rank \in [D -> Nat] /\ n \in Nat /\ \A x \in D : rank[x] < n
    /\ \A g, h \in [D -> S] : \A x \in D :
          (\A y \in D : rank[y] < rank[x] => g[y] = h[y]) => F[g][x] = F[h][x]

\* Such a recursion has a solution: applied to any function as often as there
\* are ranks, it settles.
LEMMA CourseOfValues ==
    ASSUME NEW D, NEW S, NEW F, NEW rank, NEW n, Ranked(D, S, F, rank, n), NEW v0 \in S
    PROVE  \E g \in [D -> S] : F[g] = g
  <1> USE DEF Ranked
  <1>0. PICK g0 \in [D -> S] : g0 = [x \in D |-> v0]
    OBVIOUS
  <1> DEFINE T == [D -> S]
             step == [p \in T \X (Nat \ {0}) |-> F[p[1]]]
  <1>1. PICK v \in [Nat -> T] : Solves(v, g0, step)
    <2>1. step \in [T \X (Nat \ {0}) -> T] /\ g0 \in T
      OBVIOUS
    <2> HIDE DEF step, T
    <2>2. QED
      BY <2>1, Recursion
  <1>2. \A k \in Nat : v[k + 1] = F[v[k]]
    <2>1. \A k \in Nat : k + 1 \in Nat \ {0} /\ (k + 1) - 1 = k
      OBVIOUS
    <2>2. \A k \in Nat \ {0} : v[k] = step[<<v[k - 1], k>>]
      BY <1>1 DEF Solves
    <2>3. ASSUME NEW k \in Nat PROVE v[k + 1] = F[v[k]]
      <3>1. v[k + 1] = step[<<v[k], k + 1>>]
        BY <2>1, <2>2
      <3>2. <<v[k], k + 1>> \in T \X (Nat \ {0})
        BY <2>1
      <3>3. QED
        BY <3>1, <3>2
    <2>4. QED
      BY <2>3
  <1>3. \A k \in Nat : v[k] \in [D -> S]
    OBVIOUS
  <1> DEFINE P == {k \in Nat : \A x \in D : rank[x] < k => F[v[k]][x] = v[k][x]}
  <1>4. 0 \in P
    OBVIOUS
  <1>5. ASSUME NEW k \in Nat, k \in P PROVE k + 1 \in P
    <2>1. SUFFICES ASSUME NEW x \in D, rank[x] < k + 1
                   PROVE  F[v[k + 1]][x] = v[k + 1][x]
      OBVIOUS
    <2>2. ASSUME NEW y \in D, rank[y] < rank[x] PROVE v[k + 1][y] = v[k][y]
      <3>1. rank[y] < k
        <4>1. rank[y] \in Nat /\ rank[x] \in Nat
          OBVIOUS
        <4>2. QED
          BY <4>1, <2>1, <2>2
      <3>2. F[v[k]][y] = v[k][y]
        BY <3>1, <1>5
      <3>3. QED
        BY <3>2, <1>2
    <2>3. v[k + 1] \in [D -> S] /\ v[k] \in [D -> S]
      BY <1>3
    <2>4. F[v[k + 1]][x] = F[v[k]][x]
      BY <2>2, <2>3
    <2>5. QED
      BY <2>4, <1>2
  <1>6. n \in P
    <2> HIDE DEF P
    <2> QED
      BY <1>4, <1>5, InductionOnNat
  <1>7. v[n] \in [D -> S] /\ F[v[n]] \in [D -> S] /\ \A x \in D : F[v[n]][x] = v[n][x]
    BY <1>3, <1>6
  <1>8. QED
    BY <1>7

\* An order of 1..n that never goes down and leaves nothing out is 1, ..., n.
LEMMA RisingOnto ==
    ASSUME NEW n \in Nat, NEW p \in [1..n -> 1..n],
           \A i \in 1..n : \E j \in 1..n : p[j] = i,
           \A i, j \in 1..n : i < j => p[i] <= p[j]
    PROVE  \A i \in 1..n : p[i] = i
  <1>1. ASSUME NEW i \in 1..n, NEW j \in 1..n, j = i + 1 PROVE p[j] <= p[i] + 1
    <2>1. SUFFICES ASSUME p[j] > p[i] + 1 PROVE FALSE
      OBVIOUS
    <2>2. PICK a \in 1..n, b \in 1..n : a = p[i] /\ b = p[j]
      OBVIOUS
    <2>9. a + 1 < b
      BY <2>1, <2>2
    <2>3. PICK k \in 1..n : p[k] = a + 1
      <3>1. a + 1 \in 1..n
        BY ONLY <2>9, n \in Nat, a \in 1..n, b \in 1..n
      <3>2. QED
        BY <3>1
    <2>4. CASE k < i
      <3>1. p[k] <= p[i]
        BY <2>4
      <3>2. QED
        BY <3>1, <2>2, <2>3, <2>9
    <2>5. CASE j < k
      <3>1. p[j] <= p[k]
        BY <2>5
      <3>2. QED
        BY <3>1, <2>2, <2>3, <2>9
    <2>6. CASE k = i \/ k = j
      <3>1. a = a + 1 \/ b = a + 1
        BY <2>2, <2>3, <2>6
      <3>2. QED
        BY ONLY <3>1, <2>9, a \in 1..n, b \in 1..n
    <2>7. k < i \/ k = i \/ k = j \/ j < k
      BY <1>1
    <2>8. QED
      BY <2>4, <2>5, <2>6, <2>7
  <1> DEFINE P == {i \in Nat : i \in 1..n => p[i] <= i}
             Q == {d \in Nat : \A i \in 1..n : i = n - d => p[i] >= i}
  <1>2. 0 \in P
    OBVIOUS
  <1>3. ASSUME NEW i \in Nat, i \in P PROVE i + 1 \in P
    <2>1. SUFFICES ASSUME i + 1 \in 1..n PROVE p[i + 1] <= i + 1
      OBVIOUS
    <2>2. CASE i = 0
      <3>1. PICK k \in 1..n : p[k] = 1
        BY <2>1, <2>2
      <3>2. k = 1 \/ 1 < k
        OBVIOUS
      <3>3. QED
        BY <2>1, <2>2, <3>1, <3>2
    <2>3. CASE i # 0
      <3>1. i \in 1..n
        BY <2>1, <2>3
      <3>2. PICK j \in 1..n : j = i + 1
        BY <2>1
      <3>3. p[j] <= p[i] + 1 /\ p[i] <= i
        BY <3>1, <3>2, <1>1, <1>3
      <3>4. PICK a \in 1..n, b \in 1..n : a = p[i] /\ b = p[j]
        BY <3>1
      <3>5. b <= i + 1
        <4>1. b <= a + 1 /\ a <= i
          BY <3>3, <3>4
        <4>2. QED
          BY ONLY <4>1, i \in Nat, a \in 1..n, b \in 1..n
      <3>6. QED
        BY <3>2, <3>4, <3>5
    <2>4. QED
      BY <2>2, <2>3
  <1>4. 0 \in Q
    <2>1. SUFFICES ASSUME NEW i \in 1..n, i = n PROVE p[i] >= i
      OBVIOUS
    <2>2. PICK k \in 1..n : p[k] = n
      BY <2>1
    <2>3. k = n \/ k < n
      OBVIOUS
    <2>4. QED
      BY <2>1, <2>2, <2>3
  <1>5. ASSUME NEW d \in Nat, d \in Q PROVE d + 1 \in Q
    <2>1. SUFFICES ASSUME NEW i \in 1..n, i = n - (d + 1) PROVE p[i] >= i
      OBVIOUS
    <2>2. PICK j \in 1..n : j = i + 1 /\ j = n - d
      <3>1. i + 1 \in 1..n /\ i + 1 = n - d
        BY <2>1
      <3>2. QED
        BY <3>1
    <2>3. p[j] >= j /\ p[j] <= p[i] + 1
      BY <2>2, <1>1, <1>5
    <2>4. p[i] \in 1..n /\ p[j] \in 1..n
      OBVIOUS
    <2>5. QED
      BY <2>2, <2>3, <2>4
  <1>6. (\A i \in Nat : i \in P) /\ (\A d \in Nat : d \in Q)
    <2> HIDE DEF P, Q
    <2> QED
      BY <1>2, <1>3, <1>4, <1>5, InductionOnNat
  <1>7. ASSUME NEW i \in 1..n PROVE p[i] = i
    <2>1. i \in P /\ i \in Nat
      BY <1>6
    <2>2. PICK d \in Nat : i = n - d
      <3>1. n - i \in Nat /\ i = n - (n - i)
        OBVIOUS
      <3>2. QED
        BY <3>1
    <2>3. d \in Q
      BY <1>6
    <2>4. p[i] <= i /\ p[i] >= i /\ p[i] \in Int
      BY <2>1, <2>2, <2>3
    <2>5. QED
      BY <2>4
  <1>8. QED
    BY <1>7
=============================================================================
