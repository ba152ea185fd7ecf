---------------------------- MODULE NumberLemmas ----------------------------
(***************************************************************************)
(* Facts about natural numbers that the proofs of several modules use:     *)
(* induction, least elements, powers of two, and division.                 *)
(***************************************************************************)
EXTENDS Integers, FiniteSets, FiniteSetTheorems, TLAPS

\* Induction, for a set of numbers: were k the first that is missing, the
\* numbers up to k that are missing would be as many without k.
LEMMA SetInduction ==
    ASSUME NEW S, 0 \in S, \A n \in Nat : n \in S => n + 1 \in S
    PROVE  Nat \subseteq S
<1>1. SUFFICES ASSUME NEW k \in Nat, k \notin S PROVE FALSE
  OBVIOUS
<1>. DEFINE U == (0 .. k) \ S
            f == [m \in U |-> m - 1]
<1>2. IsFiniteSet(U)
  <2>1. IsFiniteSet(0 .. k) /\ U \in SUBSET (0 .. k)
    BY FS_Interval
  <2>. HIDE DEF U
  <2>. QED BY <2>1, FS_Subset
<1>3. k \in U
  BY <1>1
<1>4. \A m \in U : m - 1 \in U \ {k}
  <2>1. SUFFICES ASSUME NEW m \in U PROVE m - 1 \in U \ {k}
    OBVIOUS
  <2>2. m # 0 /\ m \in Nat
    OBVIOUS
  <2>3. m - 1 \in Nat /\ (m - 1) + 1 = m
    BY <2>2
  <2>4. m - 1 \notin S
    BY <2>3
  <2>. QED BY <2>1, <2>3, <2>4
<1>5. f \in [U -> U \ {k}]
  BY <1>4
<1>6. IsFiniteSet(U \ {k}) /\ Cardinality(U \ {k}) < Cardinality(U)
  <2>. HIDE DEF U
  <2>1. Cardinality(U) \in Nat
    BY <1>2, FS_CardinalityType
  <2>2. IsFiniteSet(U \ {k}) /\ Cardinality(U \ {k}) = Cardinality(U) - 1
    BY <1>2, <1>3, FS_RemoveElement
  <2>. QED BY <2>1, <2>2
<1>7. PICK x, y \in U : x # y /\ f[x] = f[y]
  <2>. HIDE DEF U, f
  <2>. QED BY <1>2, <1>5, <1>6, FS_PigeonHole
<1>. QED BY <1>7

LEMMA LeastExists ==
    ASSUME NEW S \in SUBSET Nat, S # {}
    PROVE  \E i \in S : \A j \in S : i <= j
<1>. DEFINE T == {n \in Nat : \A m \in S : n <= m}
<1>2. SUFFICES ASSUME \A i \in S : \E j \in S : ~(i <= j) PROVE FALSE
  OBVIOUS
<1>3. 0 \in T
  OBVIOUS
<1>4. ASSUME NEW n \in Nat, n \in T PROVE n + 1 \in T
  <2>1. n \notin S
    BY <1>2, <1>4
  <2>2. \A m \in S : n <= m /\ m \in Nat /\ m # n
    BY <1>4, <2>1
  <2>3. \A m \in S : n + 1 <= m
    BY <2>2
  <2>. QED BY <2>3
<1>5. Nat \subseteq T
  <2>. HIDE DEF T
  <2>. QED BY <1>3, <1>4, SetInduction
<1>6. PICK s : s \in S
  OBVIOUS
<1>. QED BY <1>2, <1>5, <1>6

\* A function that is defined by recursion up to a number satisfies its
\* definition, here that of the powers of two.
LEMMA PowersDefined ==
    ASSUME NEW id \in Nat
    PROVE  \E f : f = [k \in 0 .. id |-> IF k = 0 THEN 1 ELSE 2 * f[k - 1]]
<1>. DEFINE Exists(n) ==
                \E f : f = [k \in 0 .. n |-> IF k = 0 THEN 1 ELSE 2 * f[k - 1]]
            S == {n \in Nat : Exists(n)}
<1>1. Exists(0)
  <2>. DEFINE f == [k \in 0 .. 0 |-> 1]
  <2>1. f = [k \in 0 .. 0 |-> IF k = 0 THEN 1 ELSE 2 * f[k - 1]]
    OBVIOUS
  <2>. HIDE DEF f
  <2>. QED BY <2>1
<1>2. ASSUME NEW n \in Nat, Exists(n) PROVE Exists(n + 1)
  <2>1. PICK f : f = [k \in 0 .. n |-> IF k = 0 THEN 1 ELSE 2 * f[k - 1]]
    BY <1>2
  <2>. DEFINE g == [k \in 0 .. n + 1 |-> IF k = n + 1 THEN 2 * f[n] ELSE f[k]]
  <2>2. \A k \in 0 .. n : g[k] = f[k]
    OBVIOUS
  <2>3. ASSUME NEW k \in 0 .. n + 1
        PROVE  g[k] = IF k = 0 THEN 1 ELSE 2 * g[k - 1]
    <3>1. CASE k = n + 1
      <4>1. g[k - 1] = f[n] /\ k # 0
        BY <2>2, <3>1
      <4>. QED BY <3>1, <4>1
    <3>2. CASE k \in 0 .. n
      <4>1. g[k] = f[k] /\ (k # 0 => g[k - 1] = f[k - 1])
        BY <2>2, <3>2
      <4>2. f[k] = IF k = 0 THEN 1 ELSE 2 * f[k - 1]
        BY <2>1, <3>2
      <4>. QED BY <4>1, <4>2
    <3>. QED BY <3>1, <3>2
  <2>4. g = [k \in 0 .. n + 1 |-> IF k = 0 THEN 1 ELSE 2 * g[k - 1]]
    BY <2>3
  <2>. HIDE DEF g
  <2>. QED BY <2>4, Zenon
<1>. HIDE DEF Exists
<1>3. 0 \in S /\ \A n \in Nat : n \in S => n + 1 \in S
  BY <1>1, <1>2
<1>4. id \in S
  <2>. HIDE DEF S
  <2>. QED BY <1>3, SetInduction
<1>. QED BY <1>4 DEF Exists


\* Division leaves a quotient and a remainder, and no others fit.
LEMMA Division ==
    ASSUME NEW a \in Nat, NEW b \in Nat \ {0}
    PROVE  a \div b \in Nat /\ a % b \in 0 .. b - 1 /\ a = b * (a \div b) + (a % b)
OBVIOUS

LEMMA Quotient ==
    ASSUME NEW b \in Nat \ {0}, NEW q \in Nat, NEW r \in 0 .. b - 1
    PROVE  (b * q + r) \div b = q
<1>. DEFINE a == b * q + r
            k == a \div b
            s == a % b
<1>1. \A x, y \in Nat : x < y => b * x + b <= b * y
  <2>1. SUFFICES ASSUME NEW x \in Nat, NEW y \in Nat, x < y
                 PROVE  b * x + b <= b * y
    OBVIOUS
  <2>2. PICK d \in Nat : y = x + 1 + d
    <3>1. y - x - 1 \in Nat /\ y = x + 1 + (y - x - 1)
      BY <2>1
    <3>. QED BY <3>1
  <2>3. b * y = b * x + b + b * d /\ b * d \in Nat /\ b * x \in Nat
    BY <2>2
  <2>. QED BY <2>3
<1>2. a \in Nat /\ b * q \in Nat
  OBVIOUS
<1>. HIDE DEF a
<1>3. k \in Nat /\ s \in 0 .. b - 1 /\ a = b * k + s
  BY <1>2, Division
<1>. HIDE DEF k, s
<1>4. b * k + s = b * q + r /\ b * k \in Nat
  BY <1>3 DEF a
<1>5. ~(k < q) /\ ~(q < k)
  BY <1>1, <1>2, <1>3, <1>4
<1>. QED BY <1>3, <1>5 DEF a, k

LEMMA Parity ==
    ASSUME NEW a \in Nat
    PROVE  a % 2 \in {0, 1} /\ (a % 2 = 1 <=> \E k \in Nat : a = 2 * k + 1)
OBVIOUS
\* An even multiple of b that is added to a number leaves the parity of its
\* quotient by b; b that is taken from one whose quotient is odd makes that
\* even, and leaves the quotients by even multiples of b.
LEMMA EvenAdded ==
    ASSUME NEW n \in Nat, NEW b \in Nat \ {0}, NEW c \in Nat
    PROVE  (n + b * (2 * c)) \div b = (n \div b) + 2 * c
<1>1. PICK q \in Nat, r \in 0 .. b - 1 : q = n \div b /\ n = b * q + r
  BY Division
<1>2. n + b * (2 * c) = b * (q + 2 * c) + r /\ q + 2 * c \in Nat
  <2>1. b * (q + 2 * c) = b * q + b * (2 * c)
    OBVIOUS
  <2>2. b * q \in Nat /\ b * (2 * c) \in Nat /\ n = b * q + r
    BY <1>1
  <2>. QED BY <2>1, <2>2
<1>3. (b * (q + 2 * c) + r) \div b = q + 2 * c
  BY <1>2, Quotient
<1>. QED BY <1>1, <1>2, <1>3

LEMMA OddTaken ==
    ASSUME NEW m \in Nat, NEW b \in Nat \ {0}, (m \div b) % 2 = 1
    PROVE  /\ m - b \in Nat
           /\ ((m - b) \div b) % 2 = 0
           /\ \A c \in Nat \ {0} : (m - b) \div (b * (2 * c)) = m \div (b * (2 * c))
<1>1. PICK q \in Nat, r \in 0 .. b - 1 : q = m \div b /\ m = b * q + r
  BY Division
<1>2. PICK k \in Nat : q = 2 * k + 1
  BY <1>1, Parity
<1>3. b * q = b * (2 * k) + b /\ b * (2 * k) \in Nat
  BY <1>2
<1>4. m - b = b * (2 * k) + r /\ m - b \in Nat
  BY <1>1, <1>3
<1>5. (b * (2 * k) + r) \div b = 2 * k
  BY <1>2, Quotient
<1>6. (2 * k) % 2 = 0
  OBVIOUS
<1>7. ASSUME NEW c \in Nat \ {0}
      PROVE  (m - b) \div (b * (2 * c)) = m \div (b * (2 * c))
  <2>. DEFINE B == b * (2 * c)
  <2>1. B \in Nat \ {0}
    OBVIOUS
  <2>. HIDE DEF B
  <2>2. PICK u \in Nat, s \in 0 .. B - 1 : u = m \div B /\ m = B * u + s
    BY <2>1, Division
  <2>3. PICK t \in Nat, x \in 0 .. b - 1 : s = b * t + x
    <3>1. s \in Nat
      BY <2>1
    <3>2. s \div b \in Nat /\ s % b \in 0 .. b - 1 /\ s = b * (s \div b) + (s % b)
      BY <3>1, Division, Zenon
    <3>. QED BY <3>2
  <2>4. B * u = b * (2 * (c * u)) /\ c * u \in Nat
    <3>1. (b * (2 * c)) * u = b * (2 * (c * u)) /\ c * u \in Nat
      OBVIOUS
    <3>. QED BY <3>1 DEF B
  <2>5. m = b * (2 * (c * u) + t) + x /\ 2 * (c * u) + t \in Nat
    BY <2>2, <2>3, <2>4
  <2>6. q = 2 * (c * u) + t
    BY <1>1, <2>5, Quotient
  <2>7. t # 0
    BY <1>2, <2>4, <2>6
  <2>8. t - 1 \in Nat /\ b * t = b * (t - 1) + b /\ b * (t - 1) \in Nat
    BY <2>7
  <2>9. s - b \in 0 .. B - 1 /\ m - b = B * u + (s - b)
    BY <2>1, <2>2, <2>3, <2>8
  <2>10. (B * u + (s - b)) \div B = u
    BY <2>1, <2>9, Quotient
  <2>. QED BY <2>2, <2>9, <2>10 DEF B
<1>. QED BY <1>4, <1>5, <1>6, <1>7
=============================================================================
