---------------------------- MODULE PipelineProofs ----------------------------
(***************************************************************************)
(* Integer arithmetic of the pipelined blocks, for words of any width:     *)
(* what wrapping, shifting, rounding and normalising compute, that a split *)
(* product is the whole one, that the requantizer's tree of partial sums   *)
(* is the product it is cut from, and that the endpoint's flat matrix is   *)
(* zlib's check value.  BlockBenchProofs puts the blocks on their bench.   *)
(***************************************************************************)
EXTENDS Pipelines, FiniteSetTheorems, WellFoundedInduction, TLAPS


\* A set of numbers that is not empty has a smallest one.
LEMMA SmallestNumber ==
  ASSUME NEW S, S \subseteq Nat, S # {}
  PROVE  \E n \in S : \A m \in S : n <= m
<1> DEFINE R == OpToRel(<, Nat)
<1>1. R = {p \in Nat \X Nat : p[1] < p[2]}
  BY DEF OpToRel
<1>2. IsWellFoundedOn(R, Nat)
  BY NatLessThanWellFounded
<1>3. \A m, n \in S : <<m, n>> \in R <=> m < n
  BY <1>1
<1> HIDE DEF R
<1>4. PICK n \in S : \A m \in S : ~(<<m, n>> \in R)
  BY <1>2, WFMin
<1>5. ASSUME NEW m \in S PROVE n <= m
  <2>1. ~(m < n) /\ m \in Nat /\ n \in Nat BY <1>3, <1>4
  <2> QED BY <2>1
<1> QED BY <1>5

-----------------------------------------------------------------------------
(* Powers of two.  The provers have no definition of ^, so its laws come   *)
(* from the number of subsets of 1..n.                                     *)

LEMMA PowerNat == \A n \in Nat : 2^n \in Nat
<1> SUFFICES ASSUME NEW n \in Nat PROVE 2^n \in Nat OBVIOUS
<1>1. IsFiniteSet(1..n) /\ Cardinality(1..n) = n
  BY FS_Interval
<1>2. Cardinality(SUBSET (1..n)) = 2^n /\ IsFiniteSet(SUBSET (1..n))
  BY <1>1, FS_SUBSET
<1> QED BY <1>2, FS_CardinalityType

\* The subsets of 1..n+1 are those of 1..n, without n+1 and with it.
LEMMA PowerStep == \A n \in Nat : 2^(n + 1) = 2 * 2^n
<1> SUFFICES ASSUME NEW n \in Nat PROVE 2^(n + 1) = 2 * 2^n OBVIOUS
<1> DEFINE A == SUBSET (1..n)
           B == {T \cup {n + 1} : T \in A}
           f == [T \in A |-> T \cup {n + 1}]
<1>1. IsFiniteSet(1..n) /\ Cardinality(1..n) = n /\ IsFiniteSet(1..(n + 1)) /\ Cardinality(1..(n + 1)) = n + 1
  BY FS_Interval
<1>2. Cardinality(A) = 2^n /\ IsFiniteSet(A)
  BY <1>1, FS_SUBSET
<1>3. Cardinality(SUBSET (1..(n + 1))) = 2^(n + 1)
  BY <1>1, FS_SUBSET
<1>4. SUBSET (1..(n + 1)) = A \cup B
  <2>1. ASSUME NEW T \in SUBSET (1..(n + 1)) PROVE T \in A \cup B
    <3>0. \A i \in T : i = n + 1 \/ i \in 1..n OBVIOUS
    <3>1. CASE n + 1 \in T
      <4>1. T \ {n + 1} \in A BY <3>0
      <4>2. T = (T \ {n + 1}) \cup {n + 1} BY <3>1
      <4> QED BY <4>1, <4>2
    <3>2. CASE n + 1 \notin T BY <3>0, <3>2
    <3> QED BY <3>1, <3>2
  <2>2. ASSUME NEW T \in A \cup B PROVE T \in SUBSET (1..(n + 1))
    <3>1. \A i \in 1..n : i \in 1..(n + 1) OBVIOUS
    <3>2. n + 1 \in 1..(n + 1) OBVIOUS
    <3> QED BY <3>1, <3>2
  <2> QED BY <2>1, <2>2
<1>5. A \cap B = {}
  OBVIOUS
<1>6. ExistsBijection(A, B)
  <2>1. f \in Surjection(A, B) BY DEF Surjection
  <2>2. ASSUME NEW T \in A, NEW U \in A, f[T] = f[U] PROVE T = U
    <3>1. n + 1 \notin T /\ n + 1 \notin U OBVIOUS
    <3>2. T \cup {n + 1} = U \cup {n + 1} BY <2>2
    <3> QED BY <3>1, <3>2
  <2>3. f \in Injection(A, B) BY <2>1, <2>2 DEF Injection, Surjection, IsInjective
  <2> QED BY <2>1, <2>3 DEF ExistsBijection, Bijection
<1>7. IsFiniteSet(B) /\ Cardinality(B) = Cardinality(A)
  BY <1>2, <1>6, FS_Bijection
<1>8. Cardinality(A \cup B) = Cardinality(A) + Cardinality(B) - Cardinality(A \cap B)
  BY <1>2, <1>7, FS_Union
<1>9. Cardinality(A \cap B) = 0 BY <1>5, FS_EmptySet
<1>10. Cardinality(A) \in Nat /\ Cardinality(B) \in Nat
  BY <1>2, <1>7, FS_CardinalityType
<1> HIDE DEF A, B
<1>11. Cardinality(A \cup B) = Cardinality(A) + Cardinality(B) BY <1>8, <1>9, <1>10
<1>12. 2^(n + 1) = Cardinality(A) + Cardinality(A) BY <1>3, <1>4, <1>7, <1>11
<1> QED BY <1>2, <1>10, <1>12

LEMMA PowerOne == \A n : (n = 0 => 2^n = 1) /\ (n = 1 => 2^n = 2)
<1>1. ASSUME NEW n, n = 0 PROVE 2^n = 1
  <2>1. IsFiniteSet({}) /\ Cardinality({}) = n BY <1>1, FS_EmptySet
  <2>2. Cardinality(SUBSET {}) = 2^n BY <2>1, FS_SUBSET
  <2>3. SUBSET {} = {{}} OBVIOUS
  <2> QED BY <2>2, <2>3, FS_Singleton
<1>2. ASSUME NEW n, n = 1 PROVE 2^n = 2
  <2> DEFINE m == n - 1
  <2>1. m \in Nat /\ m + 1 = n /\ m = 0 BY <1>2
  <2> HIDE DEF m
  <2>2. 2^m = 1 BY <2>1, <1>1
  <2>3. 2^(m + 1) = 2 * 2^m BY <2>1, PowerStep
  <2>4. 2^(m + 1) = 2 BY <2>2, <2>3
  <2>5. m + 1 = n BY <2>1
  <2> QED BY <2>4, <2>5
<1> QED BY <1>1, <1>2

LEMMA PowerPositive == \A n \in Nat : 2^n \in Nat \ {0}
<1>1. SUFFICES ASSUME NEW n \in Nat, 2^n = 0 PROVE FALSE BY PowerNat
<1> DEFINE S == {m \in Nat : 2^m = 0}
<1>2. PICK k \in S : \A m \in S : k <= m
  <2>1. S \in SUBSET Nat /\ S # {} BY <1>1
  <2> HIDE DEF S
  <2> QED BY <2>1, SmallestNumber
<1>3. k \in Nat /\ 2^k = 0 BY <1>2
<1>4. k # 0 BY <1>3, PowerOne
<1>5. k - 1 \in Nat /\ (k - 1) + 1 = k BY <1>3, <1>4
<1>6. 2^k = 2 * 2^(k - 1) BY <1>5, PowerStep
<1>7. 2^(k - 1) = 0 BY <1>3, <1>5, <1>6, PowerNat
<1>8. k - 1 \in S BY <1>5, <1>7
<1> QED BY <1>2, <1>5, <1>8

LEMMA PowerSum == \A m, n \in Nat : 2^(m + n) = 2^m * 2^n
<1>1. SUFFICES ASSUME NEW m \in Nat, NEW n \in Nat, 2^(m + n) # 2^m * 2^n PROVE FALSE OBVIOUS
<1> DEFINE S == {j \in Nat : 2^(m + j) # 2^m * 2^j}
<1>2. PICK k \in S : \A j \in S : k <= j
  <2>1. S \in SUBSET Nat /\ S # {} BY <1>1
  <2> HIDE DEF S
  <2> QED BY <2>1, SmallestNumber
<1>3. k \in Nat /\ 2^(m + k) # 2^m * 2^k BY <1>2
<1>4. k # 0 BY <1>3, PowerOne, PowerNat
<1> DEFINE j == k - 1
<1>5. j \in Nat /\ j + 1 = k /\ (m + j) + 1 = m + k /\ m + j \in Nat BY <1>3, <1>4
<1>6. j \notin S BY <1>2, <1>5
<1>7. 2^(m + j) = 2^m * 2^j BY <1>5, <1>6
<1> HIDE DEF S, j
<1>8. 2^k = 2 * 2^j /\ 2^(m + k) = 2 * 2^(m + j) BY <1>5, PowerStep
<1> DEFINE a == 2^m
           b == 2^j
<1>9. a \in Nat /\ b \in Nat BY <1>5, PowerNat
<1>10. 2^k = 2 * b /\ 2^(m + k) = 2 * (a * b) BY <1>7, <1>8
<1> HIDE DEF a, b
<1>11. 2 * (a * b) = a * (2 * b) BY <1>9
<1>12. 2^(m + k) = a * 2^k BY <1>10, <1>11
<1> QED BY <1>3, <1>12 DEF a

LEMMA PowerMonotone == \A m, n \in Nat : m <= n => 2^m <= 2^n
<1> SUFFICES ASSUME NEW m \in Nat, NEW n \in Nat, m <= n PROVE 2^m <= 2^n OBVIOUS
<1> DEFINE d == n - m
           a == 2^m
           b == 2^d
<1>1. d \in Nat /\ m + d = n OBVIOUS
<1>2. a \in Nat \ {0} /\ b \in Nat \ {0} BY <1>1, PowerPositive
<1>3. 2^n = a * b BY <1>1, PowerSum
<1> HIDE DEF a, b, d
<1>4. a <= a * b BY <1>2
<1> QED BY <1>3, <1>4 DEF a

\* The half of a power.
LEMMA PowerHalf == \A n \in Nat \ {0} : 2^n = 2^(n - 1) + 2^(n - 1) /\ 2^(n - 1) \in Nat \ {0}
<1> SUFFICES ASSUME NEW n \in Nat \ {0} PROVE 2^n = 2^(n - 1) + 2^(n - 1) /\ 2^(n - 1) \in Nat \ {0} OBVIOUS
<1>1. n - 1 \in Nat /\ (n - 1) + 1 = n OBVIOUS
<1>2. 2^n = 2 * 2^(n - 1) BY <1>1, PowerStep
<1>3. 2^(n - 1) \in Nat \ {0} BY <1>1, PowerPositive
<1> QED BY <1>2, <1>3

-----------------------------------------------------------------------------
(* Words: what the operators of BlockSpecs compute.                        *)

LEMMA Quotient ==
  \A a \in Int, m \in Nat \ {0} :
    /\ a \div m \in Int /\ a % m \in 0..(m - 1)
    /\ a = (a \div m) * m + (a % m)
OBVIOUS

LEMMA QuotientOnly ==
  \A a, q, s \in Int, m \in Nat \ {0} :
    0 <= s /\ s < m /\ a = q * m + s => a \div m = q /\ a % m = s
OBVIOUS

LEMMA QuotientNat == \A a \in Nat, m \in Nat \ {0} : a \div m \in Nat
OBVIOUS

\* A word of fewer bits than it is shifted by leaves its sign.
LEMMA SignLeft ==
  \A v \in Int, m \in Nat \ {0} : -m <= v /\ v < m => v \div m = IF v < 0 THEN -1 ELSE 0
<1> SUFFICES ASSUME NEW v \in Int, NEW m \in Nat \ {0}, -m <= v, v < m
             PROVE  v \div m = IF v < 0 THEN -1 ELSE 0
  OBVIOUS
<1>1. CASE v < 0
  <2>1. -1 \in Int /\ v + m \in Int /\ 0 <= v + m /\ v + m < m /\ v = (-1) * m + (v + m) BY <1>1
  <2>2. v \div m = -1 BY <2>1, QuotientOnly
  <2> QED BY <1>1, <2>2
<1>2. CASE ~(v < 0)
  <2>1. 0 \in Int /\ 0 <= v /\ v < m /\ v = 0 * m + v BY <1>2
  <2>2. v \div m = 0 BY <2>1, QuotientOnly
  <2> QED BY <1>2, <2>2
<1> QED BY <1>1, <1>2

\* An arithmetic shift is the division it stands for.
LEMMA ShiftDivides == \A v \in Int, h \in Nat : Sra(v, h) = v \div 2^h
<1> SUFFICES ASSUME NEW v \in Int, NEW h \in Nat PROVE Sra(v, h) = v \div 2^h
  OBVIOUS
<1>1. CASE v \notin -(2^30)..(2^30 - 1) BY <1>1 DEF Sra
<1>2. CASE h <= 30
  <2>1. AtMost(h, 30) = h BY <1>2 DEF AtMost
  <2> QED BY <2>1 DEF Sra
<1>3. ASSUME ~(v \notin -(2^30)..(2^30 - 1)), ~(h <= 30)
      PROVE  Sra(v, h) = v \div 2^h
  <2> DEFINE few == 30
             m == 2^few
             n == 2^h
  <2>0. ~(h <= 30) BY ONLY <1>3
  <2>1. AtMost(h, 30) = few BY <2>0 DEF AtMost
  <2>2. v \in (-m)..(m - 1) BY <1>3
  <2>3. Sra(v, h) = v \div m BY <1>3, <2>1 DEF Sra
  <2>4. few \in Nat /\ few <= h BY <2>0
  <2> HIDE DEF few
  <2>5. m <= n /\ m \in Nat \ {0} /\ n \in Nat \ {0} BY <2>4, PowerMonotone, PowerPositive
  <2> HIDE DEF m, n
  <2>6. -m <= v /\ v < m /\ -n <= v /\ v < n BY <2>2, <2>5
  <2>7. v \div m = IF v < 0 THEN -1 ELSE 0 BY <2>5, <2>6, SignLeft
  <2>8. v \div n = IF v < 0 THEN -1 ELSE 0 BY <2>5, <2>6, SignLeft
  <2> QED BY <2>3, <2>7, <2>8 DEF n
<1> QED BY <1>1, <1>2, <1>3

\* A number taken apart at bit h.
LEMMA Halves ==
  \A v \in Int, h \in Nat :
    /\ Sra(v, h) \in Int /\ Low(v, h) \in 0..(2^h - 1) /\ 2^h \in Nat \ {0}
    /\ Sra(v, h) = v \div 2^h /\ Low(v, h) = v % 2^h
    /\ v = Sra(v, h) * 2^h + Low(v, h)
<1> SUFFICES ASSUME NEW v \in Int, NEW h \in Nat
             PROVE  /\ Sra(v, h) \in Int /\ Low(v, h) \in 0..(2^h - 1) /\ 2^h \in Nat \ {0}
                    /\ Sra(v, h) = v \div 2^h /\ Low(v, h) = v % 2^h
                    /\ v = Sra(v, h) * 2^h + Low(v, h)
  OBVIOUS
<1>1. 2^h \in Nat \ {0} BY PowerPositive
<1>3. Sra(v, h) = v \div 2^h /\ Low(v, h) = v % 2^h BY ShiftDivides DEF Low
<1> DEFINE m == 2^h
<1>4. m \in Nat \ {0} BY <1>1
<1> HIDE DEF m
<1>5. v \div m \in Int /\ v % m \in 0..(m - 1) /\ v = (v \div m) * m + (v % m) BY <1>4, Quotient
<1> QED BY <1>1, <1>3, <1>5 DEF m

\* The words of w bits, read as two's complement numbers.
LEMMA SignedWords ==
  \A w \in Nat \ {0} :
    /\ 2^(w - 1) \in Nat \ {0} /\ 2^w = 2^(w - 1) + 2^(w - 1)
    /\ \A v : v \in Signed(w) <=> v \in Int /\ -(2^(w - 1)) <= v /\ v < 2^(w - 1)
<1> SUFFICES ASSUME NEW w \in Nat \ {0}
             PROVE  /\ 2^(w - 1) \in Nat \ {0} /\ 2^w = 2^(w - 1) + 2^(w - 1)
                    /\ \A v : v \in Signed(w) <=> v \in Int /\ -(2^(w - 1)) <= v /\ v < 2^(w - 1)
  OBVIOUS
<1>1. 2^(w - 1) \in Nat \ {0} /\ 2^w = 2^(w - 1) + 2^(w - 1) BY PowerHalf
<1> DEFINE h == 2^(w - 1)
<1>2. h \in Nat \ {0} BY <1>1
<1>3. Signed(w) = (-h)..(h - 1) BY DEF Signed, Lowest, Highest
<1> HIDE DEF h
<1>4. \A v : v \in (-h)..(h - 1) <=> v \in Int /\ -h <= v /\ v < h BY <1>2
<1> QED BY <1>1, <1>3, <1>4 DEF h

\* A word is the one number of its range that is a whole number of turns away.
LEMMA WrapOnly ==
  \A w \in Nat \ {0} : \A u \in Signed(w), k \in Int : Wrap(u + k * 2^w, w) = u
<1> SUFFICES ASSUME NEW w \in Nat \ {0}, NEW u \in Signed(w), NEW k \in Int
             PROVE  Wrap(u + k * 2^w, w) = u
  OBVIOUS
<1> DEFINE h == 2^(w - 1)
           m == 2^w
<1>1. h \in Nat \ {0} /\ m = h + h /\ u \in Int /\ -h <= u /\ u < h BY SignedWords
<1>2. Wrap(u + k * 2^w, w) = (((u + k * m) + h) % m) - h BY DEF Wrap, Low
<1> HIDE DEF h, m
<1>3. m \in Nat \ {0} /\ u + h \in 0..(m - 1) BY <1>1
<1>4. (u + k * m) + h \in Int /\ (u + k * m) + h = k * m + (u + h) BY <1>1, <1>3
<1> DEFINE a == (u + k * m) + h
           t == u + h
<1>5. a \in Int /\ t \in Int /\ 0 <= t /\ t < m /\ a = k * m + t BY <1>1, <1>3, <1>4
<1> HIDE DEF a, t
<1>6. a % m = t BY <1>3, <1>5, QuotientOnly
<1>7. Wrap(u + k * 2^w, w) = t - h BY <1>2, <1>6 DEF a, m
<1> QED BY <1>1, <1>7 DEF t

LEMMA WrapIn == \A w \in Nat \ {0} : \A v \in Signed(w) : Wrap(v, w) = v
<1> SUFFICES ASSUME NEW w \in Nat \ {0}, NEW v \in Signed(w) PROVE Wrap(v, w) = v OBVIOUS
<1>1. v \in Int /\ 2^w \in Nat BY SignedWords, PowerNat
<1> DEFINE m == 2^w
<1>2. v + 0 * m = v BY <1>1
<1>3. Wrap(v + 0 * 2^w, w) = v BY WrapOnly
<1> QED BY <1>2, <1>3

LEMMA WrapTurns ==
  \A w \in Nat \ {0}, v \in Int :
    Wrap(v, w) \in Signed(w) /\ \E k \in Int : v = Wrap(v, w) + k * 2^w
<1> SUFFICES ASSUME NEW w \in Nat \ {0}, NEW v \in Int
             PROVE  Wrap(v, w) \in Signed(w) /\ \E k \in Int : v = Wrap(v, w) + k * 2^w
  OBVIOUS
<1> DEFINE h == 2^(w - 1)
           m == 2^w
           k == (v + h) \div m
           s == (v + h) % m
<1>1. h \in Nat \ {0} /\ m = h + h BY SignedWords
<1>2. Wrap(v, w) = s - h BY DEF Wrap, Low
<1>3. k \in Int /\ s \in 0..(m - 1) /\ v + h = k * m + s
  <2> DEFINE n == v + h
  <2>1. n \in Int /\ m \in Nat \ {0} BY <1>1
  <2> HIDE DEF n, h, m
  <2>2. n \div m \in Int /\ n % m \in 0..(m - 1) /\ n = (n \div m) * m + (n % m) BY <2>1, Quotient
  <2> QED BY <2>2 DEF n
<1>5. \A x : x \in Signed(w) <=> x \in Int /\ -h <= x /\ x < h BY SignedWords
<1> HIDE DEF h, m, k, s
<1>6. s - h \in Int /\ -h <= s - h /\ s - h < h /\ v = (s - h) + k * m BY <1>1, <1>3
<1>7. Wrap(v, w) \in Signed(w) BY <1>2, <1>5, <1>6
<1>8. v = Wrap(v, w) + k * m BY <1>2, <1>6
<1> QED BY <1>3, <1>7, <1>8 DEF m

LEMMA WrapSame ==
  \A w \in Nat \ {0}, v \in Int, k \in Int : Wrap(v + k * 2^w, w) = Wrap(v, w)
<1> SUFFICES ASSUME NEW w \in Nat \ {0}, NEW v \in Int, NEW k \in Int
             PROVE  Wrap(v + k * 2^w, w) = Wrap(v, w)
  OBVIOUS
<1> DEFINE m == 2^w
           u == Wrap(v, w)
<1>1. u \in Signed(w) /\ \E j \in Int : v = u + j * m BY WrapTurns
<1>2. PICK j \in Int : v = u + j * m BY <1>1
<1>3. u \in Int /\ m \in Nat BY <1>1, SignedWords, PowerNat
<1>4. Wrap(u + (j + k) * 2^w, w) = u BY <1>1, WrapOnly
<1> HIDE DEF m, u
<1>5. v + k * m = u + (j + k) * m BY <1>2, <1>3
<1> QED BY <1>4, <1>5 DEF m, u

\* Every number is below the power of two it is the exponent of.
LEMMA PowerExceeds == \A n \in Nat : n < 2^n
<1>1. SUFFICES ASSUME NEW n \in Nat, ~(n < 2^n) PROVE FALSE OBVIOUS
<1> DEFINE S == {m \in Nat : ~(m < 2^m)}
<1>2. PICK k \in S : \A m \in S : k <= m
  <2>1. S \in SUBSET Nat /\ S # {} BY <1>1
  <2> HIDE DEF S
  <2> QED BY <2>1, SmallestNumber
<1>3. k \in Nat /\ ~(k < 2^k) BY <1>2
<1>4. k # 0 BY <1>3, PowerOne
<1>5. k - 1 \in Nat /\ (k - 1) + 1 = k BY <1>3, <1>4
<1>6. k - 1 \notin S BY <1>2, <1>5
<1>7. k - 1 < 2^(k - 1) BY <1>5, <1>6
<1>8. 2^k = 2 * 2^(k - 1) /\ 2^(k - 1) \in Nat BY <1>5, PowerStep, PowerNat
<1> QED BY <1>3, <1>5, <1>7, <1>8

\* bit_length is the length it is meant to be.
LEMMA BitLength ==
  \A v \in Nat :
    /\ bit_length(v) \in Nat /\ v < 2^bit_length(v)
    /\ bit_length(v) > 0 => v >= 2^(bit_length(v) - 1)
<1> SUFFICES ASSUME NEW v \in Nat
             PROVE  /\ bit_length(v) \in Nat /\ v < 2^bit_length(v)
                    /\ bit_length(v) > 0 => v >= 2^(bit_length(v) - 1)
  OBVIOUS
<1> DEFINE P(n) == v < 2^n /\ (n > 0 => v >= 2^(n - 1))
<1> DEFINE S == {n \in 0..v : v < 2^n}
<1>1. PICK n \in S : \A m \in S : n <= m
  <2>2. v \in S BY PowerExceeds
  <2>3. S \subseteq Nat OBVIOUS
  <2> HIDE DEF S
  <2>4. S # {} BY <2>2
  <2> QED BY <2>3, <2>4, SmallestNumber
<1>2. n \in 0..v /\ v < 2^n BY <1>1
<1>3. ASSUME n > 0 PROVE v >= 2^(n - 1)
  <2>1. n - 1 \in 0..v /\ ~(n <= n - 1) BY <1>2, <1>3
  <2>2. n - 1 \notin S BY <1>1, <2>1
  <2>3. ~(v < 2^(n - 1)) BY <2>1, <2>2
  <2>4. 2^(n - 1) \in Nat BY <2>1, PowerNat
  <2> QED BY <2>3, <2>4
<1>4. \E k \in 0..v : P(k) BY <1>2, <1>3
<1>5. (CHOOSE k \in 0..v : P(k)) \in 0..v /\ P(CHOOSE k \in 0..v : P(k)) BY <1>4
<1>6. bit_length(v) = CHOOSE k \in 0..v : P(k) BY DEF bit_length
<1>7. \A k \in 0..v : k \in Nat OBVIOUS
<1> QED BY <1>5, <1>6, <1>7

LEMMA BitLengthWithin ==
  \A v \in Nat, w \in Nat : v < 2^w => bit_length(v) <= w
<1> SUFFICES ASSUME NEW v \in Nat, NEW w \in Nat, v < 2^w PROVE bit_length(v) <= w OBVIOUS
<1> DEFINE n == bit_length(v)
<1>2. n \in Nat /\ v < 2^n /\ (n > 0 => v >= 2^(n - 1)) BY BitLength
<1> HIDE DEF n
<1>3. ASSUME n > w PROVE FALSE
  <2>1. n - 1 \in Nat /\ w \in Nat /\ w <= n - 1 BY <1>2, <1>3
  <2>2. 2^w <= 2^(n - 1) /\ 2^w \in Nat /\ 2^(n - 1) \in Nat BY <2>1, PowerMonotone, PowerNat
  <2> QED BY <1>2, <1>3, <2>1, <2>2
<1>4. n <= w BY <1>2, <1>3
<1> QED BY <1>4 DEF n

LEMMA BitLengthBeyond ==
  \A v \in Nat, w \in Nat : v >= 2^w => bit_length(v) > w
<1> SUFFICES ASSUME NEW v \in Nat, NEW w \in Nat, v >= 2^w, ~(bit_length(v) > w) PROVE FALSE
  OBVIOUS
<1> DEFINE n == bit_length(v)
<1>1. n \in Nat /\ v < 2^n BY BitLength
<1>2. n <= w BY <1>1
<1> HIDE DEF n
<1>3. 2^n <= 2^w /\ 2^n \in Nat /\ 2^w \in Nat BY <1>1, <1>2, PowerMonotone, PowerNat
<1> QED BY <1>1, <1>3

LEMMA LogarithmRoundedUp ==
  \A v \in Nat :
    CeilLog2(v) \in Nat /\ v <= 2^CeilLog2(v) /\ (CeilLog2(v) > 0 => v > 2^(CeilLog2(v) - 1))
<1> SUFFICES ASSUME NEW v \in Nat
             PROVE  /\ CeilLog2(v) \in Nat /\ v <= 2^CeilLog2(v)
                    /\ CeilLog2(v) > 0 => v > 2^(CeilLog2(v) - 1)
  OBVIOUS
<1> DEFINE P(n) == v <= 2^n /\ (n > 0 => v > 2^(n - 1))
<1> DEFINE S == {n \in 0..v : v <= 2^n}
<1>1. PICK n \in S : \A m \in S : n <= m
  <2>2. v \in S
    <3>1. v < 2^v /\ 2^v \in Nat BY PowerExceeds, PowerNat
    <3> QED BY <3>1
  <2>3. S \subseteq Nat OBVIOUS
  <2> HIDE DEF S
  <2>4. S # {} BY <2>2
  <2> QED BY <2>3, <2>4, SmallestNumber
<1>2. n \in 0..v /\ v <= 2^n BY <1>1
<1>3. ASSUME n > 0 PROVE v > 2^(n - 1)
  <2>1. n - 1 \in 0..v /\ ~(n <= n - 1) BY <1>2, <1>3
  <2>2. n - 1 \notin S BY <1>1, <2>1
  <2>3. ~(v <= 2^(n - 1)) BY <2>1, <2>2
  <2>4. 2^(n - 1) \in Nat BY <2>1, PowerNat
  <2> QED BY <2>3, <2>4
<1>4. \E k \in 0..v : P(k) BY <1>2, <1>3
<1>5. (CHOOSE k \in 0..v : P(k)) \in 0..v /\ P(CHOOSE k \in 0..v : P(k)) BY <1>4
<1>6. CeilLog2(v) = CHOOSE k \in 0..v : P(k) BY DEF CeilLog2
<1>7. \A k \in 0..v : k \in Nat OBVIOUS
<1> QED BY <1>5, <1>6, <1>7

LEMMA LargerOfTwo ==
  \A a, b \in Int : Max({a, b}) \in {a, b} /\ Max({a, b}) >= a /\ Max({a, b}) >= b
<1> SUFFICES ASSUME NEW a \in Int, NEW b \in Int
             PROVE  Max({a, b}) \in {a, b} /\ Max({a, b}) >= a /\ Max({a, b}) >= b
  OBVIOUS
<1>1. \E x \in {a, b} : \A y \in {a, b} : x >= y
  <2>1. CASE a >= b BY <2>1
  <2>2. CASE ~(a >= b) BY <2>2
  <2> QED BY <2>1, <2>2
<1> QED BY <1>1 DEF Max

LEMMA SmallerOfTwo ==
  \A a, b \in Int : Min({a, b}) \in {a, b} /\ Min({a, b}) <= a /\ Min({a, b}) <= b
<1> SUFFICES ASSUME NEW a \in Int, NEW b \in Int
             PROVE  Min({a, b}) \in {a, b} /\ Min({a, b}) <= a /\ Min({a, b}) <= b
  OBVIOUS
<1>1. \E x \in {a, b} : \A y \in {a, b} : x <= y
  <2>1. CASE a <= b BY <2>1
  <2>2. CASE ~(a <= b) BY <2>2
  <2> QED BY <2>1, <2>2
<1> QED BY <1>1 DEF Min

-----------------------------------------------------------------------------
(* What has entered a pipeline.                                            *)

\* What is in place i of a chain once e has been shifted into it.
Entered(line, e, i) == IF i = 1 THEN e ELSE line[i - 1]

\* A line of n places after an edge that lets e in; a clear empties the last.
Moved(line, n, e, clear) ==
  [i \in 1..n |-> IF clear /\ i = n THEN <<>> ELSE Entered(line, e, i)]

LEMMA ShiftedChain ==
  \A n \in Nat \ {0} : \A S : \A line \in [1..n -> S] : \A e \in S :
    /\ Shifted(line, e) \in [1..n -> S]
    /\ \A i \in 1..n : Shifted(line, e)[i] = Entered(line, e, i)
    /\ Last(line) = line[n]
<1> SUFFICES ASSUME NEW n \in Nat \ {0}, NEW S, NEW line \in [1..n -> S], NEW e \in S
             PROVE  /\ Shifted(line, e) \in [1..n -> S]
                    /\ \A i \in 1..n : Shifted(line, e)[i] = Entered(line, e, i)
                    /\ Last(line) = line[n]
  OBVIOUS
<1>1. line \in Seq(S) /\ Len(line) = n OBVIOUS
<1>2. Front(line) = [i \in 1..(n - 1) |-> line[i]] BY <1>1 DEF Front
<1> DEFINE f == Front(line)
           s == Shifted(line, e)
<1>3. f \in Seq(S) /\ Len(f) = n - 1 BY <1>1, <1>2
<1>4. s \in Seq(S) /\ Len(s) = n /\ \A i \in 1..n : s[i] = Entered(line, e, i)
  <2>1. s = <<e>> \o f BY DEF Shifted
  <2>2. <<e>> \in Seq(S) /\ Len(<<e>>) = 1 OBVIOUS
  <2>3. \A i \in 1..(n - 1) : f[i] = line[i] BY <1>2
  <2> HIDE DEF f, s
  <2>4. s \in Seq(S) /\ Len(s) = n BY <1>3, <2>1, <2>2
  <2>5. ASSUME NEW i \in 1..n PROVE s[i] = Entered(line, e, i)
    <3>1. CASE i = 1 BY <3>1, <1>3, <2>1, <2>2 DEF Entered
    <3>2. CASE i # 1
      <4>1. i - 1 \in 1..(n - 1) BY <3>2
      <4>2. s[i] = f[i - 1] BY <3>2, <1>3, <2>1, <2>2
      <4> QED BY <3>2, <4>1, <4>2, <2>3 DEF Entered
    <3> QED BY <3>1, <3>2
  <2> QED BY <2>4, <2>5
<1> HIDE DEF f, s
<1>5. s \in [1..n -> S] BY <1>4
<1>6. Last(line) = line[n] BY <1>1 DEF Last
<1> QED BY <1>4, <1>5, <1>6 DEF s

LEMMA LineMoves ==
  ASSUME NEW n \in Nat \ {0}, NEW S, NEW line \in [1..n -> S], NEW e \in S, NEW clear \in BOOLEAN
  PROVE  /\ Append(Front(Shifted(line, e)), IF clear THEN <<>> ELSE Last(Shifted(line, e)))
              = Moved(line, n, e, clear)
         /\ Last(Shifted(line, e)) = IF n = 1 THEN e ELSE line[n - 1]
<1> DEFINE s == Shifted(line, e)
<1>4. s \in Seq(S) /\ Len(s) = n /\ \A i \in 1..n : s[i] = Entered(line, e, i)
  <2>2. /\ Shifted(line, e) \in [1..n -> S]
        /\ \A i \in 1..n : Shifted(line, e)[i] = Entered(line, e, i)
        /\ Last(line) = line[n]
    BY ShiftedChain, Zenon
  <2>1. s \in [1..n -> S] /\ \A i \in 1..n : s[i] = Entered(line, e, i) BY <2>2
  <2> HIDE DEF s
  <2> QED BY <2>1
<1> HIDE DEF s
<1>5. Last(s) = IF n = 1 THEN e ELSE line[n - 1] BY <1>4 DEF Last, Entered
<1>6. Front(s) = [i \in 1..(n - 1) |-> s[i]] BY <1>4 DEF Front
<1> DEFINE g == Front(s)
           a == IF clear THEN <<>> ELSE Last(s)
<1>7. g \in Seq(S) /\ Len(g) = n - 1 /\ \A i \in 1..(n - 1) : g[i] = s[i] BY <1>4, <1>6
<1> HIDE DEF g
<1>8. Append(g, a) = [i \in 1..n |-> IF i = n THEN a ELSE g[i]]
  <2> HIDE DEF a
  <2> DEFINE T == S \union {a}
  <2>1. g \in Seq(T) /\ a \in T BY <1>7
  <2> HIDE DEF T
  <2>2. Append(g, a) \in Seq(T) /\ Len(Append(g, a)) = n BY <2>1, <1>7
  <2>3. Append(g, a) = [i \in 1..n |-> Append(g, a)[i]]
    <3> DEFINE w == Append(g, a)
    <3>1. w \in Seq(T) /\ Len(w) = n BY <2>2
    <3> HIDE DEF w
    <3>2. w \in [1..Len(w) -> T] BY <3>1
    <3>3. w = [i \in 1..n |-> w[i]] BY <3>1, <3>2
    <3> QED BY <3>3 DEF w
  <2>4. \A i \in 1..n : Append(g, a)[i] = IF i = n THEN a ELSE g[i] BY <2>1, <1>7
  <2> QED BY <2>3, <2>4
<1>9. \A i \in 1..n : (IF i = n THEN a ELSE g[i])
                        = IF clear /\ i = n THEN <<>> ELSE Entered(line, e, i)
  <2>1. ASSUME NEW i \in 1..n, i # n PROVE g[i] = Entered(line, e, i)
    <3>1. i \in 1..(n - 1) BY <2>1
    <3> QED BY <3>1, <1>4, <1>7
  <2>2. a = IF clear THEN <<>> ELSE IF n = 1 THEN e ELSE line[n - 1] BY <1>5
  <2>3. Entered(line, e, n) = IF n = 1 THEN e ELSE line[n - 1] BY DEF Entered
  <2> HIDE DEF a
  <2> QED BY <2>1, <2>2, <2>3
<1>10. Append(g, a) = Moved(line, n, e, clear) BY <1>8, <1>9 DEF Moved
<1> QED BY <1>5, <1>10 DEF g, s

-----------------------------------------------------------------------------
(* Low bits, and a word without leading zeros.                             *)

LEMMA LowSame == \A w \in Nat : \A v \in 0..(2^w - 1) : Low(v, w) = v
<1> SUFFICES ASSUME NEW w \in Nat, NEW v \in 0..(2^w - 1) PROVE Low(v, w) = v
  OBVIOUS
<1> DEFINE m == 2^w
<1>1. m \in Nat \ {0} BY PowerPositive
<1>2. v \in 0..(m - 1) OBVIOUS
<1>3. Low(v, w) = v % m BY DEF Low
<1> HIDE DEF m
<1>4. v % m = v
  <2>1. v \in Int /\ 0 <= v /\ v < m /\ v = 0 * m + v BY <1>1, <1>2
  <2> QED BY <1>1, <2>1, QuotientOnly
<1> QED BY <1>3, <1>4

\* A word shifted up by its leading zeros keeps its width.
LEMMA Normalised ==
  \A x, w, n \in Nat : x < 2^w => bit_length(x) <= w /\ (n <= w - bit_length(x) => x * 2^n \in 0..(2^w - 1))
<1> SUFFICES ASSUME NEW x \in Nat, NEW w \in Nat, NEW n \in Nat, x < 2^w
             PROVE  bit_length(x) <= w /\ (n <= w - bit_length(x) => x * 2^n \in 0..(2^w - 1))
  OBVIOUS
<1> DEFINE b == bit_length(x)
<1>1. b \in Nat /\ x < 2^b BY BitLength
<1>2. b <= w BY BitLengthWithin
<1>3. ASSUME n <= w - b PROVE x * 2^n \in 0..(2^w - 1)
  <2> HIDE DEF b
  <2> DEFINE c == 2^b
             d == 2^n
             e == 2^(b + n)
             f == 2^w
  <2>1. b + n \in Nat /\ b + n <= w BY <1>1, <1>3
  <2>2. c \in Nat \ {0} /\ d \in Nat \ {0} /\ e \in Nat \ {0} /\ f \in Nat \ {0} /\ e <= f /\ e = c * d /\ x < c
    BY <1>1, <2>1, PowerPositive, PowerMonotone, PowerSum
  <2> HIDE DEF c, d, e, f
  <2>3. x + 1 <= c BY <2>2, <1>1
  <2>4. (x + 1) * d <= c * d BY <2>2, <2>3
  <2>5. (x + 1) * d = x * d + d /\ x * d \in Nat BY <2>2
  <2> DEFINE y == x * d
  <2>6. y \in Nat /\ y + d <= f /\ d \in Nat \ {0} /\ f \in Nat BY <2>2, <2>4, <2>5
  <2> HIDE DEF y
  <2>7. y \in 0..(f - 1) BY <2>6
  <2> QED BY <2>7 DEF y, d, f
<1> QED BY <1>2, <1>3

-----------------------------------------------------------------------------
(* Products.                                                               *)

\* A product of two words fits the double width.
LEMMA ProductFits ==
  \A w \in Nat \ {0} : \A a, b \in Signed(w) : a * b \in Signed(2 * w)
<1> SUFFICES ASSUME NEW w \in Nat \ {0}, NEW a \in Signed(w), NEW b \in Signed(w)
             PROVE  a * b \in Signed(2 * w)
  OBVIOUS
<1> DEFINE d == w - 1
           h == 2^d
           g == 2^(d + d)
           n == 2 * w - 1
           t == 2^n
<1>1. d \in Nat /\ n = (d + d) + 1 /\ n \in Nat /\ 2 * w \in Nat \ {0} /\ d + d \in Nat OBVIOUS
<1>2. a \in Int /\ b \in Int /\ -h <= a /\ a < h /\ -h <= b /\ b < h /\ h \in Nat \ {0} BY SignedWords
<1>3. g = h * h BY <1>1, PowerSum
<1>4. t = 2 * g BY <1>1, PowerStep
<1>5. \A v : v \in Signed(2 * w) <=> v \in Int /\ -t <= v /\ v < t BY <1>1, SignedWords
<1> HIDE DEF h, g, t, d, n
<1>6. a * b \in Int /\ h * h \in Nat \ {0} BY <1>2
<1>7. a * b <= h * h
  <2>1. CASE a >= 0 /\ b >= 0 BY <1>2, <2>1
  <2>2. CASE a >= 0 /\ b < 0 BY <1>2, <2>2
  <2>3. CASE a < 0 /\ b >= 0 BY <1>2, <2>3
  <2>4. CASE a < 0 /\ b < 0
    <3> DEFINE x == -a
               y == -b
    <3>1. x \in Nat /\ y \in Nat /\ x <= h /\ y <= h /\ a * b = x * y BY <1>2, <2>4
    <3> HIDE DEF x, y
    <3>2. x * y <= h * h BY <3>1, <1>2
    <3> QED BY <3>1, <3>2
  <2> QED BY <1>2, <2>1, <2>2, <2>3, <2>4
<1>8. -(h * h) <= a * b
  <2>1. CASE a >= 0 /\ b >= 0 BY <1>2, <2>1
  <2>2. CASE a >= 0 /\ b < 0
    <3> DEFINE y == -b
    <3>1. y \in Nat /\ y <= h /\ a * b = -(a * y) BY <1>2, <2>2
    <3> HIDE DEF y
    <3>2. a * y <= h * h /\ a * y \in Nat BY <3>1, <1>2, <2>2
    <3> QED BY <3>1, <3>2, <1>6
  <2>3. CASE a < 0 /\ b >= 0
    <3> DEFINE y == -a
    <3>1. y \in Nat /\ y <= h /\ a * b = -(y * b) BY <1>2, <2>3
    <3> HIDE DEF y
    <3>2. y * b <= h * h /\ y * b \in Nat BY <3>1, <1>2, <2>3
    <3> QED BY <3>1, <3>2, <1>6
  <2>4. CASE a < 0 /\ b < 0
    <3> DEFINE x == -a
               y == -b
    <3>1. x \in Nat /\ y \in Nat /\ a * b = x * y BY <1>2, <2>4
    <3> HIDE DEF x, y
    <3>2. x * y >= 0 BY <3>1
    <3> QED BY <3>1, <3>2, <1>6
  <2> QED BY <1>2, <2>1, <2>2, <2>3, <2>4
<1> DEFINE ab == a * b
           hh == h * h
<1>9. ab \in Int /\ hh \in Nat \ {0} /\ ab <= hh /\ -hh <= ab /\ t = 2 * hh BY <1>3, <1>4, <1>6, <1>7, <1>8
<1> HIDE DEF ab, hh
<1>10. -t <= ab /\ ab < t BY <1>9
<1> QED BY <1>5, <1>9, <1>10 DEF ab

\* The two half-width products of a split multiply make the whole one.
LEMMA SplitProduct ==
  \A a, b \in Int, h \in Nat : a * Bits(b, h - 1, 0) + (a * Sra(b, h)) * 2^h = a * b
<1> SUFFICES ASSUME NEW a \in Int, NEW b \in Int, NEW h \in Nat
             PROVE  a * Bits(b, h - 1, 0) + (a * Sra(b, h)) * 2^h = a * b
  OBVIOUS
<1> DEFINE none == 0
           l == Low(b, h)
           s == Sra(b, h)
           m == 2^h
<1>1. 2^none = 1 BY PowerOne
<1>2. Bits(b, h - 1, none) = Low(b \div 2^none, h)
  <2>1. (h - 1) - none + 1 = h OBVIOUS
  <2> HIDE DEF none
  <2> QED BY <2>1 DEF Bits
<1> HIDE DEF none
<1>3. b \div 2^none = b BY <1>1
<1>4. Bits(b, h - 1, 0) = l BY <1>2, <1>3 DEF none
<1>5. s \in Int /\ l \in Int /\ m \in Nat /\ b = s * m + l BY Halves
<1> HIDE DEF l, s, m
<1>6. (a * s) * m = a * (s * m) BY <1>5
<1> DEFINE sm == s * m
<1>7. sm \in Int /\ b = sm + l /\ (a * s) * m = a * sm BY <1>5, <1>6
<1> HIDE DEF sm
<1>8. a * l + a * sm = a * b BY <1>5, <1>7
<1> QED BY <1>4, <1>7, <1>8 DEF s, m

\* A word times a magnitude.
LEMMA ScaledFits ==
  \A h \in Nat \ {0}, c \in Nat \ {0} : \A a \in Int, s \in Int :
    -h <= a /\ a < h /\ 0 <= s /\ s < c => a * s \in Int /\ -(h * c) <= a * s /\ a * s < h * c
<1> SUFFICES ASSUME NEW h \in Nat \ {0}, NEW c \in Nat \ {0}, NEW a \in Int, NEW s \in Int,
                    -h <= a, a < h, 0 <= s, s < c
             PROVE  a * s \in Int /\ -(h * c) <= a * s /\ a * s < h * c
  OBVIOUS
<1>1. a * s \in Int /\ h * c \in Nat \ {0} OBVIOUS
<1>2. CASE a >= 0
  <2>1. a * s >= 0 BY <1>2
  <2>2. a * s <= a * c BY <1>2
  <2>3. a * c < h * c
    <3>1. h - a >= 1 /\ h - a \in Nat BY <1>2
    <3>2. (h - a) * c >= 1 * c BY <3>1
    <3>3. (h - a) * c = h * c - a * c OBVIOUS
    <3> DEFINE hc == h * c
               ac == a * c
    <3>4. hc \in Int /\ ac \in Int /\ hc - ac >= c BY <3>2, <3>3
    <3> HIDE DEF hc, ac
    <3>5. ac < hc BY <3>4
    <3> QED BY <3>5 DEF hc, ac
  <2> DEFINE az == a * s
             ac == a * c
             hc == h * c
  <2>4. az \in Int /\ ac \in Int /\ hc \in Nat \ {0} /\ az >= 0 /\ az <= ac /\ ac < hc BY <1>1, <2>1, <2>2, <2>3
  <2> HIDE DEF az, ac, hc
  <2>5. -hc <= az /\ az < hc
    <3>1. az \in Int /\ ac \in Int /\ hc \in Int /\ 0 < hc /\ az >= 0 /\ az <= ac /\ ac < hc BY ONLY <2>4
    <3> QED BY ONLY <3>1
  <2> QED BY <1>1, <2>5 DEF az, hc
<1>3. CASE a < 0
  <2> DEFINE n == -a
             ns == n * s
             az == a * s
             hc == h * c
  <2>1. n \in Nat /\ n <= h /\ az = -ns BY <1>3
  <2> HIDE DEF n
  <2>2. ns <= h * s BY <2>1
  <2>3. h * s <= h * c OBVIOUS
  <2>4. ns \in Nat /\ h * s \in Nat /\ hc \in Nat \ {0} BY <2>1, <1>1
  <2>5. ns <= hc BY <2>2, <2>3, <2>4
  <2> HIDE DEF ns, az, hc
  <2>6. -hc <= az /\ az < hc BY <2>1, <2>4, <2>5
  <2> QED BY <1>1, <2>6 DEF az, hc
<1> QED BY <1>2, <1>3

-----------------------------------------------------------------------------
(* Chains of registers, and the sigmoid.                                   *)

\* A chain of registers, whatever they hold.
IsChain(c, n) == c = [i \in 1..n |-> c[i]]

LEMMA ChainMoves ==
  ASSUME NEW n \in Nat \ {0}, NEW c, NEW e, IsChain(c, n)
  PROVE  /\ IsChain(Shifted(c, e), n)
         /\ \A i \in 1..n : Shifted(c, e)[i] = Entered(c, e, i)
         /\ Last(c) = c[n]
<1> DEFINE S == {c[i] : i \in 1..n} \union {e}
<1>1. c \in [1..n -> S] BY DEF IsChain
<1>2. e \in S OBVIOUS
<1> HIDE DEF S
<1>3. /\ Shifted(c, e) \in [1..n -> S]
      /\ \A i \in 1..n : Shifted(c, e)[i] = Entered(c, e, i)
      /\ Last(c) = c[n]
  BY <1>1, <1>2, ShiftedChain, Zenon
<1>4. IsChain(Shifted(c, e), n) BY <1>3 DEF IsChain
<1> QED BY <1>3, <1>4

\* What the exponential is asked, what the reciprocal is, and the sigmoid.
Asked(x, p) == -AtMost(Absolute(x), 2^(p.width - 1) - 1)

LEMMA AskedRange ==
  ASSUME NEW w \in Nat \ {0}, NEW p, p.width = w, NEW x \in Signed(w)
  PROVE  Asked(x, p) \in Int /\ Asked(x, p) <= 0
<1> DEFINE h == 2^(w - 1)
           n == AtMost(Absolute(x), h - 1)
<1>1. h \in Nat \ {0} /\ x \in Int BY SignedWords
<1>2. Asked(x, p) = -n BY DEF Asked
<1> HIDE DEF h
<1>3. n \in Nat BY <1>1 DEF AtMost, AtLeast, Absolute
<1> HIDE DEF n
<1> QED BY <1>2, <1>3

\* A factor 2^f and a shift by f cancel.
LEMMA ShiftCancels ==
  \A a \in Int, f \in Nat, n \in Nat : Sra(a * 2^f, n + f) = Sra(a, n)
<1> SUFFICES ASSUME NEW a \in Int, NEW f \in Nat, NEW n \in Nat PROVE Sra(a * 2^f, n + f) = Sra(a, n)
  OBVIOUS
<1> DEFINE F == 2^f
           N == 2^n
           NF == 2^(n + f)
           q == a \div N
           s == a % N
<1>1. F \in Nat \ {0} /\ N \in Nat \ {0} /\ NF = N * F /\ NF \in Nat \ {0}
  <2>1. n + f \in Nat OBVIOUS
  <2> QED BY <2>1, PowerPositive, PowerSum
<1>2. q \in Int /\ s \in 0..(N - 1) /\ a = q * N + s
  <2> HIDE DEF N
  <2> QED BY <1>1, Quotient
<1>3. a * F \in Int BY <1>1
<1>4. Sra(a * F, n + f) = (a * F) \div NF
  <2>1. n + f \in Nat OBVIOUS
  <2> HIDE DEF F
  <2> QED BY <1>3, <2>1, ShiftDivides
<1>5. Sra(a, n) = q BY ShiftDivides
<1> HIDE DEF F, N, NF, q, s
<1>6. (a * F) \div NF = q
  <2> DEFINE sF == s * F
             qN == q * N
  <2>1. sF \in Int /\ 0 <= sF BY <1>1, <1>2
  <2>2. sF < NF
    <3>1. s + 1 <= N /\ s \in Nat BY <1>1, <1>2
    <3>2. (s + 1) * F <= N * F BY <3>1, <1>1
    <3>3. (s + 1) * F = sF + F BY <3>1, <1>1
    <3> HIDE DEF sF
    <3> QED BY <1>1, <2>1, <3>2, <3>3
  <2>3. a * F = qN * F + sF
    <3>1. qN \in Int /\ a = qN + s BY <1>1, <1>2
    <3> HIDE DEF qN
    <3> QED BY <3>1, <1>1, <1>2
  <2>4. qN * F = q * NF BY <1>1, <1>2
  <2> HIDE DEF sF, qN
  <2>5. a * F = q * NF + sF BY <2>3, <2>4
  <2> DEFINE aF == a * F
  <2>6. aF \in Int /\ aF = q * NF + sF BY <1>3, <2>5
  <2> HIDE DEF aF
  <2>7. aF \div NF = q BY <1>1, <1>2, <2>1, <2>2, <2>6, QuotientOnly
  <2> QED BY <2>7 DEF aF
<1> QED BY <1>4, <1>5, <1>6 DEF F

\* A word times a fraction of one, brought back to the word's format.
LEMMA FractionFits ==
  \A w \in Nat \ {0}, f \in Nat : \A x \in Signed(w) : \A g \in 0..2^f : Sra(x * g, f) \in Signed(w)
<1> SUFFICES ASSUME NEW w \in Nat \ {0}, NEW f \in Nat, NEW x \in Signed(w), NEW g \in 0..2^f
             PROVE  Sra(x * g, f) \in Signed(w)
  OBVIOUS
<1> DEFINE h == 2^(w - 1)
           c == 2^f
           v == x * g
           q == v \div c
<1>1. h \in Nat \ {0} /\ x \in Int /\ -h <= x /\ x < h /\ \A y : y \in Signed(w) <=> y \in Int /\ -h <= y /\ y < h
  BY SignedWords
<1>2. c \in Nat \ {0} /\ g \in 0..c BY PowerPositive
<1> HIDE DEF h, c
<1>3. g \in Nat /\ g <= c BY <1>2
<1>4. v \in Int BY <1>1, <1>3
<1>5. Sra(v, f) = q
  <2> HIDE DEF v
  <2> QED BY <1>4, ShiftDivides DEF c
<1>6. -(h * c) <= v /\ v < h * c
  <2>1. CASE x >= 0
    <3>1. v >= 0 /\ v <= x * c BY <2>1, <1>1, <1>2, <1>3
    <3>2. x * c < h * c
      <4>1. (h - x) * c >= 1 * c /\ (h - x) * c = h * c - x * c BY <1>1, <1>2
      <4> DEFINE hc == h * c
                 xc == x * c
      <4>2. hc \in Int /\ xc \in Int /\ hc - xc >= c BY <4>1, <1>1, <1>2
      <4> HIDE DEF hc, xc
      <4>3. xc < hc BY <4>2, <1>2
      <4> QED BY <4>3 DEF hc, xc
    <3> DEFINE hc == h * c
               xc == x * c
    <3>3. hc \in Nat /\ xc \in Int /\ v \in Int /\ 0 <= v /\ v <= xc /\ xc < hc BY <3>1, <3>2, <1>1, <1>2, <1>4
    <3> HIDE DEF hc, xc, v
    <3>4. -hc <= v /\ v < hc BY ONLY <3>3
    <3> QED BY <3>4 DEF hc
  <2>2. CASE x < 0
    <3> DEFINE n == -x
               ng == n * g
               hc == h * c
    <3>1. n \in Nat \ {0} /\ n <= h /\ v = -ng BY <2>2, <1>1, <1>3
    <3> HIDE DEF n
    <3>2. ng <= h * g /\ h * g <= hc /\ ng \in Nat /\ h * g \in Nat /\ hc \in Nat BY <3>1, <1>1, <1>2, <1>3
    <3>3. hc # 0 BY <1>1, <1>2
    <3> HIDE DEF ng, hc, v
    <3>4. -hc <= v /\ v < hc BY <3>1, <3>2, <3>3
    <3> QED BY <3>4 DEF hc
  <2> QED BY <1>1, <2>1, <2>2
<1> HIDE DEF v
<1>7. q \in Int /\ v % c \in 0..(c - 1) /\ v = q * c + (v % c) BY <1>2, <1>4, Quotient
<1> DEFINE s == v % c
<1>8. s \in 0..(c - 1) /\ v = q * c + s BY <1>7
<1> HIDE DEF q, s
<1>9. -h <= q
  <2>1. ASSUME q < -h PROVE FALSE
    <3>1. q + 1 <= -h BY <2>1, <1>1, <1>7
    <3>2. (q + 1) * c <= (-h) * c BY <3>1, <1>1, <1>2, <1>7
    <3>3. (q + 1) * c = q * c + c /\ (-h) * c = -(h * c) BY <1>1, <1>2, <1>7
    <3> DEFINE qc == q * c
               hc == h * c
    <3>4. qc \in Int /\ hc \in Int /\ qc + c <= -hc /\ -hc <= v /\ v = qc + s BY <3>2, <3>3, <1>1, <1>2, <1>6, <1>7, <1>8
    <3> HIDE DEF qc, hc
    <3> QED BY <3>4, <1>2, <1>8
  <2> QED BY <2>1, <1>1, <1>7
<1>10. q < h
  <2>1. ASSUME h <= q PROVE FALSE
    <3>1. h * c <= q * c BY <2>1, <1>1, <1>2, <1>7
    <3> DEFINE qc == q * c
               hc == h * c
    <3>2. qc \in Int /\ hc \in Int /\ hc <= qc /\ v < hc /\ v = qc + s BY <3>1, <1>1, <1>2, <1>6, <1>7, <1>8
    <3> HIDE DEF qc, hc
    <3> QED BY <3>2, <1>2, <1>8
  <2> QED BY <2>1, <1>1, <1>7
<1>11. q \in Signed(w) BY <1>1, <1>7, <1>9, <1>10
<1> QED BY <1>5, <1>11 DEF v

-----------------------------------------------------------------------------
(* The check value.  A word is the set of its bits that are 1, and what is *)
(* XORed is in one of the two sets and not in both.                        *)

LEMMA XorIn == \A a, b, k : k \in Xor(a, b) <=> (k \in a /\ k \notin b) \/ (k \notin a /\ k \in b)
BY DEF Xor

LEMMA XorLaws ==
  \A a, b, c, d :
    /\ Xor(a, {}) = a /\ Xor({}, a) = a /\ Xor(a, a) = {}
    /\ Xor(a, b) = Xor(b, a)
    /\ Xor(Xor(a, b), c) = Xor(a, Xor(b, c))
    /\ Xor(Xor(a, b), Xor(c, d)) = Xor(Xor(a, c), Xor(b, d))
<1> TAKE a, b, c, d
<1>1. Xor(a, {}) = a /\ Xor({}, a) = a /\ Xor(a, a) = {} BY DEF Xor
<1>2. Xor(a, b) = Xor(b, a) BY DEF Xor
<1>3. Xor(Xor(a, b), c) = Xor(a, Xor(b, c))
  <2>1. ASSUME NEW k PROVE k \in Xor(Xor(a, b), c) <=> k \in Xor(a, Xor(b, c)) BY XorIn
  <2> QED BY <2>1 DEF Xor
<1>4. Xor(Xor(a, b), Xor(c, d)) = Xor(Xor(a, c), Xor(b, d))
  <2>1. ASSUME NEW k PROVE k \in Xor(Xor(a, b), Xor(c, d)) <=> k \in Xor(Xor(a, c), Xor(b, d))
    <3> DEFINE A == k \in a
               B == k \in b
               C == k \in c
               D == k \in d
    <3>1. /\ k \in Xor(a, b) <=> (A /\ ~B) \/ (~A /\ B)
          /\ k \in Xor(c, d) <=> (C /\ ~D) \/ (~C /\ D)
          /\ k \in Xor(a, c) <=> (A /\ ~C) \/ (~A /\ C)
          /\ k \in Xor(b, d) <=> (B /\ ~D) \/ (~B /\ D)
      BY XorIn
    <3> HIDE DEF A, B, C, D
    <3> QED BY <3>1, XorIn
  <2> QED BY <2>1 DEF Xor
<1> QED BY <1>1, <1>2, <1>3, <1>4

LEMMA XorWithin == \A S : \A a, b \in SUBSET S : Xor(a, b) \in SUBSET S
BY DEF Xor

LEMMA RightIn ==
  ASSUME NEW s \in SUBSET Nat, NEW n \in Nat, NEW k
  PROVE  k \in Right(s, n) <=> k \in Nat /\ k + n \in s
<1>1. ASSUME k \in Right(s, n) PROVE k \in Nat /\ k + n \in s
  <2>1. PICK b \in s : b >= n /\ k = b - n BY <1>1 DEF Right
  <2> QED BY <2>1
<1>2. ASSUME k \in Nat, k + n \in s PROVE k \in Right(s, n)
  <2>1. k + n >= n /\ k = (k + n) - n BY <1>2
  <2> QED BY <2>1, <1>2 DEF Right
<1> QED BY <1>1, <1>2

LEMMA RightXor ==
  ASSUME NEW s \in SUBSET Nat, NEW t \in SUBSET Nat, NEW n \in Nat
  PROVE  Right(Xor(s, t), n) = Xor(Right(s, n), Right(t, n)) /\ Right(s, n) \in SUBSET Nat
<1>1. Xor(s, t) \in SUBSET Nat BY DEF Xor
<1>2. ASSUME NEW k PROVE k \in Right(Xor(s, t), n) <=> k \in Xor(Right(s, n), Right(t, n))
  <2>1. k \in Right(Xor(s, t), n) <=> k \in Nat /\ k + n \in Xor(s, t) BY <1>1, RightIn
  <2>2. k \in Right(s, n) <=> k \in Nat /\ k + n \in s BY RightIn
  <2>3. k \in Right(t, n) <=> k \in Nat /\ k + n \in t BY RightIn
  <2> QED BY <2>1, <2>2, <2>3, XorIn
<1>3. \A k \in Right(s, n) : k \in Nat BY RightIn
<1>4. Right(Xor(s, t), n) = Xor(Right(s, n), Right(t, n)) BY <1>2
<1> QED BY <1>3, <1>4

LEMMA RightTwice ==
  ASSUME NEW s \in SUBSET Nat, NEW m \in Nat, NEW n \in Nat
  PROVE  Right(Right(s, m), n) = Right(s, m + n)
<1>1. Right(s, m) \in SUBSET Nat BY RightXor
<1>2. ASSUME NEW k PROVE k \in Right(Right(s, m), n) <=> k \in Right(s, m + n)
  <2>1. k \in Right(Right(s, m), n) <=> k \in Nat /\ k + n \in Right(s, m) BY <1>1, RightIn
  <2>2. k + n \in Right(s, m) <=> k + n \in Nat /\ (k + n) + m \in s BY RightIn
  <2>3. k \in Right(s, m + n) <=> k \in Nat /\ k + (m + n) \in s BY RightIn
  <2>4. k \in Nat => k + n \in Nat /\ (k + n) + m = k + (m + n) OBVIOUS
  <2> QED BY <2>1, <2>2, <2>3, <2>4
<1> QED BY <1>2

-----------------------------------------------------------------------------
(* The ripple is linear over XOR.                                          *)

LEMMA BitStep ==
  ASSUME NEW s \in SUBSET Nat, NEW t \in SUBSET Nat
  PROVE  /\ bit_step(Xor(s, t)) = Xor(bit_step(s), bit_step(t))
         /\ bit_step(s) \in SUBSET Nat
         /\ s \in SUBSET (0..31) => bit_step(s) \in SUBSET (0..31)
<1> DEFINE R(x) == Right(x, 1)
<1>1. R(Xor(s, t)) = Xor(R(s), R(t)) /\ R(s) \in SUBSET Nat BY RightXor
<1>2. POLY \in SUBSET (0..31) /\ POLY \in SUBSET Nat BY DEF POLY
<1>3. ASSUME s \in SUBSET (0..31) PROVE R(s) \in SUBSET (0..31)
  <2>1. ASSUME NEW k \in R(s) PROVE k \in 0..31
    <3>1. k \in Nat /\ k + 1 \in s BY RightIn
    <3> QED BY <3>1, <1>3
  <2> QED BY <2>1
<1>4. \A x : bit_step(x) = IF 0 \in x THEN Xor(R(x), POLY) ELSE R(x) BY DEF bit_step
<1> HIDE DEF R
<1>5. 0 \in Xor(s, t) <=> (0 \in s /\ 0 \notin t) \/ (0 \notin s /\ 0 \in t) BY XorIn
<1>6. bit_step(Xor(s, t)) = Xor(bit_step(s), bit_step(t))
  <2>1. CASE 0 \in s /\ 0 \in t
    <3>1. bit_step(Xor(s, t)) = Xor(R(s), R(t)) BY <1>1, <1>4, <1>5, <2>1
    <3>2. bit_step(s) = Xor(R(s), POLY) /\ bit_step(t) = Xor(R(t), POLY) BY <1>4, <2>1
    <3>3. Xor(Xor(R(s), POLY), Xor(R(t), POLY)) = Xor(Xor(R(s), R(t)), Xor(POLY, POLY)) BY XorLaws
    <3>4. Xor(Xor(R(s), R(t)), Xor(POLY, POLY)) = Xor(R(s), R(t)) BY XorLaws
    <3> QED BY <3>1, <3>2, <3>3, <3>4
  <2>2. CASE 0 \in s /\ 0 \notin t
    <3>1. bit_step(Xor(s, t)) = Xor(Xor(R(s), R(t)), POLY) BY <1>1, <1>4, <1>5, <2>2
    <3>2. bit_step(s) = Xor(R(s), POLY) /\ bit_step(t) = R(t) BY <1>4, <2>2
    <3>3. Xor(Xor(R(s), R(t)), Xor(POLY, {})) = Xor(Xor(R(s), POLY), Xor(R(t), {})) BY XorLaws
    <3>4. Xor(POLY, {}) = POLY /\ Xor(R(t), {}) = R(t) BY XorLaws
    <3> QED BY <3>1, <3>2, <3>3, <3>4
  <2>3. CASE 0 \notin s /\ 0 \in t
    <3>1. bit_step(Xor(s, t)) = Xor(Xor(R(s), R(t)), POLY) BY <1>1, <1>4, <1>5, <2>3
    <3>2. bit_step(s) = R(s) /\ bit_step(t) = Xor(R(t), POLY) BY <1>4, <2>3
    <3>3. Xor(Xor(R(s), R(t)), POLY) = Xor(R(s), Xor(R(t), POLY)) BY XorLaws
    <3> QED BY <3>1, <3>2, <3>3
  <2>4. CASE 0 \notin s /\ 0 \notin t BY <1>1, <1>4, <1>5, <2>4
  <2> QED BY <2>1, <2>2, <2>3, <2>4
<1>7. bit_step(s) \in SUBSET Nat BY <1>1, <1>2, <1>4, XorWithin
<1>8. ASSUME s \in SUBSET (0..31) PROVE bit_step(s) \in SUBSET (0..31)
  <2>1. Xor(R(s), POLY) \in SUBSET (0..31) BY <1>2, <1>3, <1>8, XorWithin
  <2> QED BY <2>1, <1>3, <1>4, <1>8
<1> QED BY <1>6, <1>7, <1>8

\* Eight steps of a bit, one after another.
IsRipple(f, s) == f = [k \in 0..8 |-> IF k = 0 THEN s ELSE bit_step(f[k - 1])]

LEMMA Ripple == ASSUME NEW s PROVE \E f : IsRipple(f, s) /\ byte_step(s) = f[8]
<1> DEFINE Steps(f, n) == f = [k \in 0..n |-> IF k = 0 THEN s ELSE bit_step(f[k - 1])]
           bad == {n \in 0..8 : ~\E f : Steps(f, n)}
<1>1. \E f : Steps(f, 8)
  <2>3. \A n : n \in bad <=> n \in 0..8 /\ ~\E f : Steps(f, n) OBVIOUS
  <2>4. bad \subseteq Nat OBVIOUS
  <2> SUFFICES ASSUME bad # {} PROVE FALSE
    <3> HIDE DEF Steps, bad
    <3> QED BY <2>3, 8 \in 0..8
  <2>1. PICK n \in bad : \A m \in bad : n <= m
    <3> HIDE DEF bad
    <3> QED BY <2>4, SmallestNumber
  <2>2. CASE n = 0
    <3>1. Steps([k \in 0..0 |-> s], 0) OBVIOUS
    <3> HIDE DEF Steps, bad
    <3> QED BY <2>1, <2>2, <2>3, <3>1
  <2>5. CASE n # 0
    <3>1. n - 1 \in 0..8 /\ n - 1 \notin bad
      <4> HIDE DEF Steps, bad
      <4>1. n \in 0..8 BY <2>1, <2>3
      <4>2. n - 1 \in 0..8 /\ ~(n <= n - 1) BY <4>1, <2>5
      <4> QED BY <4>2, <2>1
    <3>2. PICK g : Steps(g, n - 1)
      <4> HIDE DEF Steps, bad
      <4> QED BY <3>1, <2>3
    <3> DEFINE f == [k \in 0..n |-> IF k = 0 THEN s ELSE bit_step(g[k - 1])]
    <3>3. ASSUME NEW k \in 0..n, k # 0 PROVE f[k - 1] = g[k - 1]
      <4>1. k - 1 \in 0..n /\ k - 1 \in 0..(n - 1) BY <2>1, <3>3
      <4>2. f[k - 1] = IF k - 1 = 0 THEN s ELSE bit_step(g[(k - 1) - 1]) BY <4>1
      <4>3. g[k - 1] = IF k - 1 = 0 THEN s ELSE bit_step(g[(k - 1) - 1]) BY <4>1, <3>2
      <4> QED BY <4>2, <4>3
    <3>4. Steps(f, n) BY <3>3
    <3> HIDE DEF Steps, bad, f
    <3> QED BY <2>1, <2>3, <3>4
  <2> QED BY <2>2, <2>5
<1> DEFINE out == CHOOSE f : Steps(f, 8)
<1>2. Steps(out, 8) BY <1>1
<1>3. byte_step(s) = out[8] BY DEF byte_step
<1>4. IsRipple(out, s) BY <1>2 DEF IsRipple
<1> QED BY <1>3, <1>4

\* A property of the first step that a step keeps is one of the last.
LEMMA EightSteps ==
  ASSUME NEW S, S \subseteq 0..8, 0 \in S, \A k \in 0..7 : k \in S => k + 1 \in S
  PROVE  8 \in S
<1>1. 1 \in S BY 0 + 1 = 1
<1>2. 2 \in S BY <1>1, 1 + 1 = 2
<1>3. 3 \in S BY <1>2, 2 + 1 = 3
<1>4. 4 \in S BY <1>3, 3 + 1 = 4
<1>5. 5 \in S BY <1>4, 4 + 1 = 5
<1>6. 6 \in S BY <1>5, 5 + 1 = 6
<1>7. 7 \in S BY <1>6, 6 + 1 = 7
<1> QED BY <1>7, 7 + 1 = 8

LEMMA ByteStep ==
  ASSUME NEW s \in SUBSET Nat, NEW t \in SUBSET Nat
  PROVE  /\ byte_step(Xor(s, t)) = Xor(byte_step(s), byte_step(t))
         /\ byte_step(s) \in SUBSET Nat
         /\ s \in SUBSET (0..31) => byte_step(s) \in SUBSET (0..31)
         /\ (\A k \in s : k >= 8) => byte_step(s) = Right(s, 8)
<1>1. PICK f : IsRipple(f, s) /\ byte_step(s) = f[8] BY Ripple
<1>2. PICK g : IsRipple(g, t) /\ byte_step(t) = g[8] BY Ripple
<1>3. PICK h : IsRipple(h, Xor(s, t)) /\ byte_step(Xor(s, t)) = h[8] BY Ripple
<1>4. f[0] = s /\ g[0] = t /\ h[0] = Xor(s, t)
  <2>1. 0 \in 0..8 OBVIOUS
  <2> QED BY <2>1, <1>1, <1>2, <1>3 DEF IsRipple
<1>5. ASSUME NEW k \in 0..7
      PROVE  f[k + 1] = bit_step(f[k]) /\ g[k + 1] = bit_step(g[k]) /\ h[k + 1] = bit_step(h[k])
  <2>1. k + 1 \in 0..8 /\ k + 1 # 0 /\ (k + 1) - 1 = k OBVIOUS
  <2>2. /\ f[k + 1] = IF k + 1 = 0 THEN s ELSE bit_step(f[(k + 1) - 1])
        /\ g[k + 1] = IF k + 1 = 0 THEN t ELSE bit_step(g[(k + 1) - 1])
        /\ h[k + 1] = IF k + 1 = 0 THEN Xor(s, t) ELSE bit_step(h[(k + 1) - 1])
    BY <2>1, <1>1, <1>2, <1>3 DEF IsRipple
  <2> QED BY <2>1, <2>2
<1>6. h[8] = Xor(f[8], g[8]) /\ f[8] \in SUBSET Nat
  <2> DEFINE S == {k \in 0..8 : h[k] = Xor(f[k], g[k]) /\ f[k] \in SUBSET Nat /\ g[k] \in SUBSET Nat}
  <2>0. 0 \in 0..8 OBVIOUS
  <2>1. 0 \in S BY <2>0, <1>4
  <2>2. ASSUME NEW k \in 0..7, k \in S PROVE k + 1 \in S
    <3>1. h[k] = Xor(f[k], g[k]) /\ f[k] \in SUBSET Nat /\ g[k] \in SUBSET Nat BY <2>2
    <3>2. /\ bit_step(Xor(f[k], g[k])) = Xor(bit_step(f[k]), bit_step(g[k]))
          /\ bit_step(f[k]) \in SUBSET Nat /\ bit_step(g[k]) \in SUBSET Nat
      BY <3>1, BitStep
    <3>3. k + 1 \in 0..8 OBVIOUS
    <3> QED BY <3>1, <3>2, <3>3, <1>5
  <2>3. 8 \in S
    <3>1. S \subseteq 0..8 OBVIOUS
    <3> HIDE DEF S
    <3> QED BY <2>1, <2>2, <3>1, EightSteps
  <2> QED BY <2>3
<1>7. ASSUME s \in SUBSET (0..31) PROVE f[8] \in SUBSET (0..31)
  <2> DEFINE S == {k \in 0..8 : f[k] \in SUBSET (0..31)}
  <2>0. 0 \in 0..8 OBVIOUS
  <2>1. 0 \in S BY <2>0, <1>4, <1>7
  <2>2. ASSUME NEW k \in 0..7, k \in S PROVE k + 1 \in S
    <3>1. f[k] \in SUBSET (0..31) BY <2>2
    <3>2. f[k] \in SUBSET Nat BY <3>1
    <3>3. bit_step(f[k]) \in SUBSET (0..31) BY <3>1, <3>2, BitStep
    <3>4. k + 1 \in 0..8 OBVIOUS
    <3> QED BY <3>3, <3>4, <1>5
  <2>3. 8 \in S
    <3>1. S \subseteq 0..8 OBVIOUS
    <3> HIDE DEF S
    <3> QED BY <2>1, <2>2, <3>1, EightSteps
  <2> QED BY <2>3
<1>8. ASSUME \A k \in s : k >= 8 PROVE f[8] = Right(s, 8)
  <2> DEFINE S == {k \in 0..8 : f[k] = Right(s, k)}
  <2>0. Right(s, 0) = s
    <3>1. \A k : k \in Right(s, 0) <=> k \in Nat /\ k + 0 \in s BY RightIn
    <3>2. \A k \in Nat : k + 0 = k OBVIOUS
    <3> QED BY <3>1, <3>2
  <2>1. 0 \in S BY <1>4, <2>0
  <2>2. ASSUME NEW k \in 0..7, k \in S PROVE k + 1 \in S
    <3>1. f[k] = Right(s, k) BY <2>2
    <3>2. 0 \notin f[k]
      <4>1. 0 \in Right(s, k) <=> 0 \in Nat /\ 0 + k \in s BY RightIn
      <4>2. 0 + k = k /\ ~(k >= 8) OBVIOUS
      <4> QED BY <4>1, <4>2, <3>1, <1>8
    <3>3. bit_step(f[k]) = Right(f[k], 1) BY <3>2 DEF bit_step
    <3>4. Right(Right(s, k), 1) = Right(s, k + 1) BY RightTwice
    <3>5. k + 1 \in 0..8 OBVIOUS
    <3> QED BY <3>1, <3>3, <3>4, <3>5, <1>5
  <2>3. 8 \in S
    <3>1. S \subseteq 0..8 OBVIOUS
    <3> HIDE DEF S
    <3> QED BY <2>1, <2>2, <3>1, EightSteps
  <2> QED BY <2>3
<1> QED BY <1>1, <1>2, <1>3, <1>6, <1>7, <1>8

-----------------------------------------------------------------------------
(* The table of the bytes, and a word at a time.                           *)

LEMMA ByteIn ==
  ASSUME NEW d \in SUBSET Nat, NEW i \in Nat, NEW k
  PROVE  k \in Byte(d, i) <=> k \in 0..7 /\ k + 8 * i \in d
<1> DEFINE s == {b \in d : b \div 8 = i}
<1>0. 8 * i \in Nat OBVIOUS
<1>1. s \in SUBSET Nat OBVIOUS
<1>2. k \in Byte(d, i) <=> k \in Nat /\ k + 8 * i \in s BY <1>0, <1>1, RightIn DEF Byte
<1>3. ASSUME k \in Nat PROVE (k + 8 * i) \div 8 = i <=> k \in 0..7
  BY <1>3
<1> QED BY <1>2, <1>3

LEMMA ByteXor ==
  ASSUME NEW d \in SUBSET Nat, NEW e \in SUBSET Nat, NEW i \in Nat
  PROVE  Byte(Xor(d, e), i) = Xor(Byte(d, i), Byte(e, i)) /\ Byte(d, i) \in SUBSET (0..7)
<1>1. Xor(d, e) \in SUBSET Nat BY XorWithin
<1>2. ASSUME NEW k PROVE k \in Byte(Xor(d, e), i) <=> k \in Xor(Byte(d, i), Byte(e, i))
  <2>1. k \in Byte(Xor(d, e), i) <=> k \in 0..7 /\ k + 8 * i \in Xor(d, e) BY <1>1, ByteIn
  <2>2. k \in Byte(d, i) <=> k \in 0..7 /\ k + 8 * i \in d BY ByteIn
  <2>3. k \in Byte(e, i) <=> k \in 0..7 /\ k + 8 * i \in e BY ByteIn
  <2> QED BY <2>1, <2>2, <2>3, XorIn
<1>3. \A k \in Byte(d, i) : k \in 0..7 BY ByteIn
<1>4. Byte(Xor(d, e), i) = Xor(Byte(d, i), Byte(e, i)) BY <1>2
<1> QED BY <1>3, <1>4

LEMMA NoByte == byte_step({}) = {}
<1>1. {} \in SUBSET Nat OBVIOUS
<1>2. byte_step(Xor({}, {})) = Xor(byte_step({}), byte_step({})) BY <1>1, ByteStep
<1> QED BY <1>2, XorLaws

\* Of the finite sets with a property there is one with fewest members.
LEMMA SmallestSet ==
  ASSUME NEW x, IsFiniteSet(x), NEW S, S \subseteq SUBSET x, S # {}
  PROVE  \E t \in S : \A u \in S : Cardinality(t) <= Cardinality(u)
<1> DEFINE C == {Cardinality(t) : t \in S}
<1>1. \A t \in S : Cardinality(t) \in Nat BY FS_Subset, FS_CardinalityType
<1>2. C \subseteq Nat /\ C # {} BY <1>1
<1> HIDE DEF C
<1>3. PICK n \in C : \A m \in C : n <= m BY <1>2, SmallestNumber
<1>4. PICK t \in S : Cardinality(t) = n BY DEF C
<1>5. \A u \in S : Cardinality(u) \in C BY DEF C
<1> QED BY <1>3, <1>4, <1>5

LEMMA TableStep ==
  ASSUME NEW x \in SUBSET (0..7)
  PROVE  AllXor([b \in x |-> crc_table[b]]) = byte_step(x)
<1> DEFINE sets == [b \in x |-> crc_table[b]]
           Folds(f) == f = [t \in SUBSET x |->
                              IF t = {} THEN {}
                              ELSE LET c == CHOOSE e \in t : TRUE
                                   IN  Xor(sets[c], f[t \ {c}])]
           f0 == [t \in SUBSET x |-> byte_step(t)]
<1>1. DOMAIN sets = x /\ \A b \in x : sets[b] = byte_step({b}) BY DEF crc_table
<1>2. ASSUME NEW t \in SUBSET x, NEW c \in t PROVE byte_step(t) = Xor(sets[c], byte_step(t \ {c}))
  <2>1. {c} \in SUBSET Nat /\ t \ {c} \in SUBSET Nat OBVIOUS
  <2>2. byte_step(Xor({c}, t \ {c})) = Xor(byte_step({c}), byte_step(t \ {c})) BY <2>1, ByteStep
  <2>3. Xor({c}, t \ {c}) = t BY DEF Xor
  <2>4. c \in x OBVIOUS
  <2>5. sets[c] = byte_step({c}) BY <1>1, <2>4
  <2> HIDE DEF sets
  <2> QED BY <2>2, <2>3, <2>5
<1>3. Folds(f0)
  <2>1. ASSUME NEW t \in SUBSET x
        PROVE  byte_step(t) = IF t = {} THEN {} ELSE LET c == CHOOSE e \in t : TRUE
                                                     IN  Xor(sets[c], f0[t \ {c}])
    <3>1. CASE t = {} BY <3>1, NoByte
    <3>2. CASE t # {}
      <4> DEFINE c == CHOOSE e \in t : TRUE
      <4>1. c \in t BY <3>2
      <4> HIDE DEF c
      <4>2. t \ {c} \in SUBSET x OBVIOUS
      <4>3. f0[t \ {c}] = byte_step(t \ {c}) BY <4>2
      <4>4. byte_step(t) = Xor(sets[c], byte_step(t \ {c})) BY <4>1, <1>2
      <4> HIDE DEF sets, f0
      <4> QED BY <3>2, <4>3, <4>4 DEF c
    <3> QED BY <3>1, <3>2
  <2> QED BY <2>1
<1> DEFINE iter == CHOOSE f : Folds(f)
<1>4. Folds(iter) BY <1>3
<1>5. AllXor(sets) = iter[x]
  BY <1>1 DEF AllXor, FoldSet, MapThenFoldSet
<1>6. IsFiniteSet(x)
  <2>0. 0 \in Int /\ 7 \in Int OBVIOUS
  <2>1. IsFiniteSet(0..7) BY <2>0, FS_Interval
  <2> QED BY <2>1, FS_Subset
<1>7. iter[x] = byte_step(x)
  <2> DEFINE bad == {t \in SUBSET x : iter[t] # byte_step(t)}
  <2>1. bad \subseteq SUBSET x OBVIOUS
  <2> SUFFICES ASSUME bad # {} PROVE FALSE OBVIOUS
  <2>2. PICK t \in bad : \A u \in bad : Cardinality(t) <= Cardinality(u)
    <3> HIDE DEF bad
    <3> QED BY <1>6, <2>1, SmallestSet
  <2> DEFINE c == CHOOSE e \in t : TRUE
  <2>3. iter[t] = IF t = {} THEN {} ELSE Xor(sets[c], iter[t \ {c}]) BY <1>4, <2>1
  <2>4. t # {}
    <3>1. ASSUME t = {} PROVE FALSE
      <4>1. iter[t] = {} BY <2>3, <3>1
      <4> HIDE DEF iter
      <4> QED BY <4>1, <3>1, <2>2, NoByte
    <3> QED BY <3>1
  <2>5. c \in t BY <2>4
  <2> HIDE DEF c, iter, sets
  <2>6. byte_step(t) = Xor(sets[c], byte_step(t \ {c})) BY <1>2, <2>5
  <2>7. t \ {c} \in SUBSET x /\ iter[t \ {c}] # byte_step(t \ {c}) BY <2>3, <2>4, <2>6
  <2>8. t \ {c} \in bad BY <2>7
  <2>9. Cardinality(t \ {c}) = Cardinality(t) - 1 /\ Cardinality(t) \in Nat
    <3>1. IsFiniteSet(t) BY <1>6, FS_Subset
    <3> QED BY <3>1, <2>5, FS_RemoveElement, FS_CardinalityType
  <2> HIDE DEF bad
  <2> QED BY <2>2, <2>8, <2>9
<1> QED BY <1>5, <1>7

\* The states between the bytes of a word, rippled and from the table.
IsWalk(f, w, s, d) ==
  f = [i \in 0..w |-> IF i = 0 THEN s ELSE byte_step(Xor(f[i - 1], Byte(d, i - 1)))]

LowByte(t) == {b \in t : b < 8}

TableByte(t, y) == Xor(Right(t, 8), AllXor([b \in Xor(LowByte(t), y) |-> crc_table[b]]))

IsLookup(f, s, bytes) ==
  f = [i \in 0..Len(bytes) |-> IF i = 0 THEN s ELSE TableByte(f[i - 1], bytes[i])]

LEMMA WalkExists == ASSUME NEW s, NEW d, NEW w \in Nat PROVE \E f : IsWalk(f, w, s, d)
<1> DEFINE bad == {n \in Nat : ~\E f : IsWalk(f, n, s, d)}
<1>1. \A n : n \in bad <=> n \in Nat /\ ~\E f : IsWalk(f, n, s, d) OBVIOUS
<1>2. bad \subseteq Nat OBVIOUS
<1> HIDE DEF bad
<1> SUFFICES ASSUME bad # {} PROVE FALSE BY <1>1
<1>3. PICK n \in bad : \A m \in bad : n <= m BY <1>2, SmallestNumber
<1>4. n \in Nat /\ ~\E f : IsWalk(f, n, s, d) BY <1>1, <1>3
<1>5. CASE n = 0
  <2>1. IsWalk([i \in 0..0 |-> s], 0, s, d) BY DEF IsWalk
  <2> QED BY <2>1, <1>4, <1>5
<1>6. CASE n # 0
  <2>1. n - 1 \in Nat /\ ~(n <= n - 1) BY <1>4, <1>6
  <2>2. PICK g : IsWalk(g, n - 1, s, d) BY <1>1, <1>3, <2>1
  <2> DEFINE f == [i \in 0..n |-> IF i = 0 THEN s ELSE byte_step(Xor(g[i - 1], Byte(d, i - 1)))]
  <2>3. ASSUME NEW i \in 0..n, i # 0 PROVE f[i - 1] = g[i - 1]
    <3>1. i - 1 \in 0..n /\ i - 1 \in 0..(n - 1) BY <1>4, <2>3
    <3>2. f[i - 1] = IF i - 1 = 0 THEN s ELSE byte_step(Xor(g[(i - 1) - 1], Byte(d, (i - 1) - 1))) BY <3>1
    <3>3. g[i - 1] = IF i - 1 = 0 THEN s ELSE byte_step(Xor(g[(i - 1) - 1], Byte(d, (i - 1) - 1)))
      BY <3>1, <2>2 DEF IsWalk
    <3> QED BY <3>2, <3>3
  <2>4. IsWalk(f, n, s, d) BY <2>3 DEF IsWalk
  <2> QED BY <1>4, <2>4
<1> QED BY <1>5, <1>6

LEMMA LookupExists == ASSUME NEW s, NEW y, Len(y) \in Nat PROVE \E f : IsLookup(f, s, y)
<1> DEFINE Steps(f, n) == f = [i \in 0..n |-> IF i = 0 THEN s ELSE TableByte(f[i - 1], y[i])]
           bad == {n \in Nat : ~\E f : Steps(f, n)}
<1>1. \A n : n \in bad <=> n \in Nat /\ ~\E f : Steps(f, n) OBVIOUS
<1>2. bad \subseteq Nat OBVIOUS
<1>0. \A f : Steps(f, Len(y)) => IsLookup(f, s, y) BY DEF IsLookup
<1> SUFFICES ASSUME bad # {} PROVE FALSE
  <2> HIDE DEF bad, Steps
  <2> QED BY <1>0, <1>1
<1>3. PICK n \in bad : \A m \in bad : n <= m
  <2> HIDE DEF bad
  <2> QED BY <1>2, SmallestNumber
<1>4. n \in Nat /\ ~\E f : Steps(f, n)
  <2> HIDE DEF bad, Steps
  <2> QED BY <1>1, <1>3
<1>5. CASE n = 0
  <2>1. Steps([i \in 0..0 |-> s], 0) OBVIOUS
  <2> HIDE DEF bad, Steps
  <2> QED BY <2>1, <1>4, <1>5
<1>6. CASE n # 0
  <2>1. n - 1 \in Nat /\ ~(n <= n - 1) BY <1>4, <1>6
  <2>2. PICK g : Steps(g, n - 1)
    <3> HIDE DEF bad, Steps
    <3> QED BY <1>1, <1>3, <2>1
  <2> DEFINE f == [i \in 0..n |-> IF i = 0 THEN s ELSE TableByte(g[i - 1], y[i])]
  <2>3. ASSUME NEW i \in 0..n, i # 0 PROVE f[i - 1] = g[i - 1]
    <3>1. i - 1 \in 0..n /\ i - 1 \in 0..(n - 1) BY <1>4, <2>3
    <3>2. f[i - 1] = IF i - 1 = 0 THEN s ELSE TableByte(g[(i - 1) - 1], y[i - 1]) BY <3>1
    <3>3. g[i - 1] = IF i - 1 = 0 THEN s ELSE TableByte(g[(i - 1) - 1], y[i - 1]) BY <3>1, <2>2
    <3> QED BY <3>2, <3>3
  <2>4. Steps(f, n) BY <2>3
  <2> HIDE DEF bad, Steps, f
  <2> QED BY <1>4, <2>4
<1> QED BY <1>5, <1>6

LEMMA Walked ==
  ASSUME NEW s, NEW d, NEW w \in Nat
  PROVE  \E f : IsWalk(f, w, s, d) /\ word_step(w, s, d) = f[w]
<1> DEFINE after == CHOOSE f : IsWalk(f, w, s, d)
<1>1. IsWalk(after, w, s, d) BY WalkExists
<1>2. word_step(w, s, d) = after[w] BY DEF word_step, IsWalk
<1> QED BY <1>1, <1>2

LEMMA LookedUp ==
  ASSUME NEW s, NEW y, Len(y) \in Nat
  PROVE  \E f : IsLookup(f, s, y) /\ crc32_bytes(s, y) = f[Len(y)]
<1> DEFINE after == CHOOSE f : IsLookup(f, s, y)
<1>1. IsLookup(after, s, y) BY LookupExists
<1>2. crc32_bytes(s, y) = after[Len(y)] BY DEF crc32_bytes, IsLookup, TableByte, LowByte
<1> QED BY <1>1, <1>2

\* A byte of the ripple is a look-up.
LEMMA OneByte ==
  ASSUME NEW t \in SUBSET (0..31), NEW y \in SUBSET (0..7)
  PROVE  TableByte(t, y) = byte_step(Xor(t, y)) /\ byte_step(Xor(t, y)) \in SUBSET (0..31)
<1> DEFINE high == {b \in t : b >= 8}
           x == Xor(LowByte(t), y)
<1>1. x \in SUBSET (0..7)
  <2>1. ASSUME NEW k \in LowByte(t) PROVE k \in 0..7
    <3>1. k \in 0..31 /\ k < 8 BY DEF LowByte
    <3> QED BY <3>1
  <2>2. LowByte(t) \in SUBSET (0..7) BY <2>1
  <2> QED BY <2>2, XorWithin
<1>2. high \in SUBSET Nat /\ \A k \in high : k >= 8
  <2>1. \A k \in 0..31 : k \in Nat OBVIOUS
  <2> QED BY <2>1
<1>3. Xor(t, y) = Xor(high, x)
  <2>1. Xor(high, LowByte(t)) = t
    <3>1. \A k \in t : k \in Int BY 0..31 \subseteq Int
    <3>2. \A k \in Int : (k < 8) <=> ~(k >= 8) OBVIOUS
    <3> QED BY <3>1, <3>2 DEF Xor, LowByte
  <2> HIDE DEF high
  <2> QED BY <2>1, XorLaws
<1>4. byte_step(Xor(high, x)) = Xor(byte_step(high), byte_step(x))
  <2>1. x \in SUBSET Nat BY <1>1
  <2> HIDE DEF high, x
  <2> QED BY <2>1, <1>2, ByteStep
<1>5. byte_step(high) = Right(high, 8)
  <2> HIDE DEF high
  <2> QED BY <1>2, ByteStep
<1>6. Right(high, 8) = Right(t, 8) BY DEF Right
<1>7. AllXor([b \in x |-> crc_table[b]]) = byte_step(x)
  <2> HIDE DEF x
  <2> QED BY <1>1, TableStep
<1>8. Xor(t, y) \in SUBSET (0..31) /\ Xor(t, y) \in SUBSET Nat
  <2>1. y \in SUBSET (0..31) /\ 0..31 \subseteq Nat OBVIOUS
  <2>2. Xor(t, y) \in SUBSET (0..31) BY <2>1, XorWithin
  <2> QED BY <2>1, <2>2
<1>9. byte_step(Xor(t, y)) \in SUBSET (0..31)
  <2> DEFINE z == Xor(t, y)
  <2> HIDE DEF z
  <2>1. byte_step(z) \in SUBSET (0..31) BY <1>8, ByteStep DEF z
  <2> QED BY <2>1 DEF z
<1>10. TableByte(t, y) = Xor(Right(t, 8), AllXor([b \in x |-> crc_table[b]])) BY DEF TableByte
<1> HIDE DEF x, high
<1> QED BY <1>3, <1>4, <1>5, <1>6, <1>7, <1>9, <1>10

\* Both ways over a word end in the same state, a word of 32 bits.
LEMMA WordsAgree ==
  ASSUME NEW s \in SUBSET (0..31), NEW d \in SUBSET Nat, NEW w \in Nat
  PROVE  /\ crc32_bytes(s, [i \in 1..w |-> Byte(d, i - 1)]) = word_step(w, s, d)
         /\ word_step(w, s, d) \in SUBSET (0..31)
<1> DEFINE y == [i \in 1..w |-> Byte(d, i - 1)]
<1>1. y \in Seq(SUBSET (0..7)) /\ Len(y) = w
  <2>1. \A i \in 1..w : i - 1 \in Nat OBVIOUS
  <2>2. \A i \in 1..w : Byte(d, i - 1) \in SUBSET (0..7) BY <2>1, ByteXor
  <2> HIDE DEF y
  <2>3. y \in [1..w -> SUBSET (0..7)] BY <2>2 DEF y
  <2> QED BY <2>3
<1>2. PICK f : IsWalk(f, w, s, d) /\ word_step(w, s, d) = f[w] BY Walked
<1>3. PICK g : IsLookup(g, s, y) /\ crc32_bytes(s, y) = g[w]
  <2> HIDE DEF y
  <2> QED BY <1>1, LookedUp
<1> DEFINE bad == {n \in 0..w : ~(f[n] = g[n] /\ f[n] \in SUBSET (0..31))}
<1>4. bad \subseteq Nat /\ \A n : n \in bad <=> n \in 0..w /\ ~(f[n] = g[n] /\ f[n] \in SUBSET (0..31))
  OBVIOUS
<1> HIDE DEF bad
<1>5. ASSUME bad # {} PROVE FALSE
  <2>1. PICK n \in bad : \A m \in bad : n <= m BY <1>4, <1>5, SmallestNumber
  <2>2. n \in 0..w BY <1>4, <2>1
  <2>3. f[n] = IF n = 0 THEN s ELSE byte_step(Xor(f[n - 1], Byte(d, n - 1))) BY <1>2, <2>2 DEF IsWalk
  <2>4. g[n] = IF n = 0 THEN s ELSE TableByte(g[n - 1], y[n])
    <3> HIDE DEF y
    <3> QED BY <1>1, <1>3, <2>2 DEF IsLookup
  <2>5. CASE n = 0 BY <2>3, <2>4, <2>5, <1>4, <2>1
  <2>6. CASE n # 0
    <3>1. n - 1 \in 0..w /\ ~(n <= n - 1) /\ n - 1 \in Nat /\ n \in 1..w BY <2>2, <2>6
    <3>2. f[n - 1] = g[n - 1] /\ f[n - 1] \in SUBSET (0..31) BY <3>1, <2>1, <1>4
    <3>3. y[n] = Byte(d, n - 1) /\ Byte(d, n - 1) \in SUBSET (0..7) BY <3>1, ByteXor
    <3> HIDE DEF y
    <3>4. TableByte(f[n - 1], Byte(d, n - 1)) = byte_step(Xor(f[n - 1], Byte(d, n - 1)))
          /\ byte_step(Xor(f[n - 1], Byte(d, n - 1))) \in SUBSET (0..31)
      BY <3>2, <3>3, OneByte
    <3> QED BY <2>1, <2>3, <2>4, <2>6, <3>2, <3>3, <3>4, <1>4
  <2> QED BY <2>5, <2>6
<1>6. w \in 0..w OBVIOUS
<1>7. f[w] = g[w] /\ f[w] \in SUBSET (0..31) BY <1>4, <1>5, <1>6
<1> QED BY <1>2, <1>3, <1>7

-----------------------------------------------------------------------------
(* The flat form: what each bit alone becomes, XORed.                      *)

LEMMA WordXor ==
  ASSUME NEW s \in SUBSET (0..31), NEW t \in SUBSET (0..31), NEW d \in SUBSET Nat, NEW e \in SUBSET Nat,
         NEW w \in Nat
  PROVE  word_step(w, Xor(s, t), Xor(d, e)) = Xor(word_step(w, s, d), word_step(w, t, e))
<1>1. PICK f : IsWalk(f, w, s, d) /\ word_step(w, s, d) = f[w] BY Walked
<1>2. PICK g : IsWalk(g, w, t, e) /\ word_step(w, t, e) = g[w] BY Walked
<1>3. PICK h : IsWalk(h, w, Xor(s, t), Xor(d, e)) /\ word_step(w, Xor(s, t), Xor(d, e)) = h[w] BY Walked
<1> DEFINE Fine(n) == f[n] \in SUBSET Nat /\ g[n] \in SUBSET Nat /\ h[n] = Xor(f[n], g[n])
           bad == {n \in 0..w : ~Fine(n)}
<1>4. bad \subseteq Nat /\ \A n : n \in bad <=> n \in 0..w /\ ~Fine(n) OBVIOUS
<1> HIDE DEF bad
<1>5. ASSUME bad # {} PROVE FALSE
  <2>1. PICK n \in bad : \A m \in bad : n <= m
    <3> HIDE DEF Fine
    <3> QED BY <1>4, <1>5, SmallestNumber
  <2>2. n \in 0..w /\ ~Fine(n)
    <3> HIDE DEF Fine
    <3> QED BY <1>4, <2>1
  <2>3. /\ f[n] = IF n = 0 THEN s ELSE byte_step(Xor(f[n - 1], Byte(d, n - 1)))
        /\ g[n] = IF n = 0 THEN t ELSE byte_step(Xor(g[n - 1], Byte(e, n - 1)))
        /\ h[n] = IF n = 0 THEN Xor(s, t) ELSE byte_step(Xor(h[n - 1], Byte(Xor(d, e), n - 1)))
    BY <1>1, <1>2, <1>3, <2>2 DEF IsWalk
  <2>4. CASE n = 0
    <3>1. s \in SUBSET Nat /\ t \in SUBSET Nat
      <4>1. 0..31 \subseteq Nat OBVIOUS
      <4> QED BY <4>1
    <3> QED BY <2>2, <2>3, <2>4, <3>1
  <2>5. CASE n # 0
    <3>1. n - 1 \in 0..w /\ ~(n <= n - 1) /\ n - 1 \in Nat BY <2>2, <2>5
    <3>2. Fine(n - 1)
      <4> HIDE DEF Fine
      <4> QED BY <3>1, <2>1, <1>4
    <3> DEFINE F == f[n - 1]
               G == g[n - 1]
               b == Byte(d, n - 1)
               c == Byte(e, n - 1)
    <3>3. F \in SUBSET Nat /\ G \in SUBSET Nat /\ h[n - 1] = Xor(F, G) BY <3>2
    <3>4. Byte(Xor(d, e), n - 1) = Xor(b, c) BY <3>1, ByteXor
    <3>5. b \in SUBSET Nat /\ c \in SUBSET Nat
      <4>1. b \in SUBSET (0..7) /\ c \in SUBSET (0..7) BY <3>1, ByteXor
      <4>2. 0..7 \subseteq Nat OBVIOUS
      <4> QED BY <4>1, <4>2
    <3>6. h[n] = byte_step(Xor(Xor(F, G), Xor(b, c))) BY <2>3, <2>5, <3>3, <3>4
    <3>7. f[n] = byte_step(Xor(F, b)) /\ g[n] = byte_step(Xor(G, c)) BY <2>3, <2>5
    <3> HIDE DEF F, G, b, c
    <3>8. Xor(Xor(F, G), Xor(b, c)) = Xor(Xor(F, b), Xor(G, c)) BY XorLaws
    <3>9. Xor(F, b) \in SUBSET Nat /\ Xor(G, c) \in SUBSET Nat BY <3>3, <3>5, XorWithin
    <3>10. /\ byte_step(Xor(Xor(F, b), Xor(G, c))) = Xor(byte_step(Xor(F, b)), byte_step(Xor(G, c)))
           /\ byte_step(Xor(F, b)) \in SUBSET Nat /\ byte_step(Xor(G, c)) \in SUBSET Nat
      BY <3>9, ByteStep
    <3> QED BY <2>2, <3>6, <3>7, <3>8, <3>10
  <2> QED BY <2>4, <2>5
<1>6. w \in 0..w OBVIOUS
<1>7. Fine(w)
  <2> HIDE DEF Fine
  <2> QED BY <1>4, <1>5, <1>6
<1> QED BY <1>1, <1>2, <1>3, <1>7

\* What is linear has a bit of its value set when an odd number of the bits
\* it is given set it alone.
Additive(x, one, all) ==
  all[{}] = {} /\ \A t \in SUBSET x : \A c \in t : all[t] = Xor(one[c], all[t \ {c}])

Odd(one, t, i) == (Cardinality({c \in t : i \in one[c]}) % 2) = 1

LEMMA Parity ==
  ASSUME NEW x, IsFiniteSet(x), NEW one, NEW all, Additive(x, one, all), NEW i
  PROVE  \A t \in SUBSET x : i \in all[t] <=> Odd(one, t, i)
<1> DEFINE Count(t) == Cardinality({c \in t : i \in one[c]})
           bad == {t \in SUBSET x : ~(i \in all[t] <=> (Count(t) % 2) = 1)}
<1>1. bad \subseteq SUBSET x
      /\ \A t : t \in bad <=> t \in SUBSET x /\ ~(i \in all[t] <=> (Count(t) % 2) = 1)
  OBVIOUS
<1> HIDE DEF bad
<1> SUFFICES ASSUME bad # {} PROVE FALSE BY <1>1 DEF Odd
<1>0. all[{}] = {} /\ \A t \in SUBSET x : \A c \in t : all[t] = Xor(one[c], all[t \ {c}])
  BY DEF Additive
<1>2. PICK t \in bad : \A u \in bad : Cardinality(t) <= Cardinality(u) BY <1>1, SmallestSet
<1>3. t \in SUBSET x /\ ~(i \in all[t] <=> (Count(t) % 2) = 1)
  <2> HIDE DEF Count
  <2> QED BY <1>1, <1>2
<1>4. IsFiniteSet(t) BY <1>3, FS_Subset
<1>5. t # {}
  <2>1. ASSUME t = {} PROVE FALSE
    <3>1. {c \in t : i \in one[c]} = {} BY <2>1
    <3>2. Count(t) = 0 BY <3>1, FS_EmptySet
    <3>3. (0 % 2) = 0 OBVIOUS
    <3> HIDE DEF Count
    <3> QED BY <2>1, <3>2, <3>3, <1>0, <1>3
  <2> QED BY <2>1
<1>6. PICK c \in t : TRUE BY <1>5
<1> DEFINE u == t \ {c}
           B == {e \in u : i \in one[e]}
           A == {e \in t : i \in one[e]}
<1>7. u \in SUBSET x BY <1>3
<1>8. Cardinality(u) = Cardinality(t) - 1 /\ Cardinality(t) \in Nat
  BY <1>4, FS_RemoveElement, FS_CardinalityType
<1>9. i \in all[u] <=> (Count(u) % 2) = 1
  <2> HIDE DEF u, Count
  <2>1. ~(Cardinality(t) <= Cardinality(u)) BY <1>8
  <2>2. u \notin bad BY <2>1, <1>2
  <2> QED BY <2>2, <1>1, <1>7
<1>10. all[t] = Xor(one[c], all[u]) BY <1>0, <1>3
<1>11. IsFiniteSet(B) /\ Cardinality(B) \in Nat
  <2>1. B \subseteq t OBVIOUS
  <2> QED BY <2>1, <1>4, FS_Subset, FS_CardinalityType
<1>12. i \in all[t] <=> (i \in one[c] /\ i \notin all[u]) \/ (i \notin one[c] /\ i \in all[u])
  BY <1>10, XorIn
<1>13. CASE i \in one[c]
  <2>1. A = B \cup {c} /\ c \notin B BY <1>13
  <2>2. Count(t) = Cardinality(B) + 1 BY <2>1, <1>11, FS_AddElement
  <2>3. Count(u) = Cardinality(B) OBVIOUS
  <2> DEFINE n == Cardinality(B)
  <2>4. n \in Nat BY <1>11
  <2> HIDE DEF Count, u, n
  <2>5. ((n + 1) % 2) = 1 <=> ~((n % 2) = 1) BY <2>4
  <2> QED BY <2>2, <2>3, <2>5, <1>3, <1>9, <1>12, <1>13 DEF n
<1>14. CASE i \notin one[c]
  <2>1. A = B BY <1>14
  <2>2. Count(t) = Count(u) BY <2>1
  <2> HIDE DEF Count, u
  <2> QED BY <2>2, <1>3, <1>9, <1>12, <1>14
<1> QED BY <1>13, <1>14

\* The flat form takes a word where the ripple takes it.
LEMMA FlatForm ==
  ASSUME NEW w \in Nat, NEW s \in SUBSET (0..31), NEW d \in SUBSET (0..(8 * w - 1))
  PROVE  matrix_step(crc_matrix(w), s, d) = word_step(w, s, d)
<1> DEFINE J == 0..31
           K == 0..(8 * w - 1)
           A == [t \in SUBSET J |-> word_step(w, t, {})]
           B == [e \in SUBSET K |-> word_step(w, {}, e)]
           m == crc_matrix(w)
<1>1. J \subseteq Nat /\ K \subseteq Nat /\ IsFiniteSet(J) /\ IsFiniteSet(K)
  <2>1. 0 \in Int /\ 31 \in Int /\ 8 * w - 1 \in Int OBVIOUS
  <2>2. IsFiniteSet(J) /\ IsFiniteSet(K) BY <2>1, FS_Interval
  <2> QED BY <2>2
<1>2. m.a = [j \in J |-> word_step(w, {j}, {})] /\ m.b = [k \in K |-> word_step(w, {}, {k})]
  BY DEF crc_matrix
<1> HIDE DEF J, K, m
<1>3. {} \in SUBSET (0..31) /\ {} \in SUBSET Nat OBVIOUS
<1>4. word_step(w, {}, {}) = {}
  <2>1. word_step(w, Xor({}, {}), Xor({}, {})) = Xor(word_step(w, {}, {}), word_step(w, {}, {}))
    BY <1>3, WordXor
  <2> QED BY <2>1, XorLaws
<1>5. ASSUME NEW i PROVE i \in word_step(w, s, {}) <=> (Cardinality({j \in s : i \in m.a[j]}) % 2) = 1
  <2>1. A[{}] = {} BY <1>4
  <2>2. ASSUME NEW t \in SUBSET J, NEW c \in t PROVE A[t] = Xor(m.a[c], A[t \ {c}])
    <3>1. {c} \in SUBSET (0..31) /\ t \ {c} \in SUBSET (0..31) BY DEF J
    <3>2. word_step(w, Xor({c}, t \ {c}), Xor({}, {})) = Xor(word_step(w, {c}, {}), word_step(w, t \ {c}, {}))
      <4> DEFINE p == {c}
                 q == t \ {c}
      <4> HIDE DEF p, q
      <4>0. p \in SUBSET (0..31) /\ q \in SUBSET (0..31) BY <3>1 DEF p, q
      <4>1. word_step(w, Xor(p, q), Xor({}, {})) = Xor(word_step(w, p, {}), word_step(w, q, {}))
        BY <4>0, <1>3, WordXor
      <4> QED BY <4>1 DEF p, q
    <3>3. Xor({c}, t \ {c}) = t /\ Xor({}, {}) = {} BY DEF Xor
    <3>4. m.a[c] = word_step(w, {c}, {}) BY <1>2
    <3> QED BY <3>2, <3>3, <3>4
  <2> DEFINE one == m.a
  <2>5. \A t \in SUBSET J : \A c \in t : A[t] = Xor(one[c], A[t \ {c}]) BY <2>2
  <2> HIDE DEF A, one
  <2>6. Additive(J, one, A) BY <2>1, <2>5 DEF Additive
  <2>3. \A t \in SUBSET J : i \in A[t] <=> Odd(one, t, i) BY <1>1, <2>6, Parity
  <2>4. s \in SUBSET J BY DEF J
  <2> QED BY <2>3, <2>4 DEF A, one, Odd
<1>6. ASSUME NEW i PROVE i \in word_step(w, {}, d) <=> (Cardinality({k \in d : i \in m.b[k]}) % 2) = 1
  <2>1. B[{}] = {} BY <1>4
  <2>2. ASSUME NEW t \in SUBSET K, NEW c \in t PROVE B[t] = Xor(m.b[c], B[t \ {c}])
    <3>1. {c} \in SUBSET Nat /\ t \ {c} \in SUBSET Nat BY <1>1
    <3>2. word_step(w, Xor({}, {}), Xor({c}, t \ {c})) = Xor(word_step(w, {}, {c}), word_step(w, {}, t \ {c}))
      BY <3>1, <1>3, WordXor
    <3>3. Xor({c}, t \ {c}) = t /\ Xor({}, {}) = {} BY DEF Xor
    <3>4. m.b[c] = word_step(w, {}, {c}) BY <1>2
    <3> QED BY <3>2, <3>3, <3>4
  <2> DEFINE one == m.b
  <2>5. \A t \in SUBSET K : \A c \in t : B[t] = Xor(one[c], B[t \ {c}]) BY <2>2
  <2> HIDE DEF B, one
  <2>6. Additive(K, one, B) BY <2>1, <2>5 DEF Additive
  <2>3. \A t \in SUBSET K : i \in B[t] <=> Odd(one, t, i) BY <1>1, <2>6, Parity
  <2>4. d \in SUBSET K BY DEF K
  <2> QED BY <2>3, <2>4 DEF B, one, Odd
<1>7. d \in SUBSET Nat BY <1>1 DEF K
<1>8. word_step(w, s, d) = Xor(word_step(w, s, {}), word_step(w, {}, d))
  <2>1. word_step(w, Xor(s, {}), Xor({}, d)) = Xor(word_step(w, s, {}), word_step(w, {}, d))
    BY <1>3, <1>7, WordXor
  <2> QED BY <2>1, XorLaws
<1>9. word_step(w, s, d) \in SUBSET (0..31) BY <1>7, WordsAgree
<1>10. ASSUME NEW i
       PROVE  i \in word_step(w, s, d) <=>
                ((Cardinality({j \in s : i \in m.a[j]}) + Cardinality({k \in d : i \in m.b[k]})) % 2) = 1
  <2> DEFINE P == {j \in s : i \in m.a[j]}
             Q == {k \in d : i \in m.b[k]}
  <2>1. IsFiniteSet(P) /\ IsFiniteSet(Q)
    <3>1. P \subseteq J /\ Q \subseteq K BY DEF J, K
    <3> QED BY <3>1, <1>1, FS_Subset
  <2>2. Cardinality(P) \in Nat /\ Cardinality(Q) \in Nat BY <2>1, FS_CardinalityType
  <2> DEFINE a == Cardinality(P)
             b == Cardinality(Q)
  <2>3. i \in word_step(w, s, {}) <=> (a % 2) = 1 BY <1>5
  <2>4. i \in word_step(w, {}, d) <=> (b % 2) = 1 BY <1>6
  <2>5. a \in Nat /\ b \in Nat BY <2>2
  <2> HIDE DEF a, b
  <2>6. ((a + b) % 2) = 1 <=> ((a % 2) = 1 /\ ~((b % 2) = 1)) \/ (~((a % 2) = 1) /\ (b % 2) = 1) BY <2>5
  <2>7. i \in word_step(w, s, d) <=> ((a + b) % 2) = 1 BY <2>3, <2>4, <2>6, <1>8, XorIn
  <2> QED BY <2>7 DEF a, b
<1>11. matrix_step(m, s, d) = {i \in 0..31 :
          ((Cardinality({j \in s : i \in m.a[j]}) + Cardinality({k \in d : i \in m.b[k]})) % 2) = 1}
  BY DEF matrix_step
<1>12. matrix_step(m, s, d) = word_step(w, s, d) BY <1>9, <1>10, <1>11
<1> QED BY <1>12 DEF m

\* A word through the endpoint's generator, rippled bit by bit or through the
\* flat matrix that is read off the ripple, leaves the state that zlib's table
\* leaves after the bytes of the word: for every width, state and word.
THEOREM CheckValue ==
  ASSUME NEW w \in Nat, NEW s \in SUBSET (0..31), NEW d \in SUBSET (0..(8 * w - 1))
  PROVE  LET zlib == crc32_bytes(s, [i \in 1..w |-> Byte(d, i - 1)])
         IN  word_step(w, s, d) = zlib /\ matrix_step(crc_matrix(w), s, d) = zlib
<1>1. matrix_step(crc_matrix(w), s, d) = word_step(w, s, d) BY FlatForm
<1>2. d \in SUBSET Nat
  <2>1. 8 * w - 1 \in Int OBVIOUS
  <2>2. \A k \in 0..(8 * w - 1) : k \in Nat BY <2>1
  <2> QED BY <2>2
<1>3. crc32_bytes(s, [i \in 1..w |-> Byte(d, i - 1)]) = word_step(w, s, d) BY <1>2, WordsAgree
<1> QED BY <1>1, <1>3

-----------------------------------------------------------------------------
(* The requantizer.  Its first registers hold the products of slices; the  *)
(* sum of the first n of them is the product with what these slices cover. *)

IsRequant(p) ==
  /\ p.acc_width \in Nat \ {0} /\ p.out_width \in Nat \ {0} /\ p.scale_width \in Nat
  /\ p.scale_splits \in Nat /\ p.scale_splits >= 3 /\ p.scale_splits <= p.scale_width
  /\ p.acc_slices \in {1, 2} /\ p.per_add \in {1, 2} /\ Levels(p) \in Nat \ {0}
  /\ p.pipeline_stages = Levels(p) * p.per_add + p.per_add + 3

Terms(p) == p.acc_slices * p.scale_splits

Covered(p, n) == (n * p.scale_width) \div p.scale_splits

FirstPart(p, acc) == IF p.acc_slices = 1 THEN acc ELSE Low(acc, p.acc_width \div 2)

SecondPart(p, acc) == Sra(acc, p.acc_width \div 2) * 2^(p.acc_width \div 2)

Upto(p, acc, scale, n) ==
  IF n <= p.scale_splits THEN FirstPart(p, acc) * Low(scale, Covered(p, n))
  ELSE FirstPart(p, acc) * scale + SecondPart(p, acc) * Low(scale, Covered(p, n - p.scale_splits))

\* A word's low bits, in two pieces.
LEMMA LowPieces ==
  \A v \in Int : \A a, b \in Nat : Low(v, a + b) = Low(v, a) + Low(v \div 2^a, b) * 2^a
<1> SUFFICES ASSUME NEW v \in Int, NEW a \in Nat, NEW b \in Nat
             PROVE  Low(v, a + b) = Low(v, a) + Low(v \div 2^a, b) * 2^a
  OBVIOUS
<1> DEFINE A == 2^a
           B == 2^b
           q == v \div A
           s == v % A
           q2 == q \div B
           s2 == q % B
<1>1. A \in Nat \ {0} /\ B \in Nat \ {0} /\ 2^(a + b) = A * B BY PowerPositive, PowerSum
<1>2. Low(v, a) = s /\ Low(v \div 2^a, b) = s2 /\ Low(v, a + b) = v % (A * B) BY <1>1 DEF Low
<1> HIDE DEF A, B
<1>3. q \in Int /\ s \in 0..(A - 1) /\ v = q * A + s BY <1>1, Quotient
<1> HIDE DEF q, s
<1>4. q2 \in Int /\ s2 \in 0..(B - 1) /\ q = q2 * B + s2 BY <1>1, <1>3, Quotient
<1> HIDE DEF q2, s2
<1> DEFINE rest == s2 * A + s
           m == A * B
<1>5. rest \in Nat /\ rest < m
  <2>1. s2 \in Nat /\ s \in Nat /\ s2 + 1 <= B /\ s < A BY <1>1, <1>3, <1>4
  <2>2. (s2 + 1) * A <= B * A BY <2>1, <1>1
  <2>3. (s2 + 1) * A = s2 * A + A BY <2>1, <1>1
  <2>4. s2 * A \in Nat /\ B * A = A * B BY <2>1, <1>1
  <2> DEFINE t == s2 * A
  <2> HIDE DEF t
  <2> QED BY <2>1, <2>2, <2>3, <2>4, <1>1 DEF t
<1>6. m \in Nat \ {0} BY <1>1
<1>7. v = q2 * m + rest BY <1>1, <1>3, <1>4
<1> HIDE DEF rest, m
<1>8. (v % m) = rest BY <1>3, <1>4, <1>5, <1>6, <1>7, QuotientOnly
<1>9. rest = s + s2 * A
  <2> DEFINE t == s2 * A
  <2>1. t \in Int /\ s \in Int BY <1>1, <1>3, <1>4
  <2>2. rest = t + s BY DEF rest
  <2> HIDE DEF t
  <2>3. rest = s + t BY <2>1, <2>2
  <2> QED BY <2>3 DEF t
<1>10. Low(v, a + b) = rest BY <1>2, <1>8 DEF m
<1> HIDE DEF rest
<1> QED BY <1>2, <1>9, <1>10 DEF A

\* The slices of the scale follow one another and cover it.
LEMMA Covers ==
  ASSUME NEW p, IsRequant(p), NEW j \in 1..p.scale_splits
  PROVE  /\ Covered(p, j - 1) \in Nat /\ Covered(p, j) \in Nat /\ Covered(p, j - 1) <= Covered(p, j)
         /\ Covered(p, 0) = 0 /\ Covered(p, p.scale_splits) = p.scale_width
<1> DEFINE w == p.scale_width
           n == p.scale_splits
           a == (j - 1) * w
           b == j * w
<1>1. w \in Nat /\ n \in Nat \ {0} /\ j \in Nat /\ j - 1 \in Nat BY DEF IsRequant
<1>2. Covered(p, j - 1) = a \div n /\ Covered(p, j) = b \div n BY DEF Covered
<1>3. Covered(p, 0) = 0 /\ Covered(p, n) = w
  <2>1. 0 * w = 0 * n + 0 /\ n * w = w * n + 0 /\ 0 * w \in Int /\ n * w \in Int BY <1>1
  <2> DEFINE x == 0 * w
             y == n * w
  <2>2. Covered(p, 0) = x \div n /\ Covered(p, n) = y \div n BY DEF Covered
  <2>3. x \in Int /\ y \in Int /\ x = 0 * n + 0 /\ y = w * n + 0 BY <2>1
  <2> HIDE DEF x, y, w, n
  <2>4. x \div n = 0 /\ y \div n = w
    <3>1. 0 \in Int /\ w \in Int /\ 0 <= 0 /\ 0 < n BY <1>1
    <3> QED BY <3>1, <2>3, <1>1, QuotientOnly
  <2> QED BY <2>2, <2>4
<1> HIDE DEF w, n
<1>4. a \in Nat /\ b \in Nat /\ a <= b
  <2>1. b = a + w BY <1>1
  <2>2. a \in Nat BY <1>1
  <2> HIDE DEF a, b
  <2> QED BY <2>1, <2>2, <1>1
<1> HIDE DEF a, b
<1>5. a \div n \in Nat /\ b \div n \in Nat BY <1>1, <1>4, QuotientNat
<1>6. a \div n <= b \div n BY <1>1, <1>4
<1> QED BY <1>2, <1>3, <1>5, <1>6 DEF w, n

LEMMA ScaleSlice ==
  ASSUME NEW p, IsRequant(p), NEW j \in 1..p.scale_splits, NEW scale \in Int
  PROVE  LET lo == Covered(p, j - 1)
             hi == Covered(p, j) - 1
         IN  /\ Bits(scale, hi, lo) * 2^lo = Low(scale, Covered(p, j)) - Low(scale, Covered(p, j - 1))
             /\ Bits(scale, hi, lo) \in Int /\ 2^lo \in Int
             /\ Slices(p.scale_width, p.scale_splits)[j] = <<lo, hi>>
<1> DEFINE lo == Covered(p, j - 1)
           top == Covered(p, j)
           d == top - lo
<1>1. lo \in Nat /\ top \in Nat /\ lo <= top BY Covers
<1>2. Slices(p.scale_width, p.scale_splits)[j] = <<lo, top - 1>> BY DEF Slices, Covered
<1> HIDE DEF lo, top
<1>3. d \in Nat /\ top = lo + d BY <1>1
<1>4. Bits(scale, top - 1, lo) = Low(scale \div 2^lo, d)
  <2>1. (top - 1) - lo + 1 = d BY <1>1
  <2> QED BY <2>1 DEF Bits
<1> HIDE DEF d
<1>5. Low(scale, lo + d) = Low(scale, lo) + Low(scale \div 2^lo, d) * 2^lo BY <1>1, <1>3, LowPieces
<1>6. scale \div 2^lo \in Int /\ 2^lo \in Nat \ {0}
  <2> DEFINE m == 2^lo
  <2>1. m \in Nat \ {0} BY <1>1, PowerPositive
  <2> HIDE DEF m
  <2>2. scale \div m \in Int BY <2>1, Quotient
  <2> QED BY <2>1, <2>2 DEF m
<1>7. Low(scale, lo) \in Int /\ Low(scale \div 2^lo, d) \in Int
  <2> DEFINE u == scale \div 2^lo
             P(v, h) == Low(v, h) \in 0..(2^h - 1) /\ 2^h \in Nat \ {0}
  <2>1. u \in Int BY <1>6
  <2> HIDE DEF u
  <2>2. P(u, d) /\ P(scale, lo) BY <2>1, <1>1, <1>3, Halves
  <2>3. Low(u, d) \in Int /\ Low(scale, lo) \in Int BY <2>2
  <2> QED BY <2>3 DEF u
<1> DEFINE x == Low(scale, lo)
           y == Low(scale \div 2^lo, d)
           m == 2^lo
           z == Low(scale, top)
<1>8. z = x + y * m BY <1>3, <1>5
<1>9. x \in Int /\ y \in Int /\ m \in Int BY <1>6, <1>7
<1> HIDE DEF x, y, m, z
<1>10. y * m = z - x
  <2>1. y * m \in Int BY <1>9
  <2> DEFINE ym == y * m
  <2> HIDE DEF ym
  <2> QED BY <2>1, <1>8, <1>9 DEF ym
<1> QED BY <1>2, <1>4, <1>9, <1>10 DEF x, y, m, z, lo, top

LEMMA Differences == \A a, x, y \in Int : a * x - a * y = a * (x - y)
OBVIOUS

\* The parts of the accumulator.
LEMMA Parts ==
  ASSUME NEW p, IsRequant(p), NEW acc \in Int
  PROVE  /\ FirstPart(p, acc) \in Int /\ SecondPart(p, acc) \in Int
         /\ p.acc_slices = 1 => FirstPart(p, acc) = acc
         /\ p.acc_slices = 2 => FirstPart(p, acc) + SecondPart(p, acc) = acc
         /\ p.acc_width \div 2 \in Nat /\ Sra(acc, p.acc_width \div 2) \in Int
<1> DEFINE h == p.acc_width \div 2
           m == 2^h
           P(v, n) == Sra(v, n) \in Int /\ Low(v, n) \in 0..(2^n - 1) /\ 2^n \in Nat \ {0}
                      /\ v = Sra(v, n) * 2^n + Low(v, n)
<1>1. h \in Nat BY DEF IsRequant
<1> HIDE DEF h
<1>2. P(acc, h) BY <1>1, Halves
<1>3. SecondPart(p, acc) = Sra(acc, h) * m BY DEF SecondPart, h
<1>4. FirstPart(p, acc) = IF p.acc_slices = 1 THEN acc ELSE Low(acc, h) BY DEF FirstPart, h
<1> DEFINE x == Sra(acc, h)
           y == Low(acc, h)
<1>5. x \in Int /\ y \in Int /\ m \in Int /\ acc = x * m + y BY <1>2
<1> HIDE DEF x, y, m
<1>6. x * m \in Int BY <1>5
<1> DEFINE xm == x * m
<1>7. SecondPart(p, acc) = xm BY <1>3 DEF x
<1>8. FirstPart(p, acc) = IF p.acc_slices = 1 THEN acc ELSE y BY <1>4 DEF y
<1> HIDE DEF xm
<1> QED BY <1>1, <1>5, <1>6, <1>7, <1>8 DEF xm, x, h

LEMMA LowInt == \A v \in Int, n \in Nat : Low(v, n) \in Int /\ Sra(v, n) \in Int
<1> SUFFICES ASSUME NEW v \in Int, NEW n \in Nat PROVE Low(v, n) \in Int /\ Sra(v, n) \in Int OBVIOUS
<1>1. Sra(v, n) \in Int /\ Low(v, n) \in 0..(2^n - 1) /\ 2^n \in Nat \ {0} BY Halves
<1> QED BY <1>1

LEMMA LowNothing == \A v \in Int : Low(v, 0) = 0
<1> SUFFICES ASSUME NEW v \in Int PROVE Low(v, 0) = 0 OBVIOUS
<1>1. 2^0 = 1 BY PowerOne
<1>2. Low(v, 0) = v % 1 BY <1>1 DEF Low
<1> QED BY <1>2

LEMMA Terms12 ==
  ASSUME NEW p, IsRequant(p)
  PROVE  /\ p.acc_slices = 1 => Terms(p) = p.scale_splits
         /\ p.acc_slices = 2 => Terms(p) = p.scale_splits + p.scale_splits
         /\ Terms(p) \in Nat \ {0} /\ p.scale_splits \in Nat \ {0} /\ Width(p) \in Nat \ {0}
BY DEF IsRequant, Terms, Width

LEMMA CoverEnds ==
  ASSUME NEW p, IsRequant(p), NEW scale \in 0..(2^p.scale_width - 1)
  PROVE  /\ scale \in Int /\ Covered(p, 0) = 0
         /\ Low(scale, Covered(p, 0)) = 0 /\ Low(scale, Covered(p, p.scale_splits)) = scale
<1>0. p.scale_width \in Nat BY DEF IsRequant
<1>1. scale \in Int /\ Low(scale, p.scale_width) = scale
  <2> DEFINE m == 2^p.scale_width
  <2>1. m \in Nat BY <1>0, PowerNat
  <2> HIDE DEF m
  <2>2. scale \in 0..(m - 1) BY DEF m
  <2>3. scale \in Int BY <2>1, <2>2
  <2> QED BY <2>3, <1>0, LowSame
<1>2. Covered(p, 0) = 0 /\ Covered(p, p.scale_splits) = p.scale_width
  <2>1. 1 \in 1..p.scale_splits BY Terms12
  <2> QED BY <2>1, Covers
<1> QED BY <1>1, <1>2, LowNothing

LEMMA UptoEnds ==
  ASSUME NEW p, IsRequant(p), NEW acc \in Int, NEW scale \in 0..(2^p.scale_width - 1)
  PROVE  /\ Upto(p, acc, scale, 0) = 0 /\ Upto(p, acc, scale, Terms(p)) = acc * scale
         /\ \A n \in 0..Terms(p) : Upto(p, acc, scale, n) \in Int
<1> DEFINE F == FirstPart(p, acc)
           S == SecondPart(p, acc)
           n == p.scale_splits
           C(k) == Low(scale, Covered(p, k))
           T == Terms(p)
<1>0. p.scale_width \in Nat /\ p.acc_slices \in {1, 2} BY DEF IsRequant
<1>1. scale \in Int BY CoverEnds
<1>2. F \in Int /\ S \in Int /\ (p.acc_slices = 1 => F = acc) /\ (p.acc_slices = 2 => F + S = acc)
  BY Parts
<1>3. n \in Nat \ {0} /\ T \in Nat \ {0} /\ (p.acc_slices = 1 => T = n) /\ (p.acc_slices = 2 => T = n + n)
  BY Terms12
<1>4. Covered(p, 0) = 0 BY CoverEnds
<1>5. C(0) = 0 /\ C(n) = scale BY CoverEnds
<1>6. \A k \in 0..n : C(k) \in Int
  <2> SUFFICES ASSUME NEW k \in 0..n PROVE C(k) \in Int OBVIOUS
  <2>1. Covered(p, k) \in Nat
    <3>1. CASE k = 0 BY <3>1, <1>4
    <3>2. CASE k # 0
      <4>1. k \in 1..p.scale_splits BY <3>2, <1>3
      <4> QED BY <4>1, Covers
    <3> QED BY <3>1, <3>2
  <2> QED BY <2>1, <1>1, LowInt
<1>7. \A k : Upto(p, acc, scale, k) = IF k <= n THEN F * C(k) ELSE F * scale + S * C(k - n) BY DEF Upto
<1> HIDE DEF F, S, n, C, T
<1>8. Upto(p, acc, scale, 0) = 0
  <2>1. 0 <= n BY <1>3
  <2>2. F * 0 = 0 BY <1>2
  <2> QED BY <2>1, <2>2, <1>5, <1>7
<1>9. Upto(p, acc, scale, T) = acc * scale
  <2>1. CASE p.acc_slices = 1
    <3>1. T = n /\ F = acc /\ n <= n BY <2>1, <1>2, <1>3
    <3> QED BY <3>1, <1>5, <1>7
  <2>2. CASE p.acc_slices = 2
    <3>1. T = n + n /\ ~(T <= n) /\ T - n = n BY <2>2, <1>3
    <3>2. Upto(p, acc, scale, T) = F * scale + S * scale BY <3>1, <1>5, <1>7
    <3>3. F * scale + S * scale = (F + S) * scale BY <1>1, <1>2
    <3> QED BY <3>2, <3>3, <2>2, <1>2
  <2> QED BY <2>1, <2>2, <1>0
<1>10. ASSUME NEW k \in 0..T PROVE Upto(p, acc, scale, k) \in Int
  <2>1. CASE k <= n
    <3>1. k \in 0..n BY <2>1, <1>3
    <3>2. C(k) \in Int BY <3>1, <1>6
    <3>3. F * C(k) \in Int BY <3>2, <1>2
    <3> QED BY <3>3, <2>1, <1>7
  <2>2. CASE ~(k <= n)
    <3>1. k - n \in 0..n BY <2>2, <1>0, <1>3
    <3>2. C(k - n) \in Int BY <3>1, <1>6
    <3> DEFINE c == C(k - n)
    <3> HIDE DEF c
    <3>3. F * scale + S * c \in Int BY <3>2, <1>1, <1>2 DEF c
    <3> QED BY <3>3, <2>2, <1>7 DEF c
  <2> QED BY <2>1, <2>2
<1> QED BY <1>8, <1>9, <1>10 DEF T

\* Each register of the first row holds what its slices add.
LEMMA Leaf ==
  ASSUME NEW p, IsRequant(p), NEW acc \in Int, NEW scale \in 0..(2^p.scale_width - 1),
         NEW t \in 1..Terms(p)
  PROVE  Products(p, acc, scale)[t] = Wrap(Upto(p, acc, scale, t) - Upto(p, acc, scale, t - 1), Width(p))
<1> DEFINE c == p.acc_slices
           n == p.scale_splits
           A == Slices(p.acc_width, c)
           S == Slices(p.scale_width, n)
           Part(i) == IF i = c THEN Sra(acc, A[i][1]) ELSE Bits(acc, A[i][2], A[i][1])
           i0 == ((t - 1) \div n) + 1
           j0 == ((t - 1) % n) + 1
           F == FirstPart(p, acc)
           G == SecondPart(p, acc)
           C(k) == Low(scale, Covered(p, k))
<1>0. p.scale_width \in Nat /\ c \in {1, 2} /\ p.acc_width \in Nat \ {0} BY DEF IsRequant
<1>1. n \in Nat \ {0} /\ (c = 1 => Terms(p) = n) /\ (c = 2 => Terms(p) = n + n) BY Terms12
<1>12. scale \in Int /\ C(0) = 0 /\ C(n) = scale BY CoverEnds
<1>2. Products(p, acc, scale)[t]
        = Wrap(Part(i0) * Bits(scale, S[j0][2], S[j0][1]) * 2^(A[i0][1] + S[j0][1]), Width(p))
  <2>1. t \in 1..(p.acc_slices * p.scale_splits) BY DEF Terms
  <2> QED BY <2>1 DEF Products
<1>3. \A k : Upto(p, acc, scale, k) = IF k <= n THEN F * C(k) ELSE F * scale + G * C(k - n) BY DEF Upto
<1>4. F \in Int /\ G \in Int /\ (c = 1 => F = acc) BY Parts
<1>5. ASSUME NEW j \in 1..n
      PROVE  LET x == Bits(scale, S[j][2], S[j][1])
                 y == 2^S[j][1]
             IN  x * y = C(j) - C(j - 1) /\ x \in Int /\ y \in Int
                 /\ S[j][1] \in Nat /\ C(j) \in Int /\ C(j - 1) \in Int
  <2>1. /\ Bits(scale, Covered(p, j) - 1, Covered(p, j - 1)) * 2^Covered(p, j - 1)
             = Low(scale, Covered(p, j)) - Low(scale, Covered(p, j - 1))
        /\ Bits(scale, Covered(p, j) - 1, Covered(p, j - 1)) \in Int /\ 2^Covered(p, j - 1) \in Int
        /\ S[j] = <<Covered(p, j - 1), Covered(p, j) - 1>>
    BY ScaleSlice, <1>12
  <2>2. Covered(p, j - 1) \in Nat /\ Covered(p, j) \in Nat BY Covers
  <2>3. C(j) \in Int /\ C(j - 1) \in Int BY <2>2, <1>12, LowInt
  <2> HIDE DEF S
  <2>4. S[j][1] = Covered(p, j - 1) /\ S[j][2] = Covered(p, j) - 1 BY <2>1
  <2> QED BY <2>1, <2>2, <2>3, <2>4
<1>6. c = 1 => Part(1) = F /\ A[1][1] = 0
  <2> SUFFICES ASSUME c = 1 PROVE Part(1) = F /\ A[1][1] = 0 OBVIOUS
  <2>1. A[1][1] = 0
    <3>1. A[1][1] = ((1 - 1) * p.acc_width) \div c BY <1>0 DEF Slices
    <3> QED BY <3>1, <1>0
  <2>2. Part(1) = Sra(acc, 0) BY <2>1
  <2>3. Sra(acc, 0) = acc
    <3>1. Sra(acc, 0) = acc \div 2^0 BY ShiftDivides
    <3>2. 2^0 = 1 BY PowerOne
    <3> QED BY <3>1, <3>2
  <2> QED BY <2>1, <2>2, <2>3, <1>4
<1>7. c = 2 => /\ Part(1) = F /\ A[1][1] = 0
               /\ Part(2) = Sra(acc, p.acc_width \div 2) /\ A[2][1] = p.acc_width \div 2
  <2> SUFFICES ASSUME c = 2
               PROVE  /\ Part(1) = F /\ A[1][1] = 0
                      /\ Part(2) = Sra(acc, p.acc_width \div 2) /\ A[2][1] = p.acc_width \div 2
    OBVIOUS
  <2>1. A[1][1] = 0 /\ A[1][2] = (p.acc_width \div 2) - 1 /\ A[2][1] = p.acc_width \div 2
    <3>1. /\ A[1][1] = ((1 - 1) * p.acc_width) \div c /\ A[1][2] = ((1 * p.acc_width) \div c) - 1
          /\ A[2][1] = ((2 - 1) * p.acc_width) \div c
      BY <1>0 DEF Slices
    <3> QED BY <3>1, <1>0
  <2>2. Part(2) = Sra(acc, p.acc_width \div 2) BY <2>1
  <2>3. Part(1) = Bits(acc, (p.acc_width \div 2) - 1, 0) BY <2>1
  <2>4. Bits(acc, (p.acc_width \div 2) - 1, 0) = Low(acc, p.acc_width \div 2)
    <3> DEFINE h == p.acc_width \div 2
    <3>1. h \in Int BY <1>0
    <3>2. Bits(acc, h - 1, 0) = Low(acc \div 2^0, (h - 1) - 0 + 1) BY DEF Bits
    <3> HIDE DEF h
    <3>3. (h - 1) - 0 + 1 = h /\ 2^0 = 1 /\ acc \div 1 = acc BY <3>1, PowerOne
    <3>4. Bits(acc, h - 1, 0) = Low(acc, h) BY <3>2, <3>3
    <3> QED BY <3>4 DEF h
  <2>5. F = Low(acc, p.acc_width \div 2) BY DEF FirstPart
  <2> QED BY <2>1, <2>2, <2>3, <2>4, <2>5
<1>8. G = Sra(acc, p.acc_width \div 2) * 2^(p.acc_width \div 2) BY DEF SecondPart
<1>9. p.acc_width \div 2 \in Nat /\ Sra(acc, p.acc_width \div 2) \in Int BY Parts
<1> DEFINE W(v) == Wrap(v, Width(p))
           U(k) == Upto(p, acc, scale, k)
<1>10. CASE t <= n
  <2>1. i0 = 1 /\ j0 = t /\ t \in 1..n BY <1>10, <1>1
  <2>2. Part(1) = F /\ A[1][1] = 0 BY <1>0, <1>6, <1>7
  <2> DEFINE x == Bits(scale, S[t][2], S[t][1])
             lo == S[t][1]
             y == 2^lo
             d == C(t)
             e == C(t - 1)
  <2>3. x * y = d - e /\ x \in Int /\ y \in Int /\ lo \in Nat /\ d \in Int /\ e \in Int
    BY <2>1, <1>5
  <2>4. Products(p, acc, scale)[t] = W(F * x * 2^(0 + lo))
    <3> HIDE DEF i0, j0, Part, A, S, W
    <3> QED BY <1>2, <2>1, <2>2 DEF W
  <2>5. U(t) = F * d /\ U(t - 1) = F * e
    <3>1. t - 1 <= n BY <2>1, <1>1
    <3> QED BY <3>1, <1>10, <1>3
  <2> HIDE DEF x, lo, d, e, F, U, W
  <2>6. 0 + lo = lo BY <2>3
  <2> HIDE DEF y
  <2>7. F * x * y = F * d - F * e
    <3>1. F * x * y = F * (x * y) BY <2>3, <1>4
    <3>2. F * d - F * e = F * (d - e) BY <2>3, <1>4, Differences
    <3> QED BY <3>1, <3>2, <2>3
  <2>8. Products(p, acc, scale)[t] = W(F * x * y) BY <2>4, <2>6 DEF y
  <2>9. Products(p, acc, scale)[t] = W(U(t) - U(t - 1)) BY <2>5, <2>7, <2>8
  <2> QED BY <2>9 DEF W, U
<1>11. CASE ~(t <= n)
  <2> DEFINE k == t - n
  <2>0. c = 2 /\ t \in n + 1 .. n + n BY <1>0, <1>1, <1>11
  <2>1. i0 = 2 /\ j0 = k /\ k \in 1..n
    <3>1. k \in 1..n /\ k - 1 \in Int /\ t - 1 = 1 * n + (k - 1) /\ 0 <= k - 1 /\ k - 1 < n /\ t - 1 \in Int
      BY <2>0, <1>1
    <3>2. (t - 1) \div n = 1 /\ ((t - 1) % n) = k - 1
      <4> DEFINE a == t - 1
                 b == k - 1
      <4>1. a \in Int /\ b \in Int /\ 1 \in Int /\ a = 1 * n + b /\ 0 <= b /\ b < n BY <3>1
      <4> HIDE DEF a, b, n
      <4>2. a \div n = 1 /\ (a % n) = b BY <4>1, <1>1, QuotientOnly
      <4> QED BY <4>2 DEF a, b
    <3> QED BY <3>1, <3>2
  <2>2. Part(2) = Sra(acc, p.acc_width \div 2) /\ A[2][1] = p.acc_width \div 2 BY <2>0, <1>7
  <2> DEFINE x == Bits(scale, S[k][2], S[k][1])
             lo == S[k][1]
             y == 2^lo
             d == C(k)
             e == C(k - 1)
             h == p.acc_width \div 2
             z == Sra(acc, h)
             m == 2^h
  <2>3. x * y = d - e /\ x \in Int /\ y \in Int /\ lo \in Nat /\ d \in Int /\ e \in Int
    BY <2>1, <1>5
  <2>4. Products(p, acc, scale)[t] = W(z * x * 2^(h + lo))
    <3> HIDE DEF i0, j0, Part, A, S, W, k
    <3> QED BY <1>2, <2>1, <2>2 DEF W
  <2>5. U(t) = F * scale + G * d /\ U(t - 1) = F * scale + G * e
    <3>1. U(t) = F * scale + G * d BY <1>11, <1>3
    <3>2. CASE t - 1 <= n
      <4>1. t - 1 = n /\ k - 1 = 0 BY <3>2, <2>0, <1>1
      <4>2. U(t - 1) = F * C(n) BY <4>1, <3>2, <1>3
      <4>3. e = 0
        <5> HIDE DEF C
        <5> QED BY <4>1, <1>12
      <4>4. U(t - 1) = F * scale BY <4>2, <1>12
      <4>5. G * 0 = 0 /\ F * scale + 0 = F * scale BY <1>4, <1>12
      <4> QED BY <3>1, <4>3, <4>4, <4>5
    <3>3. CASE ~(t - 1 <= n)
      <4>1. (t - 1) - n = k - 1 BY <2>0, <1>1
      <4>2. U(t - 1) = F * scale + G * C((t - 1) - n) BY <3>3, <1>3
      <4> QED BY <3>1, <4>1, <4>2
    <3> QED BY <3>2, <3>3
  <2>6. h \in Nat /\ z \in Int /\ G = z * m BY <1>8, <1>9
  <2>7. 2^(h + lo) = m * y BY <2>3, <2>6, PowerSum
  <2>8. m \in Int
    <3> HIDE DEF h
    <3> QED BY <2>6, PowerNat
  <2> HIDE DEF x, lo, y, d, e, h, z, m, F, G, U, W
  <2>9. z * x * (m * y) = G * d - G * e
    <3>1. z * x * (m * y) = (z * m) * (x * y) BY <2>3, <2>6, <2>8
    <3>2. G * d - G * e = G * (d - e) BY <2>3, <1>4, Differences
    <3> QED BY <3>1, <3>2, <2>3, <2>6
  <2>10. Products(p, acc, scale)[t] = W(z * x * (m * y)) BY <2>4, <2>7
  <2>11. U(t) - U(t - 1) = G * d - G * e
    <3>1. F * scale \in Int /\ G * d \in Int /\ G * e \in Int BY <1>4, <1>12, <2>3
    <3> DEFINE a == F * scale
               b == G * d
               c1 == G * e
    <3> HIDE DEF a, b, c1
    <3>2. U(t) = a + b /\ U(t - 1) = a + c1 BY <2>5 DEF a, b, c1
    <3>3. U(t) - U(t - 1) = b - c1 BY <3>1, <3>2 DEF a, b, c1
    <3> QED BY <3>3 DEF b, c1
  <2>12. Products(p, acc, scale)[t] = W(U(t) - U(t - 1)) BY <2>9, <2>10, <2>11
  <2> QED BY <2>12 DEF W, U
<1> QED BY <1>10, <1>11

\* The nodes of a level of the tree, and what the products under one of them
\* add up to, as a word.
Nodes(p, k) == CeilDiv(Terms(p), 2^k)

Reach(p, x, n) == Upto(p, x.acc_in, x.scale, AtMost(n, Terms(p)))

Node(p, x, k, n) == Wrap(Reach(p, x, n * 2^k) - Reach(p, x, (n - 1) * 2^k), Width(p))

IsSample(p, x) == x.acc_in \in Int /\ x.scale \in 0..(2^p.scale_width - 1)

LEMMA WrapSum ==
  \A w \in Nat \ {0} : \A a, b \in Int :
    /\ Wrap(Wrap(a, w) + Wrap(b, w), w) = Wrap(a + b, w)
    /\ Wrap(a, w) \in Int
<1> SUFFICES ASSUME NEW w \in Nat \ {0}, NEW a \in Int, NEW b \in Int
             PROVE  Wrap(Wrap(a, w) + Wrap(b, w), w) = Wrap(a + b, w) /\ Wrap(a, w) \in Int
  OBVIOUS
<1> DEFINE u == Wrap(a, w)
           v == Wrap(b, w)
           m == 2^w
<1>1. m \in Int BY PowerNat
<1>2. u \in Signed(w) /\ \E k \in Int : a = u + k * m BY WrapTurns
<1>3. v \in Signed(w) /\ \E k \in Int : b = v + k * m BY WrapTurns
<1>4. u \in Int /\ v \in Int
  <2> HIDE DEF u, v
  <2> QED BY <1>2, <1>3, SignedWords
<1> HIDE DEF u, v
<1>5. PICK k \in Int : a = u + k * m BY <1>2
<1>6. PICK l \in Int : b = v + l * m BY <1>3
<1> DEFINE t == u + v
<1>7. t \in Int /\ k + l \in Int BY <1>4
<1>8. a + b = t + (k + l) * m
  <2>1. (k + l) * m = k * m + l * m /\ k * m \in Int /\ l * m \in Int BY <1>1
  <2> DEFINE km == k * m
             lm == l * m
  <2> HIDE DEF km, lm
  <2>2. a = u + km /\ b = v + lm BY <1>5, <1>6 DEF km, lm
  <2>3. a + b = (u + v) + (km + lm) BY <2>1, <2>2, <1>4 DEF km, lm
  <2> QED BY <2>1, <2>3 DEF km, lm
<1> HIDE DEF t
<1>9. Wrap(t + (k + l) * m, w) = Wrap(t, w) BY <1>7, WrapSame
<1> QED BY <1>4, <1>8, <1>9 DEF t, u, v

LEMMA CeilQuotient ==
  \A a \in Nat, m \in Nat \ {0} :
    /\ CeilDiv(a, m) \in Nat /\ CeilDiv(a, m) * m >= a /\ CeilDiv(a, m) * m < a + m
    /\ \A q \in Int : q * m >= a /\ q * m < a + m => CeilDiv(a, m) = q
<1> SUFFICES ASSUME NEW a \in Nat, NEW m \in Nat \ {0}
             PROVE  /\ CeilDiv(a, m) \in Nat /\ CeilDiv(a, m) * m >= a /\ CeilDiv(a, m) * m < a + m
                    /\ \A q \in Int : q * m >= a /\ q * m < a + m => CeilDiv(a, m) = q
  OBVIOUS
<1> DEFINE b == a + m - 1
           c == b \div m
           s == b % m
<1>1. CeilDiv(a, m) = c BY DEF CeilDiv
<1>2. b \in Nat OBVIOUS
<1>3. c \in Int /\ s \in 0..(m - 1) /\ b = c * m + s
  <2> HIDE DEF b
  <2> QED BY <1>2, Quotient
<1>4. c \in Nat
  <2> HIDE DEF b
  <2> QED BY <1>2, QuotientNat
<1> HIDE DEF c, s
<1>5. c * m >= a /\ c * m < a + m
  <2>1. c * m \in Int BY <1>3
  <2> DEFINE cm == c * m
  <2> HIDE DEF cm
  <2>2. a + m - 1 = cm + s /\ cm \in Int /\ s \in 0..(m - 1) BY <1>3, <2>1 DEF cm
  <2>3. cm >= a /\ cm < a + m BY <2>2
  <2> QED BY <2>3 DEF cm
<1>6. ASSUME NEW q \in Int, q * m >= a, q * m < a + m PROVE c = q
  <2> DEFINE t == b - q * m
  <2>1. q * m \in Int OBVIOUS
  <2> DEFINE qm == q * m
  <2>2. t = b - qm OBVIOUS
  <2>3. qm \in Int /\ qm >= a /\ qm < a + m BY <2>1, <1>6
  <2> HIDE DEF qm, t
  <2>4. t \in Int /\ 0 <= t /\ t < m /\ b = qm + t BY <2>2, <2>3
  <2>5. b = q * m + t BY <2>4 DEF qm
  <2> HIDE DEF b
  <2>6. b \div m = q BY <2>4, <2>5, <1>2, QuotientOnly
  <2> QED BY <2>6 DEF c
<1> QED BY <1>1, <1>4, <1>5, <1>6

LEMMA NodeCounts ==
  ASSUME NEW p, IsRequant(p)
  PROVE  /\ Nodes(p, 0) = Terms(p)
         /\ \A k \in Nat : Nodes(p, k) \in Nat \ {0} /\ Nodes(p, k) * 2^k >= Terms(p)
         /\ \A k \in Nat : Nodes(p, k + 1) = CeilDiv(Nodes(p, k), 2)
         /\ Nodes(p, Levels(p)) = 1
<1> DEFINE T == Terms(p)
<1>1. T \in Nat \ {0} BY Terms12
<1>2. Levels(p) = CeilLog2(T) BY DEF Levels, Terms
<1> HIDE DEF T
<1>3. ASSUME NEW k \in Nat PROVE Nodes(p, k) \in Nat \ {0} /\ Nodes(p, k) * 2^k >= T
  <2> DEFINE m == 2^k
             n == CeilDiv(T, m)
  <2>1. m \in Nat \ {0} BY PowerPositive
  <2>2. Nodes(p, k) = n BY DEF Nodes, T
  <2> HIDE DEF m
  <2>3. n \in Nat /\ n * m >= T BY <1>1, <2>1, CeilQuotient
  <2> HIDE DEF n
  <2>4. n # 0
    <3>1. ASSUME n = 0 PROVE FALSE
      <4>1. n * m = 0 BY <3>1, <2>1
      <4> QED BY <4>1, <2>3, <1>1
    <3> QED BY <3>1
  <2> QED BY <2>2, <2>3, <2>4 DEF m
<1>4. Nodes(p, 0) = T
  <2>1. 2^0 = 1 BY PowerOne
  <2>2. T * 1 >= T /\ T * 1 < T + 1 BY <1>1
  <2>3. CeilDiv(T, 1) = T BY <1>1, <2>2, CeilQuotient
  <2> QED BY <2>1, <2>3 DEF Nodes, T
<1>5. ASSUME NEW k \in Nat PROVE Nodes(p, k + 1) = CeilDiv(Nodes(p, k), 2)
  <2> DEFINE m == 2^k
             n == CeilDiv(T, m)
             h == CeilDiv(n, 2)
             d == 2 * m
  <2>1. m \in Nat \ {0} /\ 2^(k + 1) = d BY PowerPositive, PowerStep
  <2>2. Nodes(p, k) = n /\ Nodes(p, k + 1) = CeilDiv(T, d) BY <2>1 DEF Nodes, T
  <2> HIDE DEF m
  <2>3. n \in Nat /\ n * m >= T /\ n * m < T + m BY <1>1, <2>1, CeilQuotient
  <2> HIDE DEF n
  <2>4. h \in Nat /\ h * 2 >= n /\ h * 2 < n + 2 BY <2>3, CeilQuotient
  <2> HIDE DEF h
  <2>5. d \in Nat \ {0} BY <2>1
  <2>6. h * d >= T /\ h * d < T + d
    <3>1. h * d = (h * 2) * m /\ (h * 2) * m >= n * m /\ (h * 2) * m <= (n + 1) * m
      <4>1. h * 2 <= n + 1 BY <2>3, <2>4
      <4>2. h * 2 \in Nat /\ n + 1 \in Nat BY <2>3, <2>4
      <4> DEFINE g == h * 2
                 f == n + 1
      <4>3. h * d = g * m BY <2>1, <2>4
      <4> HIDE DEF g, f
      <4>4. g * m >= n * m BY <2>1, <2>3, <2>4, <4>2 DEF g
      <4>5. g * m <= f * m BY <2>1, <4>1, <4>2 DEF g, f
      <4> QED BY <4>3, <4>4, <4>5 DEF g, f
    <3>2. (n + 1) * m = n * m + m /\ n * m \in Nat BY <2>1, <2>3
    <3> DEFINE nm == n * m
               hd == h * d
    <3>3. hd >= nm /\ hd <= nm + m /\ nm \in Nat /\ nm >= T /\ nm < T + m /\ hd \in Nat
      BY <3>1, <3>2, <2>3, <2>4, <2>5
    <3> HIDE DEF nm, hd
    <3>4. hd >= T /\ hd < T + d BY <3>3, <2>1, <1>1
    <3> QED BY <3>4 DEF hd
  <2> HIDE DEF d
  <2>7. CeilDiv(T, d) = h BY <1>1, <2>4, <2>5, <2>6, CeilQuotient
  <2> QED BY <2>2, <2>7 DEF h
<1>6. Nodes(p, Levels(p)) = 1
  <2> DEFINE m == 2^CeilLog2(T)
  <2>1. T <= m /\ m \in Nat \ {0} BY <1>1, LogarithmRoundedUp, PowerPositive
  <2>2. Nodes(p, Levels(p)) = CeilDiv(T, m) BY <1>2 DEF Nodes, T
  <2> HIDE DEF m
  <2>3. 1 * m >= T /\ 1 * m < T + m BY <1>1, <2>1
  <2>4. CeilDiv(T, m) = 1 BY <1>1, <2>1, <2>3, CeilQuotient
  <2> QED BY <2>2, <2>4
<1> QED BY <1>3, <1>4, <1>5, <1>6 DEF T

LEMMA ReachInt ==
  ASSUME NEW p, IsRequant(p), NEW x, IsSample(p, x), NEW n \in Nat
  PROVE  Reach(p, x, n) \in Int
<1>1. Terms(p) \in Nat \ {0} BY Terms12
<1>2. AtMost(n, Terms(p)) \in 0..Terms(p) BY <1>1 DEF AtMost
<1> QED BY <1>2, UptoEnds DEF Reach, IsSample

LEMMA NodeInt ==
  ASSUME NEW p, IsRequant(p), NEW x, IsSample(p, x), NEW k \in Nat, NEW n \in Nat \ {0}
  PROVE  /\ Node(p, x, k, n) \in Int
         /\ Reach(p, x, n * 2^k) \in Int /\ Reach(p, x, (n - 1) * 2^k) \in Int
<1> DEFINE m == 2^k
           a == n * m
           b == (n - 1) * m
<1>1. m \in Nat BY PowerNat
<1> HIDE DEF m
<1>2. a \in Nat /\ b \in Nat BY <1>1
<1>3. Node(p, x, k, n) = Wrap(Reach(p, x, a) - Reach(p, x, b), Width(p)) BY DEF Node, m
<1> HIDE DEF a, b
<1>4. Reach(p, x, a) \in Int /\ Reach(p, x, b) \in Int BY <1>2, ReachInt
<1> DEFINE d == Reach(p, x, a) - Reach(p, x, b)
<1>5. d \in Int /\ Width(p) \in Nat \ {0} BY <1>4, Terms12
<1> HIDE DEF d
<1>6. Wrap(d, Width(p)) \in Int BY <1>5, WrapSum
<1> QED BY <1>3, <1>4, <1>6 DEF d, a, b, m

\* A row of products is the leaves.
LEMMA LeafRow ==
  ASSUME NEW p, IsRequant(p), NEW x, IsSample(p, x)
  PROVE  Products(p, x.acc_in, x.scale) = [t \in 1..Terms(p) |-> Node(p, x, 0, t)]
<1> DEFINE T == Terms(p)
           P == Products(p, x.acc_in, x.scale)
<1>1. T \in Nat \ {0} BY Terms12
<1>2. P = [t \in 1..T |-> P[t]] BY DEF Products, Terms
<1>3. ASSUME NEW t \in 1..T PROVE P[t] = Node(p, x, 0, t)
  <2>1. P[t] = Wrap(Upto(p, x.acc_in, x.scale, t) - Upto(p, x.acc_in, x.scale, t - 1), Width(p))
    BY Leaf DEF IsSample
  <2>2. 2^0 = 1 /\ t * 1 = t /\ (t - 1) * 1 = t - 1 BY PowerOne
  <2> HIDE DEF T, P
  <2>3. AtMost(t, T) = t /\ AtMost(t - 1, T) = t - 1 BY <1>1 DEF AtMost
  <2>4. Reach(p, x, t * 2^0) = Upto(p, x.acc_in, x.scale, t)
        /\ Reach(p, x, (t - 1) * 2^0) = Upto(p, x.acc_in, x.scale, t - 1)
    BY <2>2, <2>3 DEF Reach, T
  <2> QED BY <2>1, <2>4 DEF Node
<1> HIDE DEF P
<1> QED BY <1>2, <1>3 DEF P

\* Two nodes of a level make one of the next; the last of an odd number of
\* them is one of the next as it is.
LEMMA NodePair ==
  ASSUME NEW p, IsRequant(p), NEW x, IsSample(p, x), NEW k \in Nat, NEW i \in Nat \ {0}
  PROVE  Wrap(Node(p, x, k, 2 * i - 1) + Node(p, x, k, 2 * i), Width(p)) = Node(p, x, k + 1, i)
<1> DEFINE m == 2^k
           R(n) == Reach(p, x, n * m)
           W == Width(p)
<1>1. m \in Nat /\ 2^(k + 1) = 2 * m BY PowerNat, PowerStep
<1>2. Node(p, x, k, 2 * i - 1) = Wrap(R(2 * i - 1) - R((2 * i - 1) - 1), W)
      /\ Node(p, x, k, 2 * i) = Wrap(R(2 * i) - R(2 * i - 1), W)
  BY DEF Node
<1>3. Node(p, x, k + 1, i) = Wrap(Reach(p, x, i * (2 * m)) - Reach(p, x, (i - 1) * (2 * m)), W)
  BY <1>1 DEF Node
<1> HIDE DEF m
<1>4. i * (2 * m) = (2 * i) * m /\ (i - 1) * (2 * m) = ((2 * i - 1) - 1) * m BY <1>1
<1>5. Node(p, x, k + 1, i) = Wrap(R(2 * i) - R((2 * i - 1) - 1), W) BY <1>3, <1>4
<1>6. R(2 * i) \in Int /\ R(2 * i - 1) \in Int /\ R((2 * i - 1) - 1) \in Int
  <2>1. 2 * i - 1 \in Nat \ {0} /\ 2 * i \in Nat \ {0} OBVIOUS
  <2>2. R(2 * i - 1) \in Int /\ R((2 * i - 1) - 1) \in Int BY <2>1, NodeInt DEF m
  <2>3. R(2 * i) \in Int BY <2>1, NodeInt DEF m
  <2> QED BY <2>2, <2>3
<1> DEFINE a == R(2 * i - 1) - R((2 * i - 1) - 1)
           b == R(2 * i) - R(2 * i - 1)
<1>7. W \in Nat \ {0} BY Terms12
<1>8. a \in Int /\ b \in Int /\ a + b = R(2 * i) - R((2 * i - 1) - 1)
  <2> HIDE DEF R
  <2> QED BY <1>6
<1> HIDE DEF W, R, a, b
<1>9. Wrap(Wrap(a, W) + Wrap(b, W), W) = Wrap(a + b, W) BY <1>7, <1>8, WrapSum
<1> QED BY <1>2, <1>5, <1>8, <1>9 DEF W, a, b

LEMMA NodeOdd ==
  ASSUME NEW p, IsRequant(p), NEW x, IsSample(p, x), NEW k \in Nat, NEW i \in 1..Nodes(p, k + 1),
         ~(2 * i <= Nodes(p, k))
  PROVE  Nodes(p, k) = 2 * i - 1 /\ Node(p, x, k, 2 * i - 1) = Node(p, x, k + 1, i)
<1> DEFINE m == 2^k
           n == Nodes(p, k)
           T == Terms(p)
<1>1. m \in Nat \ {0} /\ 2^(k + 1) = 2 * m BY PowerPositive, PowerStep
<1>2. n \in Nat \ {0} /\ n * m >= T /\ Nodes(p, k + 1) = CeilDiv(n, 2) BY NodeCounts
<1>3. T \in Nat \ {0} BY Terms12
<1> HIDE DEF n
<1>4. i \in Nat \ {0} /\ n = 2 * i - 1
  <2> DEFINE h == CeilDiv(n, 2)
  <2>1. h \in Nat /\ h * 2 < n + 2 BY <1>2, CeilQuotient
  <2> HIDE DEF h
  <2>2. i \in 1..h /\ ~(2 * i <= n) BY <1>2 DEF h, n
  <2> QED BY <1>2, <2>1, <2>2
<1> DEFINE R(j) == Reach(p, x, j)
           a == (2 * i - 1) * m
           b == ((2 * i - 1) - 1) * m
           c == i * (2 * m)
           d == (i - 1) * (2 * m)
<1>5. Node(p, x, k, 2 * i - 1) = Wrap(R(a) - R(b), Width(p)) BY DEF Node
<1>6. Node(p, x, k + 1, i) = Wrap(R(c) - R(d), Width(p)) BY <1>1 DEF Node
<1> HIDE DEF m, T
<1>7. b = d BY <1>1, <1>4
<1>8. a >= T /\ c >= a /\ a \in Nat /\ c \in Nat
  <2>1. a \in Nat /\ c \in Nat BY <1>1, <1>4
  <2>2. a >= T BY <1>2, <1>4
  <2>3. c = a + m BY <1>1, <1>4
  <2> HIDE DEF a, c
  <2> QED BY <2>1, <2>2, <2>3, <1>1
<1> HIDE DEF a, b, c, d
<1>9. AtMost(a, T) = T /\ AtMost(c, T) = T BY <1>3, <1>8 DEF AtMost
<1>10. R(a) = R(c) BY <1>9 DEF Reach, T
<1> QED BY <1>4, <1>5, <1>6, <1>7, <1>10 DEF n

LEMMA Root ==
  ASSUME NEW p, IsRequant(p), NEW x, IsSample(p, x)
  PROVE  Node(p, x, Levels(p), 1) = Wrap(x.acc_in * x.scale, Width(p))
<1> DEFINE T == Terms(p)
           m == 2^Levels(p)
<1>1. T \in Nat \ {0} /\ Levels(p) \in Nat BY Terms12 DEF IsRequant
<1>2. m \in Nat \ {0} /\ T <= m
  <2>1. Levels(p) = CeilLog2(T) BY DEF Levels, Terms
  <2> HIDE DEF T
  <2> QED BY <1>1, <2>1, LogarithmRoundedUp, PowerPositive
<1> DEFINE a == 1 * m
           b == (1 - 1) * m
<1>3. Node(p, x, Levels(p), 1) = Wrap(Reach(p, x, a) - Reach(p, x, b), Width(p)) BY DEF Node
<1> HIDE DEF m, T
<1>4. a = m /\ b = 0 BY <1>2
<1> HIDE DEF a, b
<1>5. AtMost(a, T) = T /\ AtMost(b, T) = 0 BY <1>1, <1>2, <1>4 DEF AtMost
<1>6. Reach(p, x, a) = x.acc_in * x.scale /\ Reach(p, x, b) = 0
  <2>1. Reach(p, x, a) = Upto(p, x.acc_in, x.scale, Terms(p)) /\ Reach(p, x, b) = Upto(p, x.acc_in, x.scale, 0)
    BY <1>5 DEF Reach, T
  <2> QED BY <2>1, UptoEnds DEF IsSample
<1>7. x.acc_in * x.scale - 0 = x.acc_in * x.scale
  <2>1. x.scale \in Int /\ x.acc_in \in Int BY CoverEnds DEF IsSample
  <2>2. x.acc_in * x.scale \in Int BY <2>1
  <2> DEFINE y == x.acc_in * x.scale
  <2> HIDE DEF y
  <2>3. y - 0 = y BY <2>2 DEF y
  <2> QED BY <2>3 DEF y
<1> QED BY <1>3, <1>6, <1>7

-----------------------------------------------------------------------------
(* What the requantizer's registers hold of a sample, edge after edge.     *)

\* The halves of a sum, with the carry between them.
HalfSum(p, c, x, y) ==
  LET half == Width(p) \div 2 IN c = <<Low(x, half) + Low(y, half), x, y>>

LEMMA SplitAdd ==
  \A h \in Nat : \A x, y \in Int :
    LET s == Low(x, h) + Low(y, h)
    IN  (Sra(x, h) + Sra(y, h) + Sra(s, h)) * 2^h + Low(s, h) = x + y
<1> SUFFICES ASSUME NEW h \in Nat, NEW x \in Int, NEW y \in Int
             PROVE  LET s == Low(x, h) + Low(y, h)
                    IN  (Sra(x, h) + Sra(y, h) + Sra(s, h)) * 2^h + Low(s, h) = x + y
  OBVIOUS
<1> DEFINE m == 2^h
           a == Sra(x, h)
           b == Low(x, h)
           c == Sra(y, h)
           d == Low(y, h)
           s == b + d
           e == Sra(s, h)
           f == Low(s, h)
           P(v) == /\ Sra(v, h) \in Int /\ Low(v, h) \in 0..(2^h - 1) /\ 2^h \in Nat \ {0}
                   /\ v = Sra(v, h) * 2^h + Low(v, h)
<1>1. P(x) /\ P(y) BY Halves
<1>2. a \in Int /\ b \in Int /\ c \in Int /\ d \in Int /\ m \in Int /\ x = a * m + b /\ y = c * m + d BY <1>1
<1> HIDE DEF a, b, c, d, m
<1>3. s \in Int BY <1>2
<1> HIDE DEF s
<1>4. P(s) BY <1>3, Halves
<1>5. e \in Int /\ f \in Int /\ s = e * m + f BY <1>4 DEF m
<1> HIDE DEF e, f, P
<1>6. (a + c + e) * m + f = x + y
  <2> DEFINE am == a * m
             cm == c * m
             em == e * m
  <2>1. am \in Int /\ cm \in Int /\ em \in Int /\ (a + c + e) * m = am + cm + em BY <1>2, <1>5
  <2> HIDE DEF am, cm, em
  <2>2. x = am + b /\ y = cm + d /\ b + d = em + f BY <1>2, <1>5 DEF am, cm, em, s
  <2> QED BY <2>1, <2>2, <1>2, <1>5
<1> QED BY <1>6 DEF a, b, c, d, e, f, s, m

\* An adder's registers: after one edge the sum, or the halves; after two, the sum.
LEMMA AddsRight ==
  ASSUME NEW p, IsRequant(p), NEW regs, NEW x, NEW y
  PROVE  LET q == Adds(p, regs, x, y)
         IN  /\ IsChain(q, p.per_add)
             /\ p.per_add = 1 => q[1] = Wrap(x + y, Width(p))
             /\ p.per_add = 2 => HalfSum(p, q[1], x, y)
             /\ \A a, b \in Int : p.per_add = 2 /\ HalfSum(p, regs[1], a, b) => q[2] = Wrap(a + b, Width(p))
<1> DEFINE q == Adds(p, regs, x, y)
           w == Width(p)
           half == w \div 2
<1> SUFFICES /\ IsChain(q, p.per_add)
             /\ p.per_add = 1 => q[1] = Wrap(x + y, w)
             /\ p.per_add = 2 => HalfSum(p, q[1], x, y)
             /\ \A a, b \in Int : p.per_add = 2 /\ HalfSum(p, regs[1], a, b) => q[2] = Wrap(a + b, w)
  OBVIOUS
<1>1. p.per_add \in {1, 2} /\ w \in Nat \ {0} BY Terms12 DEF IsRequant
<1>2. CASE p.per_add = 1
  <2>1. q = <<Wrap(x + y, w)>> BY <1>2 DEF Adds
  <2> HIDE DEF q, w
  <2>2. q[1] = Wrap(x + y, w) BY <2>1
  <2>3. q = [i \in 1..1 |-> q[i]] BY <2>1
  <2> QED BY <1>2, <2>2, <2>3 DEF IsChain
<1>3. CASE p.per_add = 2
  <2> DEFINE g == <<Low(x, half) + Low(y, half), x, y>>
             high == Sra(regs[1][2], half) + Sra(regs[1][3], half) + Sra(regs[1][1], half)
             t == Wrap(high * 2^half + Low(regs[1][1], half), w)
  <2>1. q = <<g, t>> BY <1>3 DEF Adds
  <2>4. half \in Nat BY <1>1
  <2>5. ASSUME NEW a \in Int, NEW b \in Int, HalfSum(p, regs[1], a, b) PROVE t = Wrap(a + b, w)
    <3>1. regs[1] = <<Low(a, half) + Low(b, half), a, b>> BY <2>5 DEF HalfSum
    <3> DEFINE z == Low(a, half) + Low(b, half)
               c == regs[1]
    <3>2. c = <<z, a, b>> BY <3>1
    <3>3. (Sra(a, half) + Sra(b, half) + Sra(z, half)) * 2^half + Low(z, half) = a + b BY <2>4, SplitAdd
    <3>4. t = Wrap((Sra(c[2], half) + Sra(c[3], half) + Sra(c[1], half)) * 2^half + Low(c[1], half), w) OBVIOUS
    <3> HIDE DEF z, c, half, w
    <3>5. c[1] = z /\ c[2] = a /\ c[3] = b BY <3>2
    <3> QED BY <3>3, <3>4, <3>5
  <2>6. HalfSum(p, g, x, y) BY DEF HalfSum
  <2> HIDE DEF q, w, g, t
  <2>2. q[1] = g /\ q[2] = t BY <2>1
  <2>3. q = [i \in 1..2 |-> q[i]] BY <2>1
  <2> QED BY <1>3, <2>2, <2>3, <2>5, <2>6 DEF IsChain
<1> QED BY <1>1, <1>2, <1>3

\* The rows of registers, of the lengths the widths give.
RequantKept(p, s) ==
  /\ IsChain(s.pp, Terms(p))
  /\ \A k \in 1..Levels(p) : /\ DOMAIN s.tree[k] = 1..Nodes(p, k)
                             /\ \A n \in 1..Nodes(p, k) : IsChain(s.tree[k][n], p.per_add)
  /\ IsChain(s.summed, p.per_add)
  /\ IsChain(s.hf, 1 + Levels(p) * p.per_add)
  /\ IsChain(s.sh, 1 + Levels(p) * p.per_add + p.per_add)

\* A level of the tree holds its nodes, or the halves of their sums.
RowRight(p, s, x, k) ==
  IF k = 0 THEN s.pp = [t \in 1..Terms(p) |-> Node(p, x, 0, t)]
  ELSE \A n \in 1..Nodes(p, k) : s.tree[k][n][p.per_add] = Node(p, x, k, n)

HalfRight(p, s, x, k) ==
  \A n \in 1..Nodes(p, k) :
    IF 2 * n <= Nodes(p, k - 1)
    THEN HalfSum(p, s.tree[k][n][1], Node(p, x, k - 1, 2 * n - 1), Node(p, x, k - 1, 2 * n))
    ELSE s.tree[k][n][1] = Node(p, x, k, n)

\* What a level of the tree takes.
From(p, s, k) == IF k = 1 THEN s.pp ELSE Ends(s.tree[k - 1])

LEMMA RowLength ==
  ASSUME NEW n \in Nat \ {0}, NEW c, IsChain(c, n) PROVE Len(c) = n /\ Last(c) = c[n]
<1> DEFINE S == {c[i] : i \in 1..n}
<1>1. c \in [1..n -> S] BY DEF IsChain
<1> HIDE DEF S
<1>2. c \in Seq(S) /\ Len(c) = n BY <1>1
<1> QED BY <1>2 DEF Last

LEMMA FromIs ==
  ASSUME NEW p, IsRequant(p), NEW s, RequantKept(p, s), NEW k \in 1..(Levels(p) + 1)
  PROVE  /\ IsChain(From(p, s, k), Nodes(p, k - 1))
         /\ \A x : RowRight(p, s, x, k - 1) =>
              \A n \in 1..Nodes(p, k - 1) : From(p, s, k)[n] = Node(p, x, k - 1, n)
<1>0. Levels(p) \in Nat \ {0} /\ p.per_add \in {1, 2} BY DEF IsRequant
<1>1. CASE k = 1
  <2>1. Nodes(p, k - 1) = Terms(p) BY <1>1, NodeCounts
  <2>2. From(p, s, k) = s.pp BY <1>1 DEF From
  <2>3. k - 1 = 0 BY <1>1
  <2> QED BY <2>1, <2>2, <2>3 DEF RequantKept, RowRight
<1>2. CASE k # 1
  <2> DEFINE j == k - 1
             t == s.tree[j]
             N == Nodes(p, j)
  <2>1. j \in 1..Levels(p) /\ j # 0 BY <1>0, <1>2
  <2>2. DOMAIN t = 1..N /\ \A n \in 1..N : IsChain(t[n], p.per_add) BY <2>1 DEF RequantKept
  <2>3. From(p, s, k) = [n \in 1..N |-> Last(t[n])] BY <1>2, <2>2 DEF From, Ends
  <2>4. \A n \in 1..N : Last(t[n]) = t[n][p.per_add]
    <3> HIDE DEF t, N
    <3> SUFFICES ASSUME NEW n \in 1..N PROVE Last(t[n]) = t[n][p.per_add] OBVIOUS
    <3>1. IsChain(t[n], p.per_add) /\ p.per_add \in Nat \ {0} BY <2>2, <1>0
    <3> QED BY <3>1, RowLength
  <2>5. ASSUME NEW x, RowRight(p, s, x, j) PROVE \A n \in 1..N : t[n][p.per_add] = Node(p, x, j, n)
    BY <2>1, <2>5 DEF RowRight
  <2> HIDE DEF t, N
  <2>6. IsChain(From(p, s, k), N) BY <2>3 DEF IsChain
  <2>7. \A n \in 1..N : From(p, s, k)[n] = t[n][p.per_add] BY <2>3, <2>4
  <2> HIDE DEF j
  <2> QED BY <2>5, <2>6, <2>7 DEF N, j
<1> QED BY <1>1, <1>2

LEMMA OddCount ==
  ASSUME NEW p, IsRequant(p), NEW k \in Nat, NEW n \in 1..Nodes(p, k + 1), ~(2 * n <= Nodes(p, k))
  PROVE  Nodes(p, k) = 2 * n - 1
<1> DEFINE m == Nodes(p, k)
           h == CeilDiv(m, 2)
<1>1. m \in Nat \ {0} /\ Nodes(p, k + 1) = h BY NodeCounts
<1>2. h \in Nat /\ h * 2 < m + 2 
  <2> HIDE DEF m
  <2> QED BY <1>1, CeilQuotient
<1> HIDE DEF m, h
<1>3. n \in 1..h /\ ~(2 * n <= m) BY <1>1 DEF m
<1>4. m = 2 * n - 1 BY <1>1, <1>2, <1>3
<1> QED BY <1>4 DEF m

\* A level of the tree after an edge: node by node, an adder or registers
\* that let an odd node past.
LEMMA LevelMoves ==
  ASSUME NEW p, IsRequant(p), NEW s, RequantKept(p, s), NEW k \in 1..Levels(p)
  PROVE  LET q == Level(p, s.tree[k], From(p, s, k))
             N == Nodes(p, k)
             M == Nodes(p, k - 1)
             f == From(p, s, k)
         IN  /\ DOMAIN q = 1..N
             /\ \A n \in 1..N : IsChain(q[n], p.per_add)
             /\ \A n \in 1..N : 2 * n <= M => q[n] = Adds(p, s.tree[k][n], f[2 * n - 1], f[2 * n])
             /\ \A n \in 1..N : ~(2 * n <= M) =>
                  \A i \in 1..p.per_add : q[n][i] = Entered(s.tree[k][n], f[2 * n - 1], i)
<1> DEFINE f == From(p, s, k)
           t == s.tree[k]
           q == Level(p, t, f)
           N == Nodes(p, k)
           M == Nodes(p, k - 1)
<1> SUFFICES /\ DOMAIN q = 1..N
             /\ \A n \in 1..N : IsChain(q[n], p.per_add)
             /\ \A n \in 1..N : 2 * n <= M => q[n] = Adds(p, s.tree[k][n], f[2 * n - 1], f[2 * n])
             /\ \A n \in 1..N : ~(2 * n <= M) =>
                  \A i \in 1..p.per_add : q[n][i] = Entered(s.tree[k][n], f[2 * n - 1], i)
  OBVIOUS
<1>0. Levels(p) \in Nat \ {0} /\ p.per_add \in Nat \ {0} BY DEF IsRequant
<1>1. DOMAIN t = 1..N /\ \A n \in 1..N : IsChain(t[n], p.per_add) BY DEF RequantKept
<1>2. k \in 1..(Levels(p) + 1) /\ k - 1 \in Nat /\ (k - 1) + 1 = k BY <1>0
<1>3. IsChain(f, M) BY <1>2, FromIs
<1>4. M \in Nat \ {0} BY <1>2, NodeCounts
<1>5. Len(f) = M /\ Last(f) = f[M]
  <2> HIDE DEF f, M
  <2> QED BY <1>3, <1>4, RowLength
<1>6. q = [n \in 1..N |-> IF 2 * n <= M THEN Adds(p, t[n], f[2 * n - 1], f[2 * n]) ELSE Shifted(t[n], Last(f))]
  BY <1>1, <1>5 DEF Level
<1>7. ASSUME NEW n \in 1..N, ~(2 * n <= M) PROVE M = 2 * n - 1
  <2> DEFINE j == k - 1
  <2>1. j \in Nat /\ n \in 1..Nodes(p, j + 1) /\ ~(2 * n <= Nodes(p, j)) BY <1>2, <1>7
  <2> HIDE DEF j
  <2>2. Nodes(p, j) = 2 * n - 1 BY <2>1, OddCount
  <2> QED BY <2>2 DEF j
<1> HIDE DEF q, M
<1>8. ASSUME NEW n \in 1..N
      PROVE  /\ IsChain(q[n], p.per_add)
             /\ 2 * n <= M => q[n] = Adds(p, t[n], f[2 * n - 1], f[2 * n])
             /\ ~(2 * n <= M) => \A i \in 1..p.per_add : q[n][i] = Entered(t[n], f[2 * n - 1], i)
  <2>1. CASE 2 * n <= M
    <3>1. q[n] = Adds(p, t[n], f[2 * n - 1], f[2 * n]) BY <2>1, <1>6
    <3>2. IsChain(Adds(p, t[n], f[2 * n - 1], f[2 * n]), p.per_add) BY AddsRight
    <3> QED BY <2>1, <3>1, <3>2
  <2>2. CASE ~(2 * n <= M)
    <3> DEFINE c == t[n]
               e == f[2 * n - 1]
    <3>1. q[n] = Shifted(c, e) BY <2>2, <1>5, <1>6, <1>7
    <3>2. IsChain(c, p.per_add) BY <1>1
    <3> HIDE DEF c, e
    <3>3. IsChain(Shifted(c, e), p.per_add) /\ \A i \in 1..p.per_add : Shifted(c, e)[i] = Entered(c, e, i)
      BY <3>2, <1>0, ChainMoves
    <3> QED BY <2>2, <3>1, <3>3 DEF c, e
  <2> QED BY <2>1, <2>2
<1>9. DOMAIN q = 1..N BY <1>6
<1> QED BY <1>8, <1>9

\* The next row, from one that holds a sample's nodes.
LEMMA RowMoves ==
  ASSUME NEW p, IsRequant(p), NEW s, RequantKept(p, s), NEW x, IsSample(p, x), NEW k \in 1..Levels(p), NEW q,
         q.tree[k] = Level(p, s.tree[k], From(p, s, k))
  PROVE  /\ RowRight(p, s, x, k - 1) /\ p.per_add = 1 => RowRight(p, q, x, k)
         /\ RowRight(p, s, x, k - 1) /\ p.per_add = 2 => HalfRight(p, q, x, k)
         /\ HalfRight(p, s, x, k) /\ p.per_add = 2 => RowRight(p, q, x, k)
<1> DEFINE f == From(p, s, k)
           t == s.tree[k]
           u == q.tree[k]
           N == Nodes(p, k)
           M == Nodes(p, k - 1)
           X(n) == Node(p, x, k - 1, n)
           Y(n) == Node(p, x, k, n)
           W == Width(p)
<1>0. Levels(p) \in Nat \ {0} /\ p.per_add \in {1, 2} BY DEF IsRequant
<1>2. k \in 1..(Levels(p) + 1) /\ k - 1 \in Nat /\ (k - 1) + 1 = k /\ k # 0 BY <1>0
<1>3. /\ \A n \in 1..N : 2 * n <= M => u[n] = Adds(p, t[n], f[2 * n - 1], f[2 * n])
      /\ \A n \in 1..N : ~(2 * n <= M) => \A i \in 1..p.per_add : u[n][i] = Entered(t[n], f[2 * n - 1], i)
  BY LevelMoves
<1>4. M \in Nat \ {0} /\ N \in Nat \ {0} BY <1>2, NodeCounts
<1>5. RowRight(p, s, x, k - 1) => \A n \in 1..M : f[n] = X(n) BY <1>2, FromIs
<1>6. ASSUME NEW n \in 1..N
      PROVE  /\ n \in Nat \ {0} /\ X(2 * n - 1) \in Int /\ X(2 * n) \in Int
             /\ Wrap(X(2 * n - 1) + X(2 * n), W) = Y(n)
  <2>1. n \in Nat \ {0} /\ 2 * n - 1 \in Nat \ {0} /\ 2 * n \in Nat \ {0} BY <1>4
  <2>2. X(2 * n - 1) \in Int BY <2>1, <1>2, NodeInt
  <2>3. X(2 * n) \in Int BY <2>1, <1>2, NodeInt
  <2>4. Wrap(X(2 * n - 1) + X(2 * n), W) = Y(n) BY <2>1, <1>2, NodePair
  <2> QED BY <2>1, <2>2, <2>3, <2>4
<1>7. ASSUME NEW n \in 1..N, ~(2 * n <= M) PROVE M = 2 * n - 1 /\ X(2 * n - 1) = Y(n)
  <2>1. n \in 1..Nodes(p, (k - 1) + 1) BY <1>2
  <2> QED BY <2>1, <1>2, <1>7, NodeOdd
<1>8. \A n \in 1..N : 2 * n <= M =>
        /\ p.per_add = 1 => u[n][1] = Wrap(f[2 * n - 1] + f[2 * n], W)
        /\ p.per_add = 2 => HalfSum(p, u[n][1], f[2 * n - 1], f[2 * n])
        /\ \A a, b \in Int : p.per_add = 2 /\ HalfSum(p, t[n][1], a, b) => u[n][2] = Wrap(a + b, W)
  <2> SUFFICES ASSUME NEW n \in 1..N, 2 * n <= M
               PROVE  /\ p.per_add = 1 => u[n][1] = Wrap(f[2 * n - 1] + f[2 * n], W)
                      /\ p.per_add = 2 => HalfSum(p, u[n][1], f[2 * n - 1], f[2 * n])
                      /\ \A a, b \in Int : p.per_add = 2 /\ HalfSum(p, t[n][1], a, b) => u[n][2] = Wrap(a + b, W)
    OBVIOUS
  <2>1. u[n] = Adds(p, t[n], f[2 * n - 1], f[2 * n]) BY <1>3
  <2> QED BY <2>1, AddsRight
<1>9. \A z, k2 : k2 # 0 => (RowRight(p, z, x, k2) <=> \A n \in 1..Nodes(p, k2) : z.tree[k2][n][p.per_add] = Node(p, x, k2, n))
  BY DEF RowRight
<1>10. RowRight(p, q, x, k) <=> \A n \in 1..N : u[n][p.per_add] = Y(n) BY <1>2, <1>9
<1>11. \A z : HalfRight(p, z, x, k) <=>
         \A n \in 1..N : IF 2 * n <= M THEN HalfSum(p, z.tree[k][n][1], X(2 * n - 1), X(2 * n))
                         ELSE z.tree[k][n][1] = Y(n)
  BY DEF HalfRight
<1>12. HalfRight(p, s, x, k) <=>
         \A n \in 1..N : IF 2 * n <= M THEN HalfSum(p, t[n][1], X(2 * n - 1), X(2 * n)) ELSE t[n][1] = Y(n)
  BY <1>11
<1>13. HalfRight(p, q, x, k) <=>
         \A n \in 1..N : IF 2 * n <= M THEN HalfSum(p, u[n][1], X(2 * n - 1), X(2 * n)) ELSE u[n][1] = Y(n)
  BY <1>11
<1> HIDE DEF f, t, u, N, M, X, Y, W
<1>14. ASSUME RowRight(p, s, x, k - 1), NEW n \in 1..N
       PROVE  /\ 2 * n <= M => f[2 * n - 1] = X(2 * n - 1) /\ f[2 * n] = X(2 * n)
              /\ ~(2 * n <= M) => f[2 * n - 1] = Y(n)
  <2>1. n \in Nat \ {0} BY <1>6
  <2>2. ASSUME 2 * n <= M PROVE f[2 * n - 1] = X(2 * n - 1) /\ f[2 * n] = X(2 * n)
    <3>1. 2 * n - 1 \in 1..M /\ 2 * n \in 1..M BY <2>1, <2>2, <1>4
    <3> QED BY <3>1, <1>5, <1>14
  <2>3. ASSUME ~(2 * n <= M) PROVE f[2 * n - 1] = Y(n)
    <3>1. M = 2 * n - 1 /\ X(2 * n - 1) = Y(n) BY <2>3, <1>7
    <3>2. 2 * n - 1 \in 1..M BY <3>1, <2>1, <1>4
    <3> QED BY <3>1, <3>2, <1>5, <1>14
  <2> QED BY <2>2, <2>3
<1>15. ASSUME RowRight(p, s, x, k - 1), p.per_add = 1 PROVE RowRight(p, q, x, k)
  <2>1. ASSUME NEW n \in 1..N PROVE u[n][1] = Y(n)
    <3>1. CASE 2 * n <= M BY <3>1, <1>6, <1>8, <1>14, <1>15
    <3>2. CASE ~(2 * n <= M)
      <4>1. 1 \in 1..p.per_add BY <1>15
      <4>2. u[n][1] = f[2 * n - 1] BY <3>2, <4>1, <1>3 DEF Entered
      <4> QED BY <3>2, <4>2, <1>14, <1>15
    <3> QED BY <3>1, <3>2
  <2> QED BY <2>1, <1>10, <1>15
<1>16. ASSUME RowRight(p, s, x, k - 1), p.per_add = 2 PROVE HalfRight(p, q, x, k)
  <2>1. ASSUME NEW n \in 1..N
        PROVE  IF 2 * n <= M THEN HalfSum(p, u[n][1], X(2 * n - 1), X(2 * n)) ELSE u[n][1] = Y(n)
    <3>1. CASE 2 * n <= M
      <4>1. HalfSum(p, u[n][1], f[2 * n - 1], f[2 * n]) BY <3>1, <1>8, <1>16
      <4>2. f[2 * n - 1] = X(2 * n - 1) /\ f[2 * n] = X(2 * n) BY <3>1, <1>14, <1>16
      <4> QED BY <3>1, <4>1, <4>2
    <3>2. CASE ~(2 * n <= M)
      <4>1. 1 \in 1..p.per_add BY <1>16
      <4>2. u[n][1] = f[2 * n - 1] BY <3>2, <4>1, <1>3 DEF Entered
      <4> QED BY <3>2, <4>2, <1>14, <1>16
    <3> QED BY <3>1, <3>2
  <2> QED BY <2>1, <1>13
<1>17. ASSUME HalfRight(p, s, x, k), p.per_add = 2 PROVE RowRight(p, q, x, k)
  <2>1. ASSUME NEW n \in 1..N PROVE u[n][2] = Y(n)
    <3>1. CASE 2 * n <= M
      <4>1. HalfSum(p, t[n][1], X(2 * n - 1), X(2 * n)) BY <3>1, <1>12, <1>17
      <4>2. u[n][2] = Wrap(X(2 * n - 1) + X(2 * n), W) BY <3>1, <4>1, <1>6, <1>8, <1>17
      <4> QED BY <4>2, <1>6
    <3>2. CASE ~(2 * n <= M)
      <4>1. 2 \in 1..p.per_add /\ 2 - 1 = 1 BY <1>17
      <4>2. u[n][2] = t[n][1] BY <3>2, <4>1, <1>3 DEF Entered
      <4>3. t[n][1] = Y(n) BY <3>2, <1>12, <1>17
      <4> QED BY <4>2, <4>3
    <3> QED BY <3>1, <3>2
  <2> QED BY <2>1, <1>10, <1>17
<1> QED BY <1>15, <1>16, <1>17

\* What an edge does, register by register.
LEMMA RequantEdge ==
  ASSUME NEW p, IsRequant(p), NEW s, RequantKept(p, s), NEW in
  PROVE  LET q == requant(p, s, in)
             top == 1 + Levels(p) * p.per_add
         IN  /\ q.pp = Products(p, in.acc_in, in.scale)
             /\ \A k \in 1..Levels(p) : q.tree[k] = Level(p, s.tree[k], From(p, s, k))
             /\ q.summed = Adds(p, s.summed, From(p, s, Levels(p) + 1)[1], s.hf[top])
             /\ q.shifted = Sra(s.summed[p.per_add], s.sh[top + p.per_add])
             /\ \A i \in 1..top : q.hf[i] = Entered(s.hf, Wrap(Half(in.shift), Width(p)), i)
             /\ \A i \in 1..(top + p.per_add) : q.sh[i] = Entered(s.sh, in.shift, i)
             /\ q.q_out = Clamp(s.shifted, p.out_width) /\ q.sat = (q.q_out # s.shifted)
             /\ RequantKept(p, q)
<1> DEFINE q == requant(p, s, in)
           L == Levels(p)
           a == p.per_add
           top == 1 + L * a
           n == top + a
           e == Wrap(Half(in.shift), Width(p))
           g == in.shift
<1> SUFFICES /\ q.pp = Products(p, in.acc_in, in.scale)
             /\ \A k \in 1..L : q.tree[k] = Level(p, s.tree[k], From(p, s, k))
             /\ q.summed = Adds(p, s.summed, From(p, s, L + 1)[1], s.hf[top])
             /\ q.shifted = Sra(s.summed[a], s.sh[n])
             /\ \A i \in 1..top : q.hf[i] = Entered(s.hf, e, i)
             /\ \A i \in 1..n : q.sh[i] = Entered(s.sh, g, i)
             /\ q.q_out = Clamp(s.shifted, p.out_width) /\ q.sat = (q.q_out # s.shifted)
             /\ RequantKept(p, q)
  OBVIOUS
<1>0. L \in Nat \ {0} /\ a \in {1, 2} /\ L * a \in Nat BY DEF IsRequant
<1> HIDE DEF L, a
<1>1. top \in Nat \ {0} /\ n \in Nat \ {0} /\ a \in Nat \ {0} BY <1>0
<1>2. IsChain(s.summed, a) /\ IsChain(s.hf, top) /\ IsChain(s.sh, n) BY DEF RequantKept, L, a
<1>3. /\ q.pp = Products(p, in.acc_in, in.scale)
      /\ q.tree = [k \in 1..L |-> Level(p, s.tree[k], From(p, s, k))]
      /\ q.summed = Adds(p, s.summed, From(p, s, L + 1)[1], Last(s.hf))
      /\ q.shifted = Sra(Last(s.summed), Last(s.sh))
      /\ q.hf = Shifted(s.hf, e) /\ q.sh = Shifted(s.sh, g)
      /\ q.q_out = Clamp(s.shifted, p.out_width) /\ q.sat = (q.q_out # s.shifted)
  <2> DEFINE from == [k \in 1..(Levels(p) + 1) |-> IF k = 1 THEN s.pp ELSE Ends(s.tree[k - 1])]
  <2>1. \A k \in 1..(L + 1) : from[k] = From(p, s, k) BY DEF From, L
  <2>2. /\ q.pp = Products(p, in.acc_in, in.scale)
        /\ q.tree = [k \in 1..L |-> Level(p, s.tree[k], from[k])]
        /\ q.summed = Adds(p, s.summed, from[L + 1][1], Last(s.hf))
        /\ q.shifted = Sra(Last(s.summed), Last(s.sh))
        /\ q.hf = Shifted(s.hf, e) /\ q.sh = Shifted(s.sh, g)
        /\ q.q_out = Clamp(s.shifted, p.out_width) /\ q.sat = (q.q_out # s.shifted)
    BY DEF requant, L
  <2> HIDE DEF q, from
  <2>3. L + 1 \in 1..(L + 1) /\ \A k \in 1..L : k \in 1..(L + 1) BY <1>0
  <2> QED BY <2>1, <2>2, <2>3
<1> HIDE DEF q, top, n, e, g
<1>4. Last(s.summed) = s.summed[a] BY <1>1, <1>2, ChainMoves
<1>5. /\ IsChain(q.hf, top) /\ Last(s.hf) = s.hf[top]
      /\ \A i \in 1..top : q.hf[i] = Entered(s.hf, e, i)
  BY <1>1, <1>2, <1>3, ChainMoves
<1>6. /\ IsChain(q.sh, n) /\ Last(s.sh) = s.sh[n]
      /\ \A i \in 1..n : q.sh[i] = Entered(s.sh, g, i)
  BY <1>1, <1>2, <1>3, ChainMoves
<1>7. RequantKept(p, q)
  <2>1. IsChain(q.pp, Terms(p)) BY <1>3 DEF Products, Terms, IsChain
  <2>2. IsChain(q.summed, a) BY <1>3, AddsRight DEF a
  <2>3. ASSUME NEW k \in 1..L
        PROVE  DOMAIN q.tree[k] = 1..Nodes(p, k) /\ \A j \in 1..Nodes(p, k) : IsChain(q.tree[k][j], a)
    <3>1. q.tree[k] = Level(p, s.tree[k], From(p, s, k)) BY <1>3
    <3> QED BY <3>1, LevelMoves DEF L, a
  <2> QED BY <2>1, <2>2, <2>3, <1>5, <1>6 DEF RequantKept, top, n, L, a
<1> QED BY <1>3, <1>4, <1>5, <1>6, <1>7

LEMMA RequantResets == \A p : IsRequant(p) => RequantKept(p, requant_reset(p))
<1> SUFFICES ASSUME NEW p, IsRequant(p) PROVE RequantKept(p, requant_reset(p)) OBVIOUS
<1> DEFINE q == requant_reset(p)
           T == Terms(p)
           L == Levels(p)
           a == p.per_add
           B(k) == CeilDiv(T, 2^(k - 1))
<1>0. L \in Nat \ {0} /\ a \in {1, 2} BY DEF IsRequant
<1>1. /\ q.pp = [i \in 1..T |-> 0] /\ q.summed = Adder(p)
      /\ q.tree = [k \in 1..L |-> [i \in 1..CeilDiv(B(k), 2) |-> IF 2 * i <= B(k) THEN Adder(p) ELSE Past(p)]]
      /\ q.hf = [i \in 1..(1 + L * a) |-> 0] /\ q.sh = [i \in 1..(1 + L * a + a) |-> 0]
  BY DEF requant_reset, Chain, Terms, TreeDepth
<1>2. IsChain(Adder(p), a) /\ IsChain(Past(p), a)
  <2>1. CASE a = 1
    <3>1. Adder(p) = <<0>> /\ Past(p) = [i \in 1..1 |-> 0] BY <2>1 DEF Adder, Past, Chain
    <3>2. <<0>> = [i \in 1..1 |-> <<0>>[i]] OBVIOUS
    <3> HIDE DEF a
    <3> QED BY <2>1, <3>1, <3>2 DEF IsChain
  <2>2. CASE a = 2
    <3> DEFINE z == <<0, 0, 0>>
    <3>1. Adder(p) = <<z, 0>> /\ Past(p) = [i \in 1..2 |-> 0] BY <2>2 DEF Adder, Past, Chain
    <3> HIDE DEF z, a
    <3>2. <<z, 0>> = [i \in 1..2 |-> <<z, 0>>[i]] OBVIOUS
    <3> QED BY <2>2, <3>1, <3>2 DEF IsChain
  <2> QED BY <1>0, <2>1, <2>2
<1>3. ASSUME NEW k \in 1..L
      PROVE  DOMAIN q.tree[k] = 1..Nodes(p, k) /\ \A j \in 1..Nodes(p, k) : IsChain(q.tree[k][j], a)
  <2> DEFINE b == B(k)
             N == Nodes(p, k)
  <2>1. CeilDiv(b, 2) = N
    <3> DEFINE j == k - 1
    <3>1. j \in Nat /\ j + 1 = k BY <1>0
    <3>2. Nodes(p, j) = b BY DEF Nodes
    <3> HIDE DEF j, b
    <3>3. Nodes(p, j + 1) = CeilDiv(Nodes(p, j), 2) BY <3>1, NodeCounts
    <3> QED BY <3>1, <3>2, <3>3
  <2>2. q.tree[k] = [i \in 1..CeilDiv(b, 2) |-> IF 2 * i <= b THEN Adder(p) ELSE Past(p)] BY <1>1
  <2> HIDE DEF b, N, q
  <2>3. q.tree[k] = [i \in 1..N |-> IF 2 * i <= b THEN Adder(p) ELSE Past(p)] BY <2>1, <2>2
  <2>4. DOMAIN q.tree[k] = 1..N /\ \A j \in 1..N : q.tree[k][j] \in {Adder(p), Past(p)} BY <2>3
  <2> QED BY <2>4, <1>2 DEF N
<1>4. IsChain(q.pp, T) /\ IsChain(q.hf, 1 + L * a) /\ IsChain(q.sh, 1 + L * a + a) BY <1>1 DEF IsChain
<1>5. IsChain(q.summed, a) BY <1>1, <1>2
<1> HIDE DEF q
<1> QED BY <1>3, <1>4, <1>5 DEF RequantKept, q

=============================================================================
