--------------------------- MODULE NaturalLemmas ---------------------------
(* Facts about natural numbers that the proofs share.                      *)
EXTENDS Integers, NaturalsInduction, WellFoundedInduction, TLAPS

(* A non-empty set of natural numbers has a least member.                  *)
LEMMA LeastNatural ==
  ASSUME NEW S \in SUBSET Nat, S # {}
  PROVE  \E i \in S : \A j \in S : i <= j
<1>1. PICK i \in S : \A j \in S : ~ (<<j, i>> \in OpToRel(<, Nat))
  BY NatLessThanWellFounded, WFMin
<1>2. ASSUME NEW j \in S PROVE i <= j
  <2>1. i \in Nat /\ j \in Nat
    OBVIOUS
  <2>2. ~ (j < i)
    BY <1>1, <2>1 DEF OpToRel
  <2> QED BY <2>1, <2>2
<1> QED BY <1>2

(* What the quotient of a division is.                                     *)
LEMMA Quotient ==
  ASSUME NEW a \in Nat, NEW d \in Nat \ {0}
  PROVE  a \div d \in Nat /\ d * (a \div d) <= a /\ a < d * (a \div d) + d
OBVIOUS

(* Multiplication is monotonic.                                            *)
LEMMA TimesMonotonic ==
  ASSUME NEW a \in Nat, NEW b \in Nat, NEW d \in Nat, a <= b
  PROVE  d * a <= d * b
OBVIOUS

(* An address below n pages lies in one of the n pages.                    *)
LEMMA QuotientBound ==
  ASSUME NEW a \in Nat, NEW n \in Nat, NEW d \in Nat \ {0}, a < d * n
  PROVE  a \div d < n
<1>1. a \div d \in Nat /\ d * (a \div d) <= a
  BY Quotient
<1>2. ASSUME a \div d >= n PROVE FALSE
  <2>1. d * n <= d * (a \div d)
    BY <1>1, <1>2, TimesMonotonic
  <2>2. d * n \in Int /\ d * (a \div d) \in Int
    BY <1>1
  <2> QED BY <2>1, <2>2, <1>1
<1> QED BY <1>1, <1>2

(* Multiples of d are at least d apart.                                    *)
LEMMA Multiples ==
  ASSUME NEW x \in Int, NEW d \in Nat \ {0}
  PROVE  (x >= 1 => d * x >= d) /\ (x <= -1 => d * x <= -d)
OBVIOUS

(* Multiplication distributes over a difference.                           *)
LEMMA Distribute ==
  ASSUME NEW d \in Int, NEW a \in Int, NEW b \in Int, NEW m \in Int
  PROVE  /\ (d * a + m) - d * b = d * (a - b) + m
         /\ d * a - d * b = d * (a - b)
OBVIOUS

(* Division with remainder.                                                *)
LEMMA Division ==
  ASSUME NEW a \in Int, NEW d \in Nat \ {0}
  PROVE  a \div d \in Int /\ a % d \in 0 .. d - 1 /\ a = d * (a \div d) + (a % d)
OBVIOUS

(* Division of a natural number with remainder.                            *)
LEMMA DivisionNat ==
  ASSUME NEW a \in Nat, NEW d \in Nat \ {0}
  PROVE  a \div d \in Nat /\ a % d \in 0 .. d - 1 /\ a = d * (a \div d) + (a % d)
<1>1. a \div d \in Nat
  BY Quotient
<1>2. a \in Int
  OBVIOUS
<1>3. a % d \in 0 .. d - 1 /\ a = d * (a \div d) + (a % d)
  BY ONLY <1>2, d \in Nat \ {0}, Division, Zenon
<1> QED BY ONLY <1>1, <1>3, Zenon

(* A number without remainder is a multiple.                               *)
LEMMA WholeMultiple ==
  ASSUME NEW a \in Int, NEW d \in Nat \ {0}, a % d = 0
  PROVE  a \div d \in Int /\ a = d * (a \div d)
<1>1. a \div d \in Int /\ a = d * (a \div d) + 0
  BY Division
<1> QED BY <1>1

(* Quotient and remainder are the only ones.                               *)
LEMMA DivisionUnique ==
  ASSUME NEW a \in Int, NEW d \in Nat \ {0}, NEW q \in Int, NEW m \in 0 .. d - 1,
         a = d * q + m
  PROVE  a \div d = q /\ a % d = m
<1> DEFINE p == a \div d
           k == a % d
<1>1. p \in Int /\ k \in 0 .. d - 1 /\ a = d * p + k
  BY Division
<1> HIDE DEF p, k
<1>2. d * (q - p) = k - m
  <2>1. d * (q - p) = d * q - d * p
    BY <1>1
  <2>2. d * q \in Int /\ d * p \in Int
    BY <1>1
  <2> QED BY <1>1, <2>1, <2>2
<1>3. q - p \in Int
  BY <1>1
<1>4. ~ (q - p >= 1) /\ ~ (q - p <= -1)
  BY <1>1, <1>2, <1>3, Multiples
<1>5. q = p
  BY <1>1, <1>3, <1>4
<1>6. m = k
  BY <1>1, <1>2, <1>5
<1> QED BY <1>5, <1>6 DEF p, k

(* The offset within a page is kept when addresses wrap around at a whole  *)
(* number of pages.                                                        *)
LEMMA WrapPages ==
  ASSUME NEW q \in Int, NEW d \in Nat \ {0}, NEW n \in Nat \ {0}, NEW m \in 0 .. d - 1
  PROVE  (d * q + m) % (d * n) = d * (q % n) + m
<1> DEFINE c == q \div n
           e == q % n
           whole == d * n
           a == d * q + m
           r == d * e + m
<1>1. c \in Int /\ e \in 0 .. n - 1 /\ q = n * c + e
  OBVIOUS
<1> HIDE DEF c, e
<1>2. a = whole * c + r
  BY <1>1
<1>3. r \in 0 .. whole - 1
  <2>1. n - e >= 1 /\ n - e \in Int
    BY <1>1
  <2>2. d * (n - e) >= d
    BY <2>1, Multiples
  <2>3. d * (n - e) = d * n - d * e
    BY <1>1
  <2>4. d * n \in Nat /\ d * e \in Nat
    BY <1>1
  <2> QED BY <2>2, <2>3, <2>4
<1>4. whole \in Nat \ {0} /\ a \in Int
  BY Multiples
<1> HIDE DEF whole, a, r
<1>5. a % whole = r
  BY <1>1, <1>2, <1>3, <1>4, DivisionUnique
<1> QED BY <1>5 DEF whole, a, r, e

(* The same for the start of a page.                                       *)
LEMMA WrapWholePages ==
  ASSUME NEW q \in Int, NEW d \in Nat \ {0}, NEW n \in Nat \ {0}
  PROVE  (d * q) % (d * n) = d * (q % n)
<1>1. (d * q + 0) % (d * n) = d * (q % n) + 0
  <2>1. 0 \in 0 .. d - 1
    OBVIOUS
  <2> QED BY ONLY <2>1, WrapPages, Zenon
<1>2. d * q + 0 = d * q /\ q % n \in Int
  OBVIOUS
<1> QED BY <1>1, <1>2

(* A counter that wraps counts modulo its width.                           *)
LEMMA WrapSuccessor ==
  ASSUME NEW a \in Nat, NEW d \in Nat \ {0}
  PROVE  ((a % d) + 1) % d = (a + 1) % d
<1> DEFINE q == a \div d
           m == a % d
<1>1. q \in Nat /\ m \in 0 .. d - 1 /\ a = d * q + m
  BY DivisionNat
<1>2. CASE m + 1 < d
  <2>1. m + 1 \in 0 .. d - 1 /\ a + 1 \in Int /\ a + 1 = d * q + (m + 1) /\ m + 1 = d * 0 + (m + 1) /\ m + 1 \in Int
    <3> HIDE DEF q, m
    <3> QED BY <1>1, <1>2
  <2>2. q \in Int /\ 0 \in Int
    BY <1>1
  <2> HIDE DEF q, m
  <2>3. (a + 1) % d = m + 1 /\ (m + 1) % d = m + 1
    BY ONLY <2>1, <2>2, d \in Nat \ {0}, DivisionUnique, Zenon
  <2> QED BY <2>3 DEF m
<1>3. CASE ~(m + 1 < d)
  <2> HIDE DEF q, m
  <2>1. m + 1 = d
    BY <1>1, <1>3
  <2>2. a + 1 = d * q + d
    BY <1>1, <2>1
  <2>3. d * q + d = d * (q + 1) + 0 /\ d = d * 1 + 0
    BY <1>1
  <2>4. 0 \in 0 .. d - 1 /\ a + 1 \in Int /\ d \in Int /\ q + 1 \in Int /\ 1 \in Int
    BY <1>1
  <2>5. (a + 1) % d = 0 /\ d % d = 0
    <3>1. a + 1 = d * (q + 1) + 0
      BY <2>2, <2>3
    <3>2. (a + 1) % d = 0
      BY ONLY <3>1, <2>4, d \in Nat \ {0}, DivisionUnique, Zenon
    <3>3. d % d = 0
      OBVIOUS
    <3> QED BY <3>2, <3>3
  <2> QED BY <2>1, <2>5 DEF m
<1> QED BY <1>2, <1>3

(* A larger number has no smaller quotient.                                *)
LEMMA QuotientMonotonic ==
  ASSUME NEW a \in Nat, NEW b \in Nat, NEW d \in Nat \ {0}, a <= b
  PROVE  a \div d <= b \div d
<1> DEFINE q == b \div d
<1>1. q \in Nat /\ b < d * q + d /\ a \div d \in Nat
  BY Quotient
<1> HIDE DEF q
<1>2. a < d * (q + 1)
  BY <1>1
<1>3. a \div d < q + 1
  <2>1. q + 1 \in Nat
    BY <1>1
  <2> QED BY ONLY <1>2, <2>1, a \in Nat, d \in Nat \ {0}, QuotientBound, Zenon
<1>4. a \div d <= q
  <2> DEFINE p == a \div d
  <2>1. p \in Nat /\ p < q + 1
    BY <1>1, <1>3
  <2> HIDE DEF p
  <2>2. p <= q
    BY <1>1, <2>1
  <2> QED BY <2>2 DEF p
<1> QED BY <1>4 DEF q

(* What is left of an interval of c units of u, rounded up to units.       *)
LEMMA UnitsLeft ==
  ASSUME NEW c \in Nat, NEW u \in Nat \ {0}, NEW e \in Nat
  PROVE  ((c * u - e) + u - 1) \div u = c - (e \div u)
<1> DEFINE q == e \div u
           b == e % u
<1>1. q \in Nat /\ b \in 0 .. u - 1 /\ e = u * q + b
  BY DivisionNat
<1> HIDE DEF q, b
<1>2. u * (c - q) = u * c - u * q /\ c * u = u * c /\ u * c \in Int /\ u * q \in Int /\ u * (c - q) \in Int
  BY <1>1
<1>3. (c * u - e) + u - 1 = u * (c - q) + (u - 1 - b)
  <2> DEFINE uc == u * c
             uq == u * q
             ud == u * (c - q)
  <2>1. uc \in Int /\ uq \in Int /\ ud \in Int /\ ud = uc - uq /\ c * u = uc /\ e = uq + b
    BY <1>1, <1>2
  <2> HIDE DEF uc, uq, ud
  <2>2. (uc - e) + u - 1 = ud + (u - 1 - b)
    BY <1>1, <2>1
  <2> QED BY <1>2, <2>2 DEF uc, ud
<1>4. (c * u - e) + u - 1 \in Int /\ c - q \in Int /\ u - 1 - b \in 0 .. u - 1
  BY <1>1, <1>2
<1>5. ((c * u - e) + u - 1) \div u = c - q
  BY ONLY <1>3, <1>4, u \in Nat \ {0}, DivisionUnique, Zenon
<1> QED BY <1>5 DEF q

(* The same for an interval that is repeated: of the last of f + 1 of      *)
(* them, when e has passed since the first began.                          *)
LEMMA UnitsLeftRepeated ==
  ASSUME NEW c \in Nat \ {0}, NEW u \in Nat \ {0}, NEW e \in Nat, NEW f \in Nat,
         NEW left \in Int, left = (f + 1) * (c * u) - e
  PROVE  c - ((e \div u) % c) =
           IF left % (c * u) = 0 THEN c ELSE ((left % (c * u)) + u - 1) \div u
<1> DEFINE q == e \div u
           b == e % u
           k == q \div c
           a == q % c
           i == c * u
           r == u * a + b
<1>1. q \in Nat /\ b \in 0 .. u - 1 /\ e = u * q + b
  BY DivisionNat
<1>2. k \in Nat /\ a \in 0 .. c - 1 /\ q = c * k + a
  <2> HIDE DEF q
  <2> QED BY <1>1, DivisionNat
<1> HIDE DEF q, b, k, a
<1>3. i \in Nat \ {0} /\ r \in Nat
  BY <1>1, <1>2
<1>4. r < i
  <2>1. u * (a + 1) <= u * c
    BY <1>2
  <2>2. u * (a + 1) = u * a + u /\ u * c = i
    BY <1>2
  <2> QED BY <1>1, <1>2, <2>1, <2>2
<1>5. e = i * k + r
  <2>1. u * q = u * (c * k) + u * a
    BY <1>2
  <2>2. u * (c * k) = i * k
    BY <1>2
  <2>3. u * q = i * k + u * a /\ i * k \in Int /\ u * a \in Int
    BY <1>2, <1>3, <2>1, <2>2
  <2> DEFINE uq == u * q
             ik == i * k
             ua == u * a
  <2>4. uq = ik + ua /\ ik \in Int /\ ua \in Int /\ e = uq + b /\ r = ua + b
    BY <1>1, <2>3
  <2> HIDE DEF uq, ik, ua, r
  <2>5. e = ik + r
    BY <1>1, <2>4
  <2> QED BY <2>5 DEF ik
<1>6. left = i * (f + 1 - k) - r
  <2>1. (f + 1) * i = i * (f + 1) /\ i * (f + 1 - k) = i * (f + 1) - i * k
    <3> HIDE DEF i
    <3> QED BY <1>2, <1>3
  <2> HIDE DEF i, r
  <2>2. left = (f + 1) * i - e
    BY DEF i
  <2>3. i * (f + 1) \in Int /\ i * k \in Int
    BY <1>2, <1>3
  <2> QED BY <1>3, <1>5, <2>1, <2>2, <2>3
<1>7. CASE r = 0
  <2>1. left = i * (f + 1 - k) + 0 /\ f + 1 - k \in Int /\ 0 \in 0 .. i - 1
    BY <1>2, <1>3, <1>6, <1>7
  <2>2. left % i = 0
    <3> HIDE DEF i, r
    <3> QED BY ONLY <2>1, <1>3, left \in Int, DivisionUnique, Zenon
  <2>3. a = 0
    BY <1>1, <1>2, <1>7
  <2> QED BY <2>2, <2>3 DEF a, q
<1>8. CASE r # 0
  <2>1. i * (f + 1 - k) = i * (f - k) + i
    <3> HIDE DEF i
    <3> QED BY <1>2, <1>3
  <2>2. left = i * (f - k) + (i - r) /\ f - k \in Int /\ i - r \in 0 .. i - 1 /\ i - r # 0
    <3> HIDE DEF i, r
    <3>1. i * (f - k) \in Int
      BY <1>2, <1>3
    <3> QED BY <1>2, <1>3, <1>4, <1>6, <1>8, <2>1, <3>1
  <2>3. left % i = i - r
    <3> HIDE DEF i, r
    <3> QED BY ONLY <2>2, <1>3, left \in Int, DivisionUnique, Zenon
  <2>4. r \div u = a
    <3>1. r \in Int /\ a \in Int
      BY <1>2, <1>3
    <3>2. r = u * a + b
      OBVIOUS
    <3> HIDE DEF r
    <3> QED BY ONLY <3>1, <3>2, <1>1, u \in Nat \ {0}, DivisionUnique, Zenon
  <2>5. ((c * u - r) + u - 1) \div u = c - (r \div u)
    <3> HIDE DEF r
    <3> QED BY <1>3, UnitsLeft
  <2> QED BY <2>2, <2>3, <2>4, <2>5 DEF a, q
<1> QED BY <1>7, <1>8

(* The powers of two that a shift by three bits makes.                     *)
LEMMA PowerOfTwo ==
  ASSUME NEW n \in 0..7
  PROVE  2 ^ n \in Nat \ {0}
<1> DEFINE P == Nat \ {0}
<1>1. n = 0 \/ n = 1 \/ n = 2 \/ n = 3 \/ n = 4 \/ n = 5 \/ n = 6 \/ n = 7
  OBVIOUS
<1>2. 2 ^ 0 \in P /\ 2 ^ 1 \in P /\ 2 ^ 2 \in P /\ 2 ^ 3 \in P /\ 2 ^ 4 \in P /\ 2 ^ 5 \in P /\ 2 ^ 6 \in P /\ 2 ^ 7 \in P
  OBVIOUS
<1> HIDE DEF P
<1>3. 2 ^ n \in P
  BY ONLY <1>1, <1>2, Zenon
<1> QED BY <1>3 DEF P
=============================================================================
