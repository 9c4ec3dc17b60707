----------------------------- MODULE NumberLemmas -----------------------------
(***************************************************************************)
(* Facts about natural numbers that several proofs need.  LeastNumber also *)
(* serves for induction: the least number that violates a claim about a    *)
(* recursive function has a predecessor that satisfies it.  The last ones  *)
(* are about powers of two.                                                *)
(***************************************************************************)
EXTENDS Integers, WellFoundedInduction, TLAPS

\* Every set of natural numbers that is not empty has a least member.
LEMMA LeastNumber ==
    ASSUME NEW T, T \subseteq Nat, T # {}
    PROVE  \E x \in T : \A y \in T : x <= y
<1> DEFINE R == OpToRel(<, Nat)
<1>1. IsWellFoundedOn(R, Nat)
  BY NatLessThanWellFounded
<1>2. \A x, y \in Nat : x < y => <<x, y>> \in R
  BY DEF OpToRel
<1> HIDE DEF R
<1>3. PICK x \in T : \A y \in T : ~ (<<y, x>> \in R)
  BY <1>1, WFMin, Zenon
<1>4. ASSUME NEW y \in T PROVE x <= y
  <2>1. ~(y < x)
    BY <1>2, <1>3
  <2> QED  BY <2>1
<1> QED  BY <1>4

\* Induction up to n, with the set of the numbers for which a claim holds.
LEMMA UpTo ==
    ASSUME NEW n \in Nat, NEW T, 0 \in T, \A k \in 0 .. n - 1 : k \in T => k + 1 \in T
    PROVE  0 .. n \subseteq T
<1> SUFFICES ASSUME ~(0 .. n \subseteq T) PROVE FALSE
  OBVIOUS
<1> DEFINE Rest == (0 .. n) \ T
<1>1. PICK x \in Rest : \A y \in Rest : x <= y
  <2>1. Rest \subseteq Nat /\ Rest # {}
    OBVIOUS
  <2> QED  BY <2>1, LeastNumber
<1>2. x \in 1 .. n /\ x - 1 \in 0 .. n - 1 /\ (x - 1) + 1 = x
  BY <1>1
<1>3. x - 1 \in T
  <2>1. ~(x <= x - 1) /\ x - 1 \in 0 .. n
    BY <1>2
  <2> QED  BY <1>1, <2>1
<1> QED  BY <1>1, <1>2, <1>3

\* A set of natural numbers with an upper bound has a greatest member.
LEMMA GreatestNumber ==
    ASSUME NEW T, T \subseteq Nat, T # {}, NEW n \in Nat, \A x \in T : x <= n
    PROVE  \E x \in T : \A y \in T : y <= x
<1> DEFINE D == {n - x : x \in T}
<1>1. D \subseteq Nat /\ D # {}
  <2>1. \A x \in T : n - x \in Nat
    OBVIOUS
  <2> QED  BY <2>1
<1>2. PICK d \in D : \A e \in D : d <= e
  BY <1>1, LeastNumber
<1>3. PICK x \in T : d = n - x
  BY <1>2
<1>4. ASSUME NEW y \in T PROVE y <= x
  <2>1. n - y \in D /\ x \in Nat /\ y \in Nat
    OBVIOUS
  <2>2. n - x <= n - y
    BY <1>2, <1>3, <2>1
  <2> QED  BY <2>1, <2>2
<1> QED  BY <1>4

\* Adding a remainder is adding the number.
LEMMA AddRemainder ==
    ASSUME NEW w \in Nat \ {0}, NEW a \in Nat, NEW b \in Nat
    PROVE  (a + (b % w)) % w = (a + b) % w
<1> DEFINE q == b \div w
           r == b % w
           q1 == (a + r) \div w
           r1 == (a + r) % w
           q2 == (a + b) \div w
           r2 == (a + b) % w
<1>1. q \in Int /\ r \in 0 .. w - 1 /\ b = w * q + r
  OBVIOUS
<1> HIDE DEF q, r
<1>2. q1 \in Int /\ r1 \in 0 .. w - 1 /\ a + r = w * q1 + r1
  BY <1>1
<1>3. q2 \in Int /\ r2 \in 0 .. w - 1 /\ a + b = w * q2 + r2
  BY <1>1
<1> HIDE DEF q1, r1, q2, r2
<1>4. w * (q2 - q1 - q) = r1 - r2
  BY <1>1, <1>2, <1>3
<1>5. ~(q2 - q1 - q >= 1) /\ ~(q2 - q1 - q <= -1)
  BY <1>1, <1>2, <1>3, <1>4
<1>6. q2 - q1 - q = 0
  BY <1>1, <1>2, <1>3, <1>5
<1>7. r1 = r2
  BY <1>2, <1>3, <1>4, <1>6
<1> QED  BY <1>7 DEF r, r1, r2
\* The law of the powers of two, of which the provers know single values only.
PowersDouble == 2 ^ 0 = 1 /\ \A n \in Nat : 2 ^ (n + 1) = 2 * 2 ^ n

LEMMA PowerType ==
    ASSUME PowersDouble, NEW n \in Nat PROVE 2 ^ n \in Nat \ {0}
<1> DEFINE T == {k \in 0 .. n : 2 ^ k \in Nat \ {0}}
<1>1. 0 \in T
  BY DEF PowersDouble
<1>2. ASSUME NEW k \in 0 .. n - 1, k \in T PROVE k + 1 \in T
  <2>1. k \in Nat /\ k + 1 \in 0 .. n /\ 2 ^ k \in Nat \ {0} /\ 2 ^ (k + 1) = 2 * 2 ^ k
    BY <1>2 DEF PowersDouble
  <2> QED  BY <2>1
<1> HIDE DEF T
<1>3. n \in T
  BY <1>1, <1>2, UpTo
<1> QED  BY <1>3 DEF T

LEMMA PowerSum ==
    ASSUME PowersDouble, NEW a \in Nat, NEW b \in Nat PROVE 2 ^ (a + b) = 2 ^ a * 2 ^ b
<1> DEFINE T == {k \in 0 .. b : 2 ^ (a + k) = 2 ^ a * 2 ^ k}
<1>1. 0 \in T
  <2>1. 2 ^ a \in Nat /\ a + 0 = a /\ 2 ^ 0 = 1 /\ 0 \in 0 .. b
    BY PowerType DEF PowersDouble
  <2> QED  BY <2>1
<1>2. ASSUME NEW k \in 0 .. b - 1, k \in T PROVE k + 1 \in T
  <2> DEFINE p == 2 ^ a
             q == 2 ^ k
             r == 2 ^ (k + 1)
             s == 2 ^ (a + k)
  <2>1. k \in Nat /\ k + 1 \in 0 .. b /\ a + k \in Nat /\ a + (k + 1) = (a + k) + 1
    OBVIOUS
  <2>2. p \in Nat /\ q \in Nat /\ r = 2 * q /\ 2 ^ ((a + k) + 1) = 2 * s /\ s = p * q
    BY <1>2, <2>1, PowerType DEF PowersDouble
  <2>3. 2 ^ (a + (k + 1)) = 2 * s
    BY <2>1, <2>2
  <2> HIDE DEF p, q, r, s
  <2>4. 2 * (p * q) = p * (2 * q)
    BY <2>2
  <2> QED  BY <2>1, <2>2, <2>3, <2>4 DEF p, r
<1> HIDE DEF T
<1>3. b \in T
  BY <1>1, <1>2, UpTo
<1> QED  BY <1>3 DEF T

\* Powers are in the order of their exponents.
LEMMA PowerOrder ==
    ASSUME PowersDouble, NEW a \in Nat, NEW b \in Nat, a <= b PROVE 2 ^ a <= 2 ^ b
<1>1. b - a \in Nat /\ a + (b - a) = b
  OBVIOUS
<1> DEFINE p == 2 ^ a
           q == 2 ^ (b - a)
<1>2. 2 ^ b = p * q
  BY <1>1, PowerSum
<1>3. p \in Nat \ {0} /\ q \in Nat \ {0}
  BY <1>1, PowerType
<1> HIDE DEF p, q
<1>4. p <= p * q
  BY <1>3
<1> QED  BY <1>2, <1>4 DEF p
=============================================================================
