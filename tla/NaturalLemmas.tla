---------------------------- MODULE NaturalLemmas ----------------------------
(***************************************************************************)
(* What the proofs of this project need of the natural numbers: induction  *)
(* in the form in which a set is shown to hold all of them, functions that *)
(* are defined by recursion on them, powers of two and remainders.         *)
(*                                                                         *)
(* The induction theorems of the library take an operator, which the       *)
(* provers cannot instantiate; a set they can.                             *)
(***************************************************************************)
EXTENDS FiniteSetTheorems, TLAPS

-----------------------------------------------------------------------------
(* Induction.                                                              *)

(* A non-empty set of natural numbers has a least element.                 *)
LEMMA LeastNatural ==
    ASSUME NEW T, T \subseteq Nat, T # {}
    PROVE  \E m \in T : \A k \in T : m <= k
<1> DEFINE R == OpToRel(<, Nat)
<1>1. IsWellFoundedOn(R, Nat)
  BY NatLessThanWellFounded
<1>2. \A x, y \in Nat : <<x, y>> \in R <=> x < y
  BY DEF OpToRel
<1> HIDE DEF R
<1>3. PICK m \in T : \A k \in T : ~(<<k, m>> \in R)
  BY <1>1, WFMin
<1>4. \A k \in T : m <= k
  <2> TAKE k \in T
  <2>1. k \in Nat /\ m \in Nat /\ ~(<<k, m>> \in R)
    BY <1>3
  <2>2. ~(k < m)
    BY <1>2, <2>1
  <2> QED
    BY <2>1, <2>2
<1> QED
  BY <1>4

(* A set that holds 0, and with a number the next, holds every number.     *)
LEMMA InductionOnSet ==
    ASSUME NEW S, 0 \in S, \A n \in Nat : n \in S => n + 1 \in S
    PROVE  \A n \in Nat : n \in S
<1> SUFFICES ASSUME Nat \ S # {} PROVE FALSE
  OBVIOUS
<1>1. PICK m \in Nat \ S : \A k \in Nat \ S : m <= k
  BY LeastNatural
<1>2. m - 1 \in Nat /\ m - 1 \notin Nat \ S
  BY <1>1
<1> QED
  BY <1>1, <1>2

-----------------------------------------------------------------------------
(* Recursion.                                                              *)

(* f starts with base, and step leads from each of its values to the next. *)
Recursive(f, V, base, step) ==
    /\ f \in [Nat -> V]
    /\ f[0] = base
    /\ \A n \in Nat : f[n + 1] = step[<<n, f[n]>>]

(* A first value and a rule for the next one determine a function.         *)
LEMMA PrimitiveRecursion ==
    ASSUME NEW V, NEW base \in V, NEW step \in [Nat \X V -> V]
    PROVE  \E f : Recursive(f, V, base, step)
<1> DEFINE Starts(n) ==
               {g \in [0..n -> V] :
                   /\ g[0] = base
                   /\ \A i \in Nat : i < n => g[i + 1] = step[<<i, g[i]>>]}
           Some == {n \in Nat : Starts(n) # {}}
           start == [n \in Nat |-> CHOOSE g : g \in Starts(n)]
           f == [n \in Nat |-> start[n][n]]
<1>1. \A n \in Nat : n \in Some
  <2>1. 0 \in Some
    <3>1. [i \in 0..0 |-> base] \in Starts(0)
      OBVIOUS
    <3> QED
      BY <3>1
  <2>2. ASSUME NEW n \in Nat, n \in Some PROVE n + 1 \in Some
    <3>1. PICK g \in Starts(n) : TRUE
      BY <2>2
    <3> DEFINE next == step[<<n, g[n]>>]
               h == [i \in 0..n + 1 |-> IF i = n + 1 THEN next ELSE g[i]]
    <3>2. g[n] \in V /\ <<n, g[n]>> \in Nat \X V
      BY <3>1
    <3>3. next \in V
      BY <3>2
    <3>4. \A i \in 0..n : h[i] = g[i]
      OBVIOUS
    <3>5. h[n + 1] = step[<<n, g[n]>>]
      OBVIOUS
    <3> HIDE DEF next
    <3>6. h \in [0..n + 1 -> V] /\ h[0] = base
      BY <3>1, <3>3
    <3> HIDE DEF h
    <3>7. ASSUME NEW i \in Nat, i < n + 1 PROVE h[i + 1] = step[<<i, h[i]>>]
      <4>1. CASE i = n
        BY <4>1, <3>4, <3>5
      <4>2. CASE i < n
        <5>1. g[i + 1] = step[<<i, g[i]>>]
          BY <3>1, <4>2
        <5>2. h[i] = g[i] /\ h[i + 1] = g[i + 1]
          BY <3>4, <4>2
        <5> QED
          BY <5>1, <5>2
      <4> QED
        BY <3>7, <4>1, <4>2
    <3>8. h \in Starts(n + 1)
      BY <3>6, <3>7
    <3> QED
      BY <3>8
  <2> HIDE DEF Some
  <2> QED
    BY <2>1, <2>2, InductionOnSet
<1>2. ASSUME NEW n \in Nat
      PROVE  /\ start[n] \in [0..n -> V] /\ start[n][0] = base
             /\ \A i \in Nat :
                   i < n => start[n][i + 1] = step[<<i, start[n][i]>>]
  <2>1. start[n] \in Starts(n)
    BY <1>1
  <2> HIDE DEF start
  <2> QED
    BY <2>1
<1>3. \A n \in Nat : f[n] = start[n][n]
  OBVIOUS
<1>4. f = [n \in Nat |-> f[n]]
  OBVIOUS
<1> HIDE DEF f, start
<1>5. ASSUME NEW n \in Nat PROVE start[n + 1][n] = start[n][n]
  <2> DEFINE Same == {i \in Nat : i <= n => start[n + 1][i] = start[n][i]}
  <2>0. n + 1 \in Nat
    OBVIOUS
  <2>1. 0 \in Same
    <3>1. start[n][0] = base /\ start[n + 1][0] = base
      BY <1>2, <2>0
    <3> QED
      BY <3>1
  <2>2. ASSUME NEW i \in Nat, i \in Same PROVE i + 1 \in Same
    <3> SUFFICES ASSUME i + 1 <= n PROVE start[n + 1][i + 1] = start[n][i + 1]
      OBVIOUS
    <3>1. start[n][i + 1] = step[<<i, start[n][i]>>]
      BY <1>2
    <3>2. start[n + 1][i + 1] = step[<<i, start[n + 1][i]>>]
      <4>1. i < n + 1
        OBVIOUS
      <4> QED
        BY <1>2, <2>0, <4>1
    <3>3. start[n + 1][i] = start[n][i]
      BY <2>2
    <3> QED
      BY <3>1, <3>2, <3>3
  <2> HIDE DEF Same
  <2>3. n \in Same
    BY <2>1, <2>2, InductionOnSet
  <2> QED
    BY <2>3 DEF Same
<1>6. f \in [Nat -> V]
  <2>1. \A n \in Nat : f[n] \in V
    BY <1>2, <1>3
  <2> QED
    BY <1>4, <2>1
<1>7. f[0] = base
  BY <1>2, <1>3
<1>8. ASSUME NEW n \in Nat PROVE f[n + 1] = step[<<n, f[n]>>]
  <2>1. n + 1 \in Nat /\ n < n + 1
    OBVIOUS
  <2>2. start[n + 1][n + 1] = step[<<n, start[n + 1][n]>>]
    BY <1>2, <2>1
  <2>3. f[n + 1] = start[n + 1][n + 1] /\ f[n] = start[n][n]
    BY <1>3, <2>1
  <2> QED
    BY <1>5, <2>2, <2>3
<1> QED
  BY <1>6, <1>7, <1>8 DEF Recursive

-----------------------------------------------------------------------------
(* Powers of two: the number of subsets of a set doubles with one element. *)
LEMMA PowersOfTwo ==
    /\ 2^0 = 1
    /\ \A n \in Nat : 2^n \in Nat \ {0} /\ 2^(n + 1) = 2 * 2^n
<1>1. ASSUME NEW n \in Nat
      PROVE  /\ IsFiniteSet(SUBSET (1..n)) /\ Cardinality(SUBSET (1..n)) = 2^n
             /\ 2^n \in Nat
  <2>1. IsFiniteSet(1..n) /\ Cardinality(1..n) = n
    BY FS_Interval
  <2>2. IsFiniteSet(SUBSET (1..n)) /\ Cardinality(SUBSET (1..n)) = 2^n
    <3>1. Cardinality(SUBSET (1..n)) = 2^Cardinality(1..n)
      BY <2>1, FS_SUBSET
    <3> QED
      BY <2>1, <3>1, FS_SUBSET
  <2> QED
    BY <2>2, FS_CardinalityType
<1>2. 2^0 = 1
  <2>1. SUBSET (1..0) = {{}}
    OBVIOUS
  <2> QED
    BY <1>1, <2>1, FS_Singleton
<1>3. ASSUME NEW n \in Nat PROVE 2^(n + 1) = 2 * 2^n
  <2> DEFINE Old == SUBSET (1..n)
             New == {A \cup {n + 1} : A \in Old}
             add == [A \in Old |-> A \cup {n + 1}]
  <2>1. SUBSET (1..n + 1) = Old \cup New
    <3>1. ASSUME NEW B \in SUBSET (1..n + 1), B \notin Old PROVE B \in New
      <4>1. n + 1 \in B
        BY <3>1
      <4>2. B \ {n + 1} \in Old /\ B = (B \ {n + 1}) \cup {n + 1}
        BY <4>1
      <4> QED
        BY <4>2
    <3>2. New \subseteq SUBSET (1..n + 1)
      <4>1. 1..n \subseteq 1..n + 1 /\ n + 1 \in 1..n + 1
        OBVIOUS
      <4> HIDE DEF Old
      <4>2. \A A \in Old : A \cup {n + 1} \subseteq 1..n + 1
        BY <4>1 DEF Old
      <4> QED
        BY <4>2
    <3>3. Old \subseteq SUBSET (1..n + 1)
      OBVIOUS
    <3> HIDE DEF Old, New
    <3> QED
      BY <3>1, <3>2, <3>3
  <2>2. Old \cap New = {}
    OBVIOUS
  <2>3. add \in Bijection(Old, New)
    <3>1. add \in [Old -> New] /\ \A B \in New : \E A \in Old : add[A] = B
      OBVIOUS
    <3>2. ASSUME NEW A \in Old, NEW B \in Old, add[A] = add[B] PROVE A = B
      <4>1. A = add[A] \ {n + 1} /\ B = add[B] \ {n + 1}
        OBVIOUS
      <4> QED
        BY <3>2, <4>1
    <3> QED
      BY <3>1, <3>2 DEF Bijection, Injection, Surjection, IsInjective
  <2>4. ExistsBijection(Old, New)
    BY <2>3 DEF ExistsBijection
  <2> HIDE DEF Old, New
  <2>5. IsFiniteSet(Old) /\ Cardinality(Old) = 2^n /\ 2^n \in Nat
    BY <1>1 DEF Old
  <2>6. IsFiniteSet(New) /\ Cardinality(New) = 2^n
    BY <2>4, <2>5, FS_Bijection
  <2>7. Cardinality(Old \cup New) = 2^n + 2^n - 0
    BY <2>2, <2>5, <2>6, FS_Union, FS_EmptySet
  <2>8. 2^n + 2^n - 0 = 2 * 2^n
    BY <2>5
  <2>9. n + 1 \in Nat
    OBVIOUS
  <2>10. Cardinality(SUBSET (1..n + 1)) = 2^(n + 1)
    BY <1>1, <2>9
  <2> QED
    BY <2>1, <2>7, <2>8, <2>10, Zenon
<1>4. \A n \in Nat : 2^n \in Nat \ {0}
  <2> DEFINE Positive == {n \in Nat : 2^n \in Nat \ {0}}
  <2>1. 0 \in Positive
    BY <1>2
  <2>2. \A n \in Nat : n \in Positive => n + 1 \in Positive
    <3> TAKE n \in Nat
    <3> HAVE n \in Positive
    <3>1. 2^(n + 1) = 2 * 2^n /\ 2^n \in Nat \ {0}
      BY <1>3
    <3>2. 2^(n + 1) \in Nat \ {0}
      BY <3>1
    <3> QED
      BY <3>2
  <2> HIDE DEF Positive
  <2>3. \A n \in Nat : n \in Positive
    BY <2>1, <2>2, InductionOnSet
  <2> QED
    BY <2>3 DEF Positive
<1> QED
  BY <1>2, <1>3, <1>4

-----------------------------------------------------------------------------
(* Quotients and remainders.                                               *)

LEMMA Division ==
    ASSUME NEW b \in Nat \ {0}, NEW n \in Nat
    PROVE  /\ n \div b \in Nat /\ n % b \in 0..(b - 1)
           /\ n = b * (n \div b) + (n % b)
  OBVIOUS

LEMMA RemainderIsUnique ==
    ASSUME NEW b \in Nat \ {0}, NEW q \in Nat, NEW r \in 0..(b - 1)
    PROVE  (b * q + r) % b = r
  OBVIOUS

(* What is missing up to the next boundary, and from any point before it.  *)
LEMMA Boundary ==
    ASSUME NEW b \in Nat \ {0}, NEW n \in Nat
    PROVE  /\ b - (n % b) \in 1..b
           /\ (n + (b - (n % b))) % b = 0
  <1> DEFINE q == n \div b
             r == n % b
  <1>1. q \in Nat /\ r \in 0..(b - 1) /\ n = b * q + r
    BY Division
  <1>2. n + (b - r) = b * (q + 1) + 0
    BY <1>1
  <1>3. q + 1 \in Nat
    BY <1>1
  <1>4. (b * (q + 1) + 0) % b = 0
    BY <1>3, RemainderIsUnique
  <1> QED
    BY <1>1, <1>2, <1>4

LEMMA BoundaryIsUnique ==
    ASSUME NEW b \in Nat \ {0}, NEW m \in Nat, NEW p \in 1..b,
           (m + p) % b = 0
    PROVE  b - (m % b) = p
  <1>1. m + p \in Nat
    OBVIOUS
  <1>2. PICK q \in Nat : m + p = b * q + 0
    BY <1>1, Division
  <1>3. q # 0
    BY <1>2
  <1>4. q - 1 \in Nat /\ b - p \in 0..(b - 1)
    BY <1>3
  <1>5. b * q = b * (q - 1) + b
    OBVIOUS
  <1>6. m = b * (q - 1) + (b - p)
    BY <1>2, <1>4, <1>5
  <1>7. m % b = b - p
    BY <1>4, <1>6, RemainderIsUnique
  <1> QED
    BY <1>7
=============================================================================
