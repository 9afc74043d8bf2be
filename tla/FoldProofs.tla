----------------------------- MODULE FoldProofs -----------------------------
(***************************************************************************)
(* What the proofs about sequences share: induction over the naturals, the *)
(* greatest element of a set of numbers, and the folds of the community    *)
(* modules, which remove it.  The library's induction theorems take the    *)
(* property as an operator; here it is a set of numbers, and the theorems  *)
(* about finite sets are enough.                                           *)
(***************************************************************************)
EXTENDS Integers, FiniteSetsExt, SequenceTheorems, FiniteSetTheorems, TLAPS

(* A set of numbers with 0 and every successor has them all: if n were      *)
(* missing, m + 1 would map the finite set of its numbers up to n one to    *)
(* one into that set without 0.                                             *)
LEMMA NatSets ==
  ASSUME NEW T, T \subseteq Nat, 0 \in T, \A n \in T : n + 1 \in T
  PROVE  T = Nat
<1>1. SUFFICES ASSUME NEW n \in Nat, n \notin T PROVE FALSE
  OBVIOUS
<1> DEFINE low == T \cap 0..n
           next == [m \in low |-> m + 1]
<1>2. IsFiniteSet(low)
  <2>1. IsFiniteSet(0..n)
    BY FS_Interval
  <2>2. QED
    BY <2>1, FS_Subset
<1>3. /\ IsFiniteSet(low \ {0}) /\ Cardinality(low \ {0}) = Cardinality(low) - 1
      /\ Cardinality(low) \in Nat
  <2>1. 0 \in low
    OBVIOUS
  <2>2. QED
    BY <1>2, <2>1, FS_RemoveElement, FS_CardinalityType
<1>4. next \in Injection(low, low \ {0})
  <2>1. \A m \in low : m + 1 \in low \ {0}
    BY <1>1
  <2>2. \A m, k \in low : m + 1 = k + 1 => m = k
    OBVIOUS
  <2>3. QED
    BY <2>1, <2>2 DEF Injection, IsInjective
<1>5. QED
  BY <1>3, <1>4, FS_Injection

LEMMA FunctionIsSeq ==
  ASSUME NEW S, NEW n \in Nat, NEW f \in [1..n -> S]
  PROVE  f \in Seq(S) /\ Len(f) = n
<1>1. f \in Seq(S)
  BY SeqDef
<1>2. QED
  BY <1>1, LenProperties

LEMMA GreatestIs ==
  ASSUME NEW S, S \subseteq Int, NEW m \in S, \A x \in S : x <= m
  PROVE  Max(S) = m
<1> DEFINE P(x) == x \in S /\ \A y \in S : x >= y
<1>1. P(m)
  OBVIOUS
<1>2. \A x : P(x) => x = m
  BY <1>1
<1>3. Max(S) = CHOOSE x : P(x)
  BY DEF Max
<1> HIDE DEF P
<1>4. QED
  BY <1>1, <1>2, <1>3

LEMMA LeastIs ==
  ASSUME NEW S, S \subseteq Int, NEW m \in S, \A x \in S : m <= x
  PROVE  Min(S) = m
<1> DEFINE P(x) == x \in S /\ \A y \in S : x <= y
<1>1. P(m)
  OBVIOUS
<1>2. \A x : P(x) => x = m
  BY <1>1
<1>3. Min(S) = CHOOSE x : P(x)
  BY DEF Min
<1> HIDE DEF P
<1>4. QED
  BY <1>1, <1>2, <1>3

LEMMA GreatestExists ==
  ASSUME NEW n \in Nat, NEW S \in SUBSET (1..n), S # {}
  PROVE  Max(S) \in S /\ \A x \in S : x <= Max(S)
<1> DEFINE Has(R) == \E m \in R : \A x \in R : x <= m
           T == {k \in Nat : \A R \in SUBSET (1..k) : R # {} => Has(R)}
<1>1. 0 \in T
  <2>1. \A R \in SUBSET (1..0) : R = {}
    OBVIOUS
  <2>2. QED
    BY <2>1
<1>2. ASSUME NEW k \in T PROVE k + 1 \in T
  <2>1. k \in Nat /\ \A R \in SUBSET (1..k) : R # {} => Has(R)
    BY <1>2
  <2>2. SUFFICES ASSUME NEW R \in SUBSET (1..(k + 1)), R # {} PROVE Has(R)
    BY <2>1
  <2>3. CASE k + 1 \in R
    BY <2>1, <2>3
  <2>4. CASE k + 1 \notin R
    <3>1. R \in SUBSET (1..k)
      BY <2>1, <2>4
    <3>2. QED
      BY <2>1, <2>2, <3>1
  <2>5. QED
    BY <2>3, <2>4
<1>3. T = Nat
  <2>1. T \subseteq Nat
    OBVIOUS
  <2> HIDE DEF T
  <2>2. QED
    BY <1>1, <1>2, <2>1, NatSets
<1>4. PICK m \in S : \A x \in S : x <= m
  <2>1. n \in T
    BY <1>3
  <2>2. QED
    BY <2>1
<1>5. Max(S) = m
  <2>1. S \subseteq Int
    OBVIOUS
  <2> HIDE DEF T, Has
  <2>2. QED
    BY <1>4, <2>1, GreatestIs
<1>6. QED
  BY <1>4, <1>5

(* The sets 1..m, and how a fold takes them apart. *)
LEMMA LastOfPrefix ==
  ASSUME NEW n \in Nat, NEW m \in 1..n
  PROVE  /\ 1..m \in SUBSET (1..n) /\ 1..m # {}
         /\ Max(1..m) = m /\ (1..m) \ {Max(1..m)} = 1..(m - 1)
<1>1. 1..m \in SUBSET (1..n) /\ m \in 1..m
  OBVIOUS
<1>2. Max(1..m) = m
  <2>1. 1..m \subseteq Int /\ \A x \in 1..m : x <= m
    OBVIOUS
  <2>2. QED
    BY <1>1, <2>1, GreatestIs
<1>3. (1..m) \ {m} = 1..(m - 1)
  OBVIOUS
<1>4. QED
  BY <1>1, <1>2, <1>3

(* The recursive function of MapThenFoldSet exists.  F is one step: the     *)
(* value so far and the place in the sequence.                              *)
IsFoldStep(F, n, A) == F \in [A \X (1..n) -> A]

IsFold(f, n, A, base, F) ==
  /\ f \in [SUBSET (1..n) -> A]
  /\ \A s \in SUBSET (1..n) :
       f[s] = IF s = {} THEN base ELSE F[<<f[s \ {Max(s)}], Max(s)>>]

LEMMA FoldExists ==
  ASSUME NEW n \in Nat, NEW A, NEW base \in A, NEW F, IsFoldStep(F, n, A)
  PROVE  \E f : IsFold(f, n, A, base, F)
<1> USE DEF IsFoldStep
<1> DEFINE Good(f, k) == \A s \in SUBSET (1..k) :
                           f[s] = IF s = {} THEN base ELSE F[<<f[s \ {Max(s)}], Max(s)>>]
           Possible(k) == \E f \in [SUBSET (1..k) -> A] : Good(f, k)
           T == {k \in Nat : k <= n => Possible(k)}
<1>1. 0 \in T
  <2>1. SUBSET (1..0) = {{}}
    OBVIOUS
  <2>2. [s \in SUBSET (1..0) |-> base] \in [SUBSET (1..0) -> A]
        /\ Good([s \in SUBSET (1..0) |-> base], 0)
    BY <2>1
  <2>3. Possible(0)
    <3> HIDE DEF Good
    <3>1. QED
      BY <2>2
  <2> HIDE DEF Possible
  <2>4. QED
    BY <2>3
<1>2. ASSUME NEW k \in T PROVE k + 1 \in T
  <2>1. k \in Nat /\ k + 1 \in Nat
    BY <1>2
  <2> HIDE DEF Possible
  <2>2. SUFFICES ASSUME k + 1 <= n PROVE Possible(k + 1)
    BY <2>1
  <2>3. PICK f \in [SUBSET (1..k) -> A] : Good(f, k)
    <3>1. Possible(k)
      BY <1>2, <2>1, <2>2
    <3> HIDE DEF Good
    <3>2. QED
      BY <3>1 DEF Possible
  <2> DEFINE g == [s \in SUBSET (1..(k + 1)) |->
                     IF k + 1 \in s THEN F[<<f[s \ {k + 1}], k + 1>>] ELSE f[s]]
  <2>4. ASSUME NEW s \in SUBSET (1..(k + 1)), k + 1 \in s
        PROVE  /\ s \ {k + 1} \in SUBSET (1..k) /\ Max(s) = k + 1
               /\ g[s] = F[<<f[s \ {k + 1}], k + 1>>] /\ g[s] \in A
               /\ g[s \ {k + 1}] = f[s \ {k + 1}]
    <3>1. s \ {k + 1} \in SUBSET (1..k) /\ s \ {k + 1} \in SUBSET (1..(k + 1))
      BY <2>1
    <3>2. Max(s) = k + 1
      <4>1. s \subseteq Int /\ \A x \in s : x <= k + 1
        BY <2>1
      <4>2. QED
        BY <2>4, <4>1, GreatestIs
    <3>3. g[s] = F[<<f[s \ {k + 1}], k + 1>>] /\ g[s \ {k + 1}] = f[s \ {k + 1}]
      BY <2>4, <3>1
    <3>4. f[s \ {k + 1}] \in A /\ k + 1 \in 1..n
      BY <2>1, <2>2, <3>1
    <3>5. F[<<f[s \ {k + 1}], k + 1>>] \in A
      BY <3>4
    <3>6. QED
      BY <3>1, <3>2, <3>3, <3>5
  <2>5. ASSUME NEW s \in SUBSET (1..(k + 1)), k + 1 \notin s
        PROVE  s \in SUBSET (1..k) /\ g[s] = f[s] /\ g[s] \in A
    <3>1. s \in SUBSET (1..k)
      BY <2>1, <2>5
    <3>2. QED
      BY <2>5, <3>1
  <2>6. g \in [SUBSET (1..(k + 1)) -> A]
    <3>1. \A s \in SUBSET (1..(k + 1)) : g[s] \in A
      BY <2>4, <2>5
    <3>2. QED
      BY <3>1
  <2> HIDE DEF g
  <2>7. ASSUME NEW s \in SUBSET (1..(k + 1))
        PROVE  g[s] = IF s = {} THEN base ELSE F[<<g[s \ {Max(s)}], Max(s)>>]
    <3>1. CASE k + 1 \in s
      BY <2>4, <3>1
    <3>2. CASE k + 1 \notin s
      <4>1. s \in SUBSET (1..k) /\ g[s] = f[s]
        BY <2>5, <3>2
      <4>2. CASE s = {}
        BY <2>3, <4>1, <4>2
      <4>3. CASE s # {}
        <5>1. s \ {Max(s)} \in SUBSET (1..(k + 1)) /\ k + 1 \notin s \ {Max(s)}
          BY <3>2
        <5>2. g[s \ {Max(s)}] = f[s \ {Max(s)}]
          BY <2>5, <5>1
        <5>3. QED
          BY <2>3, <4>1, <4>3, <5>2
      <4>4. QED
        BY <4>2, <4>3
    <3>3. QED
      BY <3>1, <3>2
  <2>8. Good(g, k + 1)
    BY <2>7
  <2> HIDE DEF Good
  <2>9. QED
    BY <2>6, <2>8 DEF Possible
<1>3. T = Nat
  <2>1. T \subseteq Nat
    OBVIOUS
  <2> HIDE DEF T
  <2>2. QED
    BY <1>1, <1>2, <2>1, NatSets
<1>4. Possible(n)
  <2> HIDE DEF Possible
  <2>1. n \in T
    BY <1>3
  <2>2. QED
    BY <2>1
<1>5. QED
  BY <1>4 DEF IsFold

(* The values of such a fold along the sequence. *)
IsRun(v, n, A, base, F) ==
  /\ v \in [0..n -> A] /\ v[0] = base
  /\ \A m \in 1..n : v[m] = F[<<v[m - 1], m>>]

LEMMA FoldRuns ==
  ASSUME NEW n \in Nat, NEW A, NEW base, NEW F, NEW f, IsFold(f, n, A, base, F)
  PROVE  IsRun([m \in 0..n |-> f[1..m]], n, A, base, F)
<1> DEFINE v == [m \in 0..n |-> f[1..m]]
<1>1. /\ f \in [SUBSET (1..n) -> A]
      /\ \A s \in SUBSET (1..n) :
           f[s] = IF s = {} THEN base ELSE F[<<f[s \ {Max(s)}], Max(s)>>]
  BY DEF IsFold
<1>2. v \in [0..n -> A]
  <2>1. \A m \in 0..n : 1..m \in SUBSET (1..n)
    OBVIOUS
  <2>2. QED
    BY <1>1, <2>1
<1>3. v[0] = base
  <2>1. 1..0 = {} /\ 0 \in 0..n
    OBVIOUS
  <2>2. f[1..0] = base
    BY <1>1, <2>1
  <2>3. QED
    BY <2>1, <2>2
<1>4. ASSUME NEW m \in 1..n PROVE v[m] = F[<<v[m - 1], m>>]
  <2>1. m \in 0..n /\ m - 1 \in 0..n
    OBVIOUS
  <2>2. v[m] = f[1..m] /\ v[m - 1] = f[1..(m - 1)]
    BY <2>1
  <2>3. /\ 1..m \in SUBSET (1..n) /\ 1..m # {}
        /\ Max(1..m) = m /\ (1..m) \ {Max(1..m)} = 1..(m - 1)
    BY LastOfPrefix
  <2> HIDE DEF v
  <2>4. QED
    BY <1>1, <2>2, <2>3
<1> HIDE DEF v
<1>5. IsRun(v, n, A, base, F)
  BY <1>2, <1>3, <1>4 DEF IsRun
<1>6. QED
  BY <1>5 DEF v

(* Two folds agree as long as their sequences do. *)
LEMMA RunsAgree ==
  ASSUME NEW n \in Nat, NEW k \in Nat, n <= k, NEW A, NEW base, NEW F, NEW G, NEW v, NEW w,
         IsRun(v, n, A, base, F), IsRun(w, k, A, base, G),
         \A a \in A, m \in 1..n : F[<<a, m>>] = G[<<a, m>>]
  PROVE  v[n] = w[n]
<1> DEFINE T == {m \in Nat : m <= n => v[m] = w[m]}
<1>1. 0 \in T
  BY DEF IsRun
<1>2. ASSUME NEW m \in T PROVE m + 1 \in T
  <2>1. m \in Nat /\ m + 1 \in Nat /\ (m <= n => v[m] = w[m])
    BY <1>2
  <2>2. SUFFICES ASSUME m + 1 <= n PROVE v[m + 1] = w[m + 1]
    BY <2>1
  <2>3. m + 1 \in 1..n /\ m + 1 \in 1..k /\ m \in 0..n /\ (m + 1) - 1 = m /\ m <= n
    BY <2>1, <2>2
  <2>4. v[m + 1] = F[<<v[m], m + 1>>] /\ w[m + 1] = G[<<w[m], m + 1>>] /\ v[m] \in A
    BY <2>3 DEF IsRun
  <2> HIDE DEF T
  <2>5. QED
    BY <2>1, <2>3, <2>4
<1>3. T = Nat
  <2>1. T \subseteq Nat
    OBVIOUS
  <2> HIDE DEF T
  <2>2. QED
    BY <1>1, <1>2, <2>1, NatSets
<1>4. QED
  BY <1>3

=============================================================================
