---------------------------- MODULE NumberLemmas ----------------------------
(***************************************************************************)
(* Least and greatest elements, and induction: what the proofs need of     *)
(* Min, Max and SelectInSeq, which the community modules define by CHOOSE. *)
(***************************************************************************)
EXTENDS Integers, FiniteSetsExt, WellFoundedInduction, TLAPS

(* A set of natural numbers has a least element.                           *)
LEMMA LeastNatural ==
  ASSUME NEW S \in SUBSET Nat, S # {}
  PROVE  \E m \in S : \A k \in S : m <= k
<1> DEFINE R == OpToRel(<, Nat)
<1>1. IsWellFoundedOn(R, Nat)
  BY NatLessThanWellFounded, Zenon
<1>2. \A i, j \in Nat : <<i, j>> \in R <=> i < j
  BY DEF OpToRel
<1> HIDE DEF R
<1>3. PICK m \in S : \A k \in S : ~ (<<k, m>> \in R)
  BY <1>1, WFMin
<1>4. \A k \in S : m \in Nat /\ k \in Nat /\ ~ (k < m)
  BY <1>2, <1>3
<1>5. \A k \in S : m <= k
  BY <1>4
<1> QED  BY <1>5

(* Induction, for a property given by the set of the numbers that have it. *)
LEMMA Induction ==
  ASSUME NEW S \in SUBSET Nat, 0 \in S, \A n \in S : n + 1 \in S
  PROVE  S = Nat
<1> SUFFICES ASSUME Nat \ S # {} PROVE FALSE
  OBVIOUS
<1>1. PICK m \in Nat \ S : \A k \in Nat \ S : m <= k
  BY LeastNatural
<1>2. m # 0 /\ m - 1 \in Nat
  BY <1>1
<1>3. m - 1 \in S
  BY <1>1, <1>2
<1> QED  BY <1>1, <1>2, <1>3

(* The number that Min chooses.                                            *)
LEMMA MinIsLeast ==
  ASSUME NEW S \in SUBSET Nat, S # {}
  PROVE  Min(S) \in S /\ \A k \in S : Min(S) <= k
BY LeastNatural DEF Min

(* The number that Max chooses from a bounded set: the one whose distance  *)
(* from the bound is least.                                                *)
LEMMA MaxIsGreatest ==
  ASSUME NEW b \in Nat, NEW S \in SUBSET (0 .. b), S # {}
  PROVE  Max(S) \in S /\ \A k \in S : k <= Max(S)
<1> DEFINE T == {d \in 0 .. b : b - d \in S}
<1>1. T # {}
  <2>1. PICK x \in S : TRUE
    OBVIOUS
  <2>2. b - x \in T
    BY <2>1
  <2> QED  BY <2>2
<1>2. T \in SUBSET Nat
  OBVIOUS
<1>3. PICK d \in T : \A e \in T : d <= e
  BY <1>1, <1>2, LeastNatural
<1>4. \A k \in S : b - k \in T
  OBVIOUS
<1>5. b - d \in S /\ \A k \in S : b - d >= k
  BY <1>3, <1>4
<1>6. \E x \in S : \A y \in S : x >= y
  BY <1>5
<1>7. Max(S) \in S /\ \A y \in S : Max(S) >= y
  BY <1>6 DEF Max
<1> QED  BY <1>7

(* Induction up to a bound.                                                *)
LEMMA InductionUpTo ==
  ASSUME NEW n \in Nat, NEW S, 0 \in S, \A k \in 0 .. (n - 1) : k \in S => k + 1 \in S
  PROVE  \A k \in 0 .. n : k \in S
<1> DEFINE T == {k \in Nat : k <= n => k \in S}
<1>1. 0 \in T /\ T \in SUBSET Nat
  OBVIOUS
<1>2. ASSUME NEW k \in T PROVE k + 1 \in T
  <2> SUFFICES ASSUME k + 1 <= n PROVE k + 1 \in S
    BY <1>1
  <2>1. k \in Nat /\ k <= n /\ k \in 0 .. (n - 1)
    BY <1>1
  <2> QED  BY <1>1, <2>1
<1> HIDE DEF T
<1>3. T = Nat
  BY <1>1, <1>2, Induction
<1>4. ASSUME NEW k \in 0 .. n PROVE k \in S
  <2>1. k \in T /\ k <= n
    BY <1>3
  <2> QED  BY <2>1 DEF T
<1> QED  BY <1>4

(* The function by which FoldLeft folds a sequence of length n, for F[m][k]*)
(* the result of the operator for m and element k: it takes the greatest   *)
(* element of a set last.                                                  *)
Folding(f, base, F, n) ==
  \A s \in SUBSET (1 .. n) :
    f[s] = IF s = {} THEN base ELSE F[f[s \ {Max(s)}]][Max(s)]

(* Such a function exists.                                                 *)
LEMMA FoldExists ==
  ASSUME NEW M, NEW base \in M, NEW n \in Nat, NEW F,
         \A m \in M, k \in 1 .. n : F[m][k] \in M
  PROVE  \E f \in [SUBSET (1 .. n) -> M] : Folding(f, base, F, n)
<1> DEFINE S == {k \in 0 .. n : \E f \in [SUBSET (1 .. k) -> M] : Folding(f, base, F, k)}
<1>1. 0 \in S
  <2> DEFINE f == [s \in SUBSET (1 .. 0) |-> base]
  <2>1. \A s \in SUBSET (1 .. 0) : s = {}
    OBVIOUS
  <2>2. f \in [SUBSET (1 .. 0) -> M] /\ Folding(f, base, F, 0)
    BY <2>1 DEF Folding
  <2> QED  BY <2>2
<1>2. ASSUME NEW k \in 0 .. (n - 1), k \in S PROVE k + 1 \in S
  <2>1. PICK f \in [SUBSET (1 .. k) -> M] : Folding(f, base, F, k)
    BY <1>2
  <2> DEFINE top == k + 1
             g == [s \in SUBSET (1 .. top) |->
                     IF top \in s THEN F[f[s \ {top}]][top] ELSE f[s]]
  <2>2. /\ k \in Nat /\ top \in 1 .. n /\ top \notin 1 .. k
        /\ \A s \in SUBSET (1 .. top) : /\ s \ {top} \in SUBSET (1 .. k)
                                        /\ top \notin s => s \in SUBSET (1 .. k)
        /\ SUBSET (1 .. k) \subseteq SUBSET (1 .. top)
    OBVIOUS
  <2>3. \A s \in SUBSET (1 .. top) :
          g[s] = IF top \in s THEN F[f[s \ {top}]][top] ELSE f[s]
    OBVIOUS
  <2>4. \A s \in SUBSET (1 .. top) : g[s] \in M
    BY <2>1, <2>2, <2>3
  <2>5. g \in [SUBSET (1 .. top) -> M]
    BY <2>4
  <2> HIDE DEF g
  <2>6. ASSUME NEW s \in SUBSET (1 .. top)
        PROVE  g[s] = IF s = {} THEN base ELSE F[g[s \ {Max(s)}]][Max(s)]
    <3>1. CASE top \in s
      <4>1. s \in SUBSET (0 .. top) /\ s # {} /\ top \in Nat
        BY <2>2, <3>1
      <4>2. Max(s) \in s /\ top <= Max(s)
        BY <3>1, <4>1, MaxIsGreatest
      <4>3. Max(s) = top
        <5>1. Max(s) \in 1 .. top
          BY <4>2
        <5> QED  BY <2>2, <4>2, <5>1
      <4>4. g[s \ {top}] = f[s \ {top}]
        BY <2>2, <2>3
      <4> QED  BY <2>3, <3>1, <4>3, <4>4
    <3>2. CASE top \notin s /\ s # {}
      <4>1. s \in SUBSET (1 .. k) /\ s \in SUBSET (0 .. k)
        BY <2>2, <3>2
      <4>2. Max(s) \in s
        BY <2>2, <3>2, <4>1, MaxIsGreatest
      <4>3. g[s \ {Max(s)}] = f[s \ {Max(s)}]
        BY <2>2, <2>3, <3>2
      <4> QED  BY <2>1, <2>3, <3>2, <4>1, <4>3 DEF Folding
    <3>3. CASE s = {}
      BY <2>1, <2>2, <2>3, <3>3 DEF Folding
    <3> QED  BY <3>1, <3>2, <3>3
  <2>7. Folding(g, base, F, top)
    BY <2>6 DEF Folding
  <2> QED  BY <2>2, <2>5, <2>7
<1> HIDE DEF S
<1>3. \A k \in 0 .. n : k \in S
  BY <1>1, <1>2, InductionUpTo
<1>4. n \in S
  BY <1>3
<1> QED  BY <1>4 DEF S

(* The element of an interval that a fold takes last, and what is left.    *)
LEMMA LastOfInterval ==
  ASSUME NEW k \in Nat
  PROVE  Max(1 .. (k + 1)) = k + 1 /\ (1 .. (k + 1)) \ {k + 1} = 1 .. k
<1> DEFINE s == 1 .. (k + 1)
<1>1. s \in SUBSET (0 .. (k + 1)) /\ k + 1 \in s /\ k + 1 \in Nat /\ s \ {k + 1} = 1 .. k
  OBVIOUS
<1>2. \A x \in s : x <= k + 1 /\ x \in Nat
  OBVIOUS
<1> HIDE DEF s
<1>3. Max(s) \in s /\ k + 1 <= Max(s)
  BY <1>1, MaxIsGreatest
<1>4. Max(s) = k + 1
  BY <1>1, <1>2, <1>3
<1> QED  BY <1>1, <1>4 DEF s

=============================================================================
