------------------------------ MODULE SumProofs -------------------------------
(***************************************************************************)
(* Sums over a finite set, as MapThenSumSet computes them: one element at  *)
(* a time, in an order that depends on the set alone.  Induction is over   *)
(* the size of the set, as the search for a smallest counterexample.       *)
(***************************************************************************)
EXTENDS FiniteSetsExt, FiniteSetTheorems, WellFoundedInduction, TLAPS

Pick(s) == CHOOSE x \in s : TRUE

(* One step of the sum over s, given the sums F over smaller sets.         *)
SumStep(F, w, s) == IF s = {} THEN 0 ELSE w[Pick(s)] + F[s \ {Pick(s)}]

(* F holds the sums of the weights w over the sets in D.                   *)
Sums(F, D, w) == F = [s \in D |-> SumStep(F, w, s)]

(* A set of numbers has a least one.                                       *)
LEMMA Least ==
    ASSUME NEW T \in SUBSET Nat, T # {} PROVE \E x \in T : \A y \in T : x <= y
<1>. DEFINE Less == {ss \in Nat \X Nat : ss[1] < ss[2]}
<1>1. IsWellFoundedOn(Less, Nat)
  BY NatLessThanWellFounded DEF OpToRel
<1>2. PICK x \in T : \A y \in T : <<y, x>> \notin Less
  BY <1>1, WFMin
<1>3. ASSUME NEW y \in T PROVE x <= y
  <2>1. <<y, x>> \in Nat \X Nat
    OBVIOUS
  <2>2. ~(y < x)
    BY <1>2, <2>1
  <2>. QED
    BY <2>2
<1>. QED
  BY <1>3

(* Induction over the subsets of a finite set: a set B of subsets without  *)
(* a smallest member is empty.                                             *)
LEMMA SubsetInduction ==
    ASSUME NEW S, IsFiniteSet(S), NEW B \in SUBSET (SUBSET S), {} \notin B,
           \A s \in B : s # {} => s \ {Pick(s)} \in B
    PROVE  B = {}
<1>. SUFFICES ASSUME B # {} PROVE FALSE
  OBVIOUS
<1>. DEFINE N == {Cardinality(s) : s \in B}
<1>1. \A s \in B : IsFiniteSet(s) /\ Cardinality(s) \in Nat
  BY FS_Subset, FS_CardinalityType
<1>2. PICK n \in N : \A m \in N : n <= m
  <2>1. N \in SUBSET Nat /\ N # {}
    BY <1>1
  <2>. QED
    BY <2>1, Least
<1>3. PICK s \in B : Cardinality(s) = n
  OBVIOUS
<1>4. Pick(s) \in s
  BY DEF Pick
<1>5. Cardinality(s \ {Pick(s)}) = Cardinality(s) - 1
  BY <1>1, <1>4, FS_RemoveElement
<1>6. n <= Cardinality(s \ {Pick(s)})
  BY <1>2, <1>3, <1>4
<1>7. n \in Nat
  BY <1>1, <1>3
<1>. QED
  BY <1>3, <1>5, <1>6, <1>7

(* The subsets of S with at most n elements.                               *)
UpTo(S, n) == {s \in SUBSET S : Cardinality(s) <= n}

(* The sums over sets of one element more, from those of up to n.          *)
LEMMA SumsExtend ==
    ASSUME NEW S, IsFiniteSet(S), NEW w, NEW n \in Nat, NEW F, Sums(F, UpTo(S, n), w)
    PROVE  \E G : Sums(G, UpTo(S, n + 1), w)
<1>. DEFINE G == [s \in UpTo(S, n + 1) |-> SumStep(F, w, s)]
<1>1. ASSUME NEW s \in UpTo(S, n + 1), s # {}
      PROVE  s \ {Pick(s)} \in UpTo(S, n) /\ s \ {Pick(s)} \in UpTo(S, n + 1)
  <2>1. s \in SUBSET S /\ IsFiniteSet(s) /\ Cardinality(s) \in Nat /\ Cardinality(s) <= n + 1
    BY FS_Subset, FS_CardinalityType DEF UpTo
  <2>2. Pick(s) \in s
    BY <1>1 DEF Pick
  <2>3. Cardinality(s \ {Pick(s)}) = Cardinality(s) - 1
    BY <2>1, <2>2, FS_RemoveElement
  <2>4. Cardinality(s \ {Pick(s)}) <= n /\ Cardinality(s \ {Pick(s)}) <= n + 1
    BY <2>1, <2>3
  <2>. QED
    BY <2>1, <2>4 DEF UpTo
<1>2. ASSUME NEW s \in UpTo(S, n + 1) PROVE SumStep(F, w, s) = SumStep(G, w, s)
  <2>1. CASE s = {}
    BY <2>1 DEF SumStep
  <2>2. CASE s # {}
    <3>1. G[s \ {Pick(s)}] = SumStep(F, w, s \ {Pick(s)})
      BY <1>1, <2>2
    <3>2. F[s \ {Pick(s)}] = SumStep(F, w, s \ {Pick(s)})
      BY <1>1, <2>2 DEF Sums
    <3>. QED
      BY <2>2, <3>1, <3>2 DEF SumStep
  <2>. QED
    BY <2>1, <2>2
<1>3. G = [s \in UpTo(S, n + 1) |-> SumStep(G, w, s)]
  BY <1>2
<1>. HIDE DEF G
<1>. QED
  BY <1>3 DEF Sums

(* There are sums over all subsets of a finite set.                        *)
LEMMA SumsExist ==
    ASSUME NEW S, IsFiniteSet(S), NEW w PROVE \E F : Sums(F, SUBSET S, w)
<1>. DEFINE None == {n \in Nat : ~\E F : Sums(F, UpTo(S, n), w)}
<1>1. 0 \notin None
  <2>. DEFINE Z == [s \in UpTo(S, 0) |-> 0]
  <2>1. ASSUME NEW s \in UpTo(S, 0) PROVE s = {}
    <3>1. s \in SUBSET S /\ IsFiniteSet(s) /\ Cardinality(s) \in Nat /\ Cardinality(s) <= 0
      BY FS_Subset, FS_CardinalityType DEF UpTo
    <3>. QED
      BY <3>1, FS_EmptySet
  <2>2. \A s \in UpTo(S, 0) : SumStep(Z, w, s) = 0
    BY <2>1 DEF SumStep
  <2>3. Z = [s \in UpTo(S, 0) |-> SumStep(Z, w, s)]
    BY <2>2
  <2>. HIDE DEF Z
  <2>. QED
    BY <2>3 DEF Sums
<1>2. None = {}
  <2>. SUFFICES ASSUME None # {} PROVE FALSE
    OBVIOUS
  <2>1. PICK n \in None : \A m \in None : n <= m
    BY Least
  <2>2. n \in Nat /\ n # 0 /\ n - 1 \in Nat /\ n - 1 \notin None
    BY <1>1, <2>1
  <2>3. PICK F : Sums(F, UpTo(S, n - 1), w)
    BY <2>2
  <2>4. \E G : Sums(G, UpTo(S, (n - 1) + 1), w)
    BY <2>2, <2>3, SumsExtend
  <2>5. (n - 1) + 1 = n
    BY <2>2
  <2>. QED
    BY <2>4, <2>5
<1>3. Cardinality(S) \in Nat
  BY FS_CardinalityType
<1>4. UpTo(S, Cardinality(S)) = SUBSET S
  BY FS_Subset DEF UpTo
<1>5. \E F : Sums(F, UpTo(S, Cardinality(S)), w)
  BY <1>2, <1>3
<1>. QED
  BY <1>4, <1>5

(* A sum of integers is one.                                               *)
LEMMA SumsType ==
    ASSUME NEW S, IsFiniteSet(S), NEW w \in [S -> Int], NEW F, Sums(F, SUBSET S, w)
    PROVE  \A s \in SUBSET S : F[s] \in Int
<1>. DEFINE B == {s \in SUBSET S : F[s] \notin Int}
<1>1. {} \notin B
  BY DEF Sums, SumStep
<1>2. ASSUME NEW s \in B, s # {} PROVE s \ {Pick(s)} \in B
  <2>1. Pick(s) \in s
    BY <1>2 DEF Pick
  <2>2. F[s] = w[Pick(s)] + F[s \ {Pick(s)}] /\ w[Pick(s)] \in Int
    BY <1>2, <2>1 DEF Sums, SumStep
  <2>. QED
    BY <2>2
<1>3. B = {}
  BY <1>1, <1>2, SubsetInduction
<1>. QED
  BY <1>3

(* Changing the weight of one element changes the sums over the sets that  *)
(* hold it by as much, and no other.                                       *)
LEMMA SumsUpdate ==
    ASSUME NEW S, IsFiniteSet(S), NEW v \in [S -> Int], NEW w \in [S -> Int], NEW p \in S,
           \A x \in S \ {p} : v[x] = w[x],
           NEW F, Sums(F, SUBSET S, w), NEW G, Sums(G, SUBSET S, v)
    PROVE  G[S] = F[S] - w[p] + v[p]
<1>. DEFINE Right(s) == G[s] = F[s] + (IF p \in s THEN v[p] - w[p] ELSE 0)
            B == {s \in SUBSET S : ~Right(s)}
<1>1. {} \notin B
  BY DEF Sums, SumStep
<1>2. ASSUME NEW s \in B, s # {} PROVE s \ {Pick(s)} \in B
  <2>. DEFINE x == Pick(s)
              t == s \ {Pick(s)}
  <2>1. x \in s /\ t \in SUBSET S
    BY <1>2 DEF Pick
  <2>2. F[s] = w[x] + F[t] /\ G[s] = v[x] + G[t]
    BY <1>2, <2>1 DEF Sums, SumStep
  <2>3. F[t] \in Int /\ G[t] \in Int /\ v[x] \in Int /\ w[x] \in Int /\ v[p] \in Int /\ w[p] \in Int
    BY <2>1, SumsType
  <2>4. CASE x = p
    BY <2>1, <2>2, <2>3, <2>4
  <2>5. CASE x # p
    <3>1. v[x] = w[x] /\ (p \in t <=> p \in s)
      BY <2>1, <2>5
    <3>. QED
      BY <2>1, <2>2, <2>3, <3>1
  <2>. QED
    BY <2>4, <2>5
<1>3. B = {}
  BY <1>1, <1>2, SubsetInduction
<1>4. F[S] \in Int /\ v[p] \in Int /\ w[p] \in Int
  BY SumsType
<1>. QED
  BY <1>3, <1>4

(* Equal weights have equal sums.                                          *)
LEMMA SumsUnique ==
    ASSUME NEW S, IsFiniteSet(S), NEW w,
           NEW F, Sums(F, SUBSET S, w), NEW G, Sums(G, SUBSET S, w)
    PROVE  G[S] = F[S]
<1>. DEFINE B == {s \in SUBSET S : G[s] # F[s]}
<1>1. {} \notin B
  BY DEF Sums, SumStep
<1>2. ASSUME NEW s \in B, s # {} PROVE s \ {Pick(s)} \in B
  BY <1>2 DEF Sums, SumStep
<1>3. B = {}
  BY <1>1, <1>2, SubsetInduction
<1>. QED
  BY <1>3

(* Nothing weighs nothing.                                                 *)
LEMMA SumsZero ==
    ASSUME NEW S, IsFiniteSet(S), NEW w, \A x \in S : w[x] = 0, NEW F, Sums(F, SUBSET S, w)
    PROVE  F[S] = 0
<1>. DEFINE B == {s \in SUBSET S : F[s] # 0}
<1>1. {} \notin B
  BY DEF Sums, SumStep
<1>2. ASSUME NEW s \in B, s # {} PROVE s \ {Pick(s)} \in B
  <2>1. Pick(s) \in s
    BY <1>2 DEF Pick
  <2>2. F[s] = 0 + F[s \ {Pick(s)}] /\ F[s] # 0
    BY <1>2, <2>1 DEF Sums, SumStep
  <2>3. F[s \ {Pick(s)}] # 0
    BY <2>2
  <2>. QED
    BY <2>3
<1>3. B = {}
  BY <1>1, <1>2, SubsetInduction
<1>. QED
  BY <1>3

================================================================================
