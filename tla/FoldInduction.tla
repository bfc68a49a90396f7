---------------------------- MODULE FoldInduction ----------------------------
(***************************************************************************)
(* Induction over a fold.  Op(c, v, x) is what one step of the fold makes  *)
(* of v and the element x, and P(c, n, v) what is true of v after n steps; *)
(* c stands for whatever else the two speak of.  Proofs instantiate the    *)
(* module for each operator that is folded, in the place of a theorem with *)
(* an operator as its parameter.                                           *)
(***************************************************************************)
EXTENDS Integers, FiniteSetTheorems, WellFoundedInduction, TLAPS

CONSTANTS Op(_, _, _), P(_, _, _)

MaxOf(S) == CHOOSE x \in S : \A y \in S : x >= y

\* FoldLeft of SequencesExt with its definitions expanded.
Folded(c, base, s) ==
  LET iter[d \in SUBSET DOMAIN s] ==
        IF d = {} THEN base
        ELSE Op(c, iter[d \ {MaxOf(d)}], s[MaxOf(d)])
  IN  iter[DOMAIN s]

Folds(c, base, s, D, g) ==
  g = [d \in D |-> IF d = {} THEN base ELSE Op(c, g[d \ {MaxOf(d)}], s[MaxOf(d)])]

(* Induction on a set of numbers.                                          *)
LEMMA NatsAreIn ==
  ASSUME NEW S, 0 \in S, \A n \in Nat : n \in S => n + 1 \in S
  PROVE  Nat \subseteq S
<1>1. SUFFICES ASSUME Nat \ S # {} PROVE FALSE
  OBVIOUS
<1>2. PICK x \in Nat \ S : \A y \in Nat \ S : <<y, x>> \notin OpToRel(<, Nat)
  BY <1>1, WFMin, NatLessThanWellFounded, Zenon
<1>3. \A y \in Nat \ S : ~(y < x)
  BY <1>2, Zenon DEF OpToRel
<1>4. x \in Nat /\ x \notin S
  OBVIOUS
<1>5. x # 0
  BY <1>4
<1>6. x - 1 \in Nat /\ x - 1 < x /\ (x - 1) + 1 = x
  BY <1>4, <1>5
<1>7. x - 1 \in S
  BY <1>3, <1>6
<1> QED BY <1>4, <1>6, <1>7

LEMMA RangeFinite ==
  ASSUME NEW n \in Nat
  PROVE  IsFiniteSet(1 .. n) /\ Cardinality(1 .. n) = n
BY FS_Interval

LEMMA MaxIsIn ==
  ASSUME NEW n \in Nat, NEW d \in SUBSET (1 .. n), d # {}
  PROVE  MaxOf(d) \in d /\ \A y \in d : MaxOf(d) >= y
<1> DEFINE S == {k \in Nat : \A e \in SUBSET (1 .. k) : e # {} => \E x \in e : \A y \in e : x >= y}
<1>1. 0 \in S
  <2>1. 1 .. 0 = {}
    OBVIOUS
  <2> QED BY <2>1
<1>2. ASSUME NEW k \in Nat, k \in S PROVE k + 1 \in S
  <2> SUFFICES ASSUME NEW e \in SUBSET (1 .. (k + 1)), e # {} PROVE \E x \in e : \A y \in e : x >= y
    OBVIOUS
  <2>1. CASE k + 1 \in e
    BY <2>1
  <2>2. CASE k + 1 \notin e
    <3>1. e \in SUBSET (1 .. k)
      BY <2>2
    <3> QED BY <1>2, <3>1
  <2> QED BY <2>1, <2>2
<1>3. n \in S
  <2> HIDE DEF S
  <2> QED BY <1>1, <1>2, NatsAreIn
<1>4. \E x \in d : \A y \in d : x >= y
  BY <1>3
<1> QED BY <1>4 DEF MaxOf

LEMMA FoldsExist ==
  ASSUME NEW c, NEW base, NEW s, NEW n \in Nat, NEW A, A = 1 .. n, DOMAIN s = A
  PROVE  \E g : Folds(c, base, s, SUBSET A, g)
<1> DEFINE Below(k) == {d \in SUBSET A : Cardinality(d) <= k}
           S == {k \in Nat : \E g : Folds(c, base, s, Below(k), g)}
<1>1. \A d \in SUBSET A : IsFiniteSet(d) /\ Cardinality(d) \in Nat /\ Cardinality(d) <= n
  <2>1. IsFiniteSet(A) /\ Cardinality(A) = n
    BY RangeFinite
  <2> QED BY <2>1, FS_Subset, FS_CardinalityType
<1>2. 0 \in S
  <2> DEFINE g == [d \in Below(0) |-> base]
  <2>1. \A d \in Below(0) : d = {}
    BY <1>1, FS_EmptySet
  <2>2. Folds(c, base, s, Below(0), g)
    BY <2>1 DEF Folds
  <2> QED BY <2>2
<1>3. ASSUME NEW k \in Nat, k \in S PROVE k + 1 \in S
  <2>1. PICK g : Folds(c, base, s, Below(k), g)
    BY <1>3
  <2> DEFINE h == [d \in Below(k + 1) |-> IF d \in Below(k) THEN g[d] ELSE Op(c, g[d \ {MaxOf(d)}], s[MaxOf(d)])]
  <2>2. ASSUME NEW d \in Below(k + 1)
        PROVE  h[d] = IF d = {} THEN base ELSE Op(c, h[d \ {MaxOf(d)}], s[MaxOf(d)])
    <3>1. CASE d = {}
      <4>1. d \in Below(k)
        BY <3>1, FS_EmptySet
      <4> QED BY <2>1, <3>1, <4>1 DEF Folds
    <3>2. CASE d # {}
      <4>1. d \ {MaxOf(d)} \in Below(k)
        <5>1. MaxOf(d) \in d /\ d \in SUBSET A /\ IsFiniteSet(d) /\ Cardinality(d) <= k + 1
          BY <1>1, <3>2, MaxIsIn
        <5>2. Cardinality(d \ {MaxOf(d)}) = Cardinality(d) - 1 /\ Cardinality(d) \in Nat
          BY <5>1, FS_RemoveElement, FS_CardinalityType
        <5>3. d \ {MaxOf(d)} \in SUBSET A
          BY <5>1
        <5> QED BY <5>1, <5>2, <5>3
      <4>2. d \ {MaxOf(d)} \in Below(k + 1)
        <5>1. \A e : e \in Below(k) => e \in Below(k + 1)
          BY <1>1
        <5> QED BY <4>1, <5>1
      <4>3. h[d \ {MaxOf(d)}] = g[d \ {MaxOf(d)}]
        BY <4>1, <4>2
      <4>4. CASE d \in Below(k)
        <5>1. h[d] = g[d]
          BY <4>4
        <5>2. g[d] = Op(c, g[d \ {MaxOf(d)}], s[MaxOf(d)])
          BY <2>1, <3>2, <4>4 DEF Folds
        <5> QED BY <3>2, <4>3, <5>1, <5>2
      <4>5. CASE d \notin Below(k)
        BY <3>2, <4>3, <4>5
      <4> QED BY <4>4, <4>5
    <3> QED BY <3>1, <3>2
  <2>3. Folds(c, base, s, Below(k + 1), h)
    <3>1. h = [d \in Below(k + 1) |-> h[d]]
      OBVIOUS
    <3> HIDE DEF h
    <3> QED BY <2>2, <3>1 DEF Folds
  <2>4. k + 1 \in Nat
    OBVIOUS
  <2> HIDE DEF h, Below
  <2> QED BY <2>3, <2>4
<1>4. n \in S
  <2> HIDE DEF S
  <2> QED BY <1>2, <1>3, NatsAreIn
<1>5. Below(n) = SUBSET A
  BY <1>1
<1> QED BY <1>4, <1>5

(* What every step keeps, the fold keeps.                                  *)
LEMMA FoldKeeps ==
  ASSUME NEW c, NEW base, NEW s, NEW n \in Nat, DOMAIN s = 1 .. n, P(c, 0, base),
         \A k \in 0 .. n - 1 : \A v : P(c, k, v) => P(c, k + 1, Op(c, v, s[k + 1]))
  PROVE  P(c, n, Folded(c, base, s))
<1> DEFINE G == CHOOSE g : Folds(c, base, s, SUBSET (1 .. n), g)
           S == {k \in Nat : k <= n => P(c, k, G[1 .. k])}
<1>1. Folds(c, base, s, SUBSET (1 .. n), G)
  BY FoldsExist
<1>2. Folded(c, base, s) = G[1 .. n]
  BY DEF Folded, Folds
<1> HIDE DEF G
<1>3. 0 \in S
  <2>1. 1 .. 0 = {} /\ {} \in SUBSET (1 .. n)
    OBVIOUS
  <2>2. G[{}] = base
    BY <1>1, <2>1 DEF Folds
  <2> QED BY <2>1, <2>2
<1>4. ASSUME NEW k \in Nat, k \in S PROVE k + 1 \in S
  <2> SUFFICES ASSUME k + 1 <= n PROVE P(c, k + 1, G[1 .. (k + 1)])
    OBVIOUS
  <2>1. PICK d : d = 1 .. (k + 1)
    OBVIOUS
  <2>2. d \in SUBSET (1 .. n) /\ d # {} /\ k + 1 \in d
    <3>1. \A x \in d : x \in 1 .. n
      BY <2>1
    <3>2. k + 1 \in d
      BY <2>1
    <3> QED BY <3>1, <3>2
  <2>3. MaxOf(d) = k + 1
    <3>1. MaxOf(d) \in d /\ MaxOf(d) >= k + 1
      BY <2>2, MaxIsIn
    <3> QED BY <2>1, <3>1
  <2>4. d \ {k + 1} = 1 .. k
    BY <2>1
  <2>5. G[d] = Op(c, G[1 .. k], s[k + 1])
    BY <1>1, <2>2, <2>3, <2>4 DEF Folds
  <2>6. P(c, k, G[1 .. k]) /\ k \in 0 .. n - 1
    BY <1>4
  <2> QED BY <2>1, <2>5, <2>6
<1>5. n \in S
  <2> HIDE DEF S
  <2> QED BY <1>3, <1>4, NatsAreIn
<1> QED BY <1>2, <1>5
=============================================================================
