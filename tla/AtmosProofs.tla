----------------------------- MODULE AtmosProofs -----------------------------
(***************************************************************************)
(* Proofs about Atmos for every map, every pipework and every layout: that *)
(* the centres of a step do not disturb each other, that an exchange keeps *)
(* what it moves, and the invariants the run atmos checks.                 *)
(***************************************************************************)
EXTENDS Atmos, FiniteSetTheorems, NaturalsInduction, TLAPS

-----------------------------------------------------------------------------
(* Sums over finite sets, as SumFunctionOnSet takes them.                  *)

(* Induction on a set of numbers, in the place of the library's induction on *)
(* an operator.                                                              *)
LEMMA SetInduction ==
  ASSUME NEW S, 0 \in S, \A n \in Nat : n \in S => n + 1 \in S
  PROVE  Nat \subseteq S
<1>1. SUFFICES ASSUME Nat \ S # {} PROVE FALSE
  OBVIOUS
<1>2. PICK x \in Nat \ S : \A y \in Nat \ S : <<y, x>> \notin OpToRel(<, Nat)
  BY <1>1, WFMin, NatLessThanWellFounded, Zenon
<1>3. \A y \in Nat \ S : ~(y < x)
  BY <1>2, Zenon DEF OpToRel
<1>4. x \in Nat /\ x \notin S
  OBVIOUS
<1>5. x # 0
  BY <1>4
<1>6. x - 1 \in Nat /\ x - 1 < x /\ (x - 1) + 1 = x
  BY <1>4, <1>5
<1>7. x - 1 \in S
  BY <1>3, <1>6
<1> QED BY <1>4, <1>6, <1>7

\* The element a sum takes first, and a sum over all sets of a family.
Pick(s) == CHOOSE x \in s : TRUE
SumsUp(f, D, g) == g = [s \in D |-> IF s = {} THEN 0 ELSE f[Pick(s)] + g[s \ {Pick(s)}]]

LEMMA PickIn == \A s : s # {} => Pick(s) \in s
BY DEF Pick

LEMMA SmallerSet ==
  ASSUME NEW s, IsFiniteSet(s), NEW x \in s
  PROVE  /\ IsFiniteSet(s \ {x}) /\ Cardinality(s) \in Nat \ {0}
         /\ Cardinality(s \ {x}) = Cardinality(s) - 1
<1>1. Cardinality(s) \in Nat /\ Cardinality(s) # 0
  BY FS_CardinalityType, FS_EmptySet
<1> QED BY <1>1, FS_RemoveElement

\* There are such sums, built up by the number of elements.
LEMMA SumsExist ==
  ASSUME NEW f, NEW A, IsFiniteSet(A)
  PROVE  \E g : SumsUp(f, SUBSET A, g)
<1> DEFINE Below(n) == {s \in SUBSET A : Cardinality(s) <= n}
           S == {n \in Nat : \E g : SumsUp(f, Below(n), g)}
<1>1. \A s \in SUBSET A : IsFiniteSet(s) /\ Cardinality(s) \in Nat /\ Cardinality(s) <= Cardinality(A)
  BY FS_Subset, FS_CardinalityType
<1>2. 0 \in S
  <2> DEFINE g == [s \in Below(0) |-> 0]
  <2>1. \A s \in Below(0) : s = {}
    BY <1>1, FS_EmptySet
  <2>2. SumsUp(f, Below(0), g)
    BY <2>1 DEF SumsUp
  <2> QED BY <2>2
<1>3. ASSUME NEW n \in Nat, n \in S PROVE n + 1 \in S
  <2>1. PICK g : SumsUp(f, Below(n), g)
    BY <1>3
  <2> DEFINE h == [s \in Below(n + 1) |-> IF s \in Below(n) THEN g[s] ELSE f[Pick(s)] + g[s \ {Pick(s)}]]
  <2>2. ASSUME NEW s \in Below(n + 1)
        PROVE  h[s] = IF s = {} THEN 0 ELSE f[Pick(s)] + h[s \ {Pick(s)}]
    <3>1. CASE s = {}
      <4>1. s \in Below(n)
        BY <3>1, FS_EmptySet
      <4> QED BY <2>1, <3>1, <4>1 DEF SumsUp
    <3>2. CASE s # {}
      <4>1. s \ {Pick(s)} \in Below(n)
        <5>1. Pick(s) \in s /\ s \in SUBSET A /\ IsFiniteSet(s) /\ Cardinality(s) <= n + 1
          BY <1>1, <3>2, PickIn
        <5>2. Cardinality(s \ {Pick(s)}) = Cardinality(s) - 1 /\ Cardinality(s) \in Nat
          BY <5>1, SmallerSet
        <5> QED BY <5>1, <5>2
      <4>2. s \ {Pick(s)} \in Below(n + 1)
        <5>1. \A k : k \in Below(n) => k \in Below(n + 1)
          BY <1>1
        <5> QED BY <4>1, <5>1
      <4>3. h[s \ {Pick(s)}] = g[s \ {Pick(s)}]
        BY <4>1, <4>2
      <4>4. CASE s \in Below(n)
        <5>1. h[s] = g[s]
          BY <4>4
        <5>2. g[s] = f[Pick(s)] + g[s \ {Pick(s)}]
          BY <2>1, <3>2, <4>4 DEF SumsUp
        <5> QED BY <3>2, <4>3, <5>1, <5>2
      <4>5. CASE s \notin Below(n)
        BY <3>2, <4>3, <4>5
      <4> QED BY <4>4, <4>5
    <3> QED BY <3>1, <3>2
  <2>3. SumsUp(f, Below(n + 1), h)
    <3>1. h = [s \in Below(n + 1) |-> h[s]]
      OBVIOUS
    <3> HIDE DEF h
    <3> QED BY <2>2, <3>1 DEF SumsUp
  <2>4. n + 1 \in Nat
    OBVIOUS
  <2> HIDE DEF h, Below
  <2> QED BY <2>3, <2>4
<1>4. Cardinality(A) \in S
  <2>1. Cardinality(A) \in Nat
    BY <1>1
  <2> HIDE DEF S
  <2> QED BY <1>2, <1>3, <2>1, SetInduction
<1>5. Below(Cardinality(A)) = SUBSET A
  BY <1>1
<1> QED BY <1>4, <1>5

LEMMA SumIs ==
  ASSUME NEW f, NEW A, IsFiniteSet(A)
  PROVE  \E g : SumsUp(f, SUBSET A, g) /\ SumFunctionOnSet(f, A) = g[A]
<1> DEFINE G == CHOOSE g : SumsUp(f, SUBSET A, g)
<1>1. SumsUp(f, SUBSET A, G)
  BY SumsExist
<1>2. SumFunctionOnSet(f, A) = G[A]
  BY DEF SumFunctionOnSet, FoldFunctionOnSet, MapThenFoldSet, SumsUp, Pick
<1> QED BY <1>1, <1>2

\* Any of them has the sums of all the subsets.
LEMMA SumOfSubset ==
  ASSUME NEW f, NEW A, IsFiniteSet(A), NEW g, SumsUp(f, SUBSET A, g), NEW B \in SUBSET A
  PROVE  g[B] = SumFunctionOnSet(f, B)
<1> DEFINE S == {n \in Nat : \A D, h, C : /\ IsFiniteSet(D) /\ SumsUp(f, SUBSET D, h)
                                          /\ C \in SUBSET D /\ Cardinality(C) = n
                                          => h[C] = SumFunctionOnSet(f, C)}
<1>1. 0 \in S
  <2> SUFFICES ASSUME NEW D, NEW h, NEW C, IsFiniteSet(D), SumsUp(f, SUBSET D, h), C \in SUBSET D, Cardinality(C) = 0
               PROVE  h[C] = SumFunctionOnSet(f, C)
    OBVIOUS
  <2>1. IsFiniteSet(C) /\ C = {}
    BY FS_Subset, FS_EmptySet
  <2>2. PICK k : SumsUp(f, SUBSET C, k) /\ SumFunctionOnSet(f, C) = k[C]
    BY <2>1, SumIs
  <2>3. h[C] = 0 /\ k[C] = 0
    BY <2>1, <2>2 DEF SumsUp
  <2> QED BY <2>2, <2>3
<1>2. ASSUME NEW n \in Nat, n \in S PROVE n + 1 \in S
  <2> SUFFICES ASSUME NEW D, NEW h, NEW C, IsFiniteSet(D), SumsUp(f, SUBSET D, h), C \in SUBSET D, Cardinality(C) = n + 1
               PROVE  h[C] = SumFunctionOnSet(f, C)
    <3>1. n + 1 \in Nat
      OBVIOUS
    <3> QED BY <3>1, Zenon
  <2>1. IsFiniteSet(C) /\ C # {}
    BY FS_Subset, FS_EmptySet
  <2> DEFINE R == C \ {Pick(C)}
  <2>2. Pick(C) \in C /\ R \in SUBSET D /\ R \in SUBSET C /\ Cardinality(R) = n
    BY <2>1, PickIn, SmallerSet
  <2>3. PICK k : SumsUp(f, SUBSET C, k) /\ SumFunctionOnSet(f, C) = k[C]
    BY <2>1, SumIs
  <2>4. h[C] = f[Pick(C)] + h[R]
    BY <2>1 DEF SumsUp
  <2>5. k[C] = f[Pick(C)] + k[R]
    BY <2>1, <2>3 DEF SumsUp
  <2> HIDE DEF R
  <2>6. h[R] = SumFunctionOnSet(f, R)
    BY <1>2, <2>2
  <2>7. k[R] = SumFunctionOnSet(f, R)
    BY <1>2, <2>1, <2>2, <2>3
  <2> QED BY <2>3, <2>4, <2>5, <2>6, <2>7
<1>3. IsFiniteSet(B) /\ Cardinality(B) \in Nat
  BY FS_Subset, FS_CardinalityType
<1>4. Cardinality(B) \in S
  <2> HIDE DEF S
  <2> QED BY <1>1, <1>2, <1>3, SetInduction
<1> QED BY <1>4

LEMMA SumStep ==
  ASSUME NEW f, NEW A, IsFiniteSet(A)
  PROVE  SumFunctionOnSet(f, A) = IF A = {} THEN 0 ELSE f[Pick(A)] + SumFunctionOnSet(f, A \ {Pick(A)})
<1>1. PICK g : SumsUp(f, SUBSET A, g) /\ SumFunctionOnSet(f, A) = g[A]
  BY SumIs
<1>2. g[A] = IF A = {} THEN 0 ELSE f[Pick(A)] + g[A \ {Pick(A)}]
  BY <1>1 DEF SumsUp
<1>3. g[A \ {Pick(A)}] = SumFunctionOnSet(f, A \ {Pick(A)})
  <2>1. PICK R : R = A \ {Pick(A)}
    OBVIOUS
  <2>2. R \in SUBSET A
    BY <2>1
  <2>3. g[R] = SumFunctionOnSet(f, R)
    <3>1. IsFiniteSet(A) /\ SumsUp(f, SUBSET A, g) /\ R \in SUBSET A
      BY <1>1, <2>2
    <3> QED BY <3>1, SumOfSubset, Zenon
  <2> QED BY <2>1, <2>3
<1> QED BY <1>1, <1>2, <1>3

LEMMA SumOfNone ==
  ASSUME NEW f
  PROVE  SumFunctionOnSet(f, {}) = 0
BY SumStep, FS_EmptySet

LEMMA SumType ==
  ASSUME NEW f, NEW A, IsFiniteSet(A), \A x \in A : f[x] \in Int
  PROVE  SumFunctionOnSet(f, A) \in Int
<1> DEFINE S == {n \in Nat : \A B \in SUBSET A : Cardinality(B) = n => SumFunctionOnSet(f, B) \in Int}
<1>1. 0 \in S
  <2> SUFFICES ASSUME NEW B \in SUBSET A, Cardinality(B) = 0 PROVE SumFunctionOnSet(f, B) \in Int
    OBVIOUS
  <2>1. IsFiniteSet(B) /\ B = {}
    BY FS_Subset, FS_EmptySet
  <2> QED BY <2>1, SumOfNone
<1>2. ASSUME NEW n \in Nat, n \in S PROVE n + 1 \in S
  <2> SUFFICES ASSUME NEW B \in SUBSET A, Cardinality(B) = n + 1 PROVE SumFunctionOnSet(f, B) \in Int
    OBVIOUS
  <2>1. IsFiniteSet(B) /\ B # {}
    BY FS_Subset, FS_EmptySet
  <2> DEFINE R == B \ {Pick(B)}
  <2>2. Pick(B) \in B /\ R \in SUBSET A /\ Cardinality(R) = n
    BY <2>1, PickIn, SmallerSet
  <2>3. SumFunctionOnSet(f, B) = f[Pick(B)] + SumFunctionOnSet(f, R)
    BY <2>1, SumStep
  <2> HIDE DEF R
  <2>4. SumFunctionOnSet(f, R) \in Int /\ f[Pick(B)] \in Int
    BY <1>2, <2>2
  <2> QED BY <2>3, <2>4
<1>3. Cardinality(A) \in S
  <2>1. Cardinality(A) \in Nat
    BY FS_CardinalityType
  <2> HIDE DEF S
  <2> QED BY <1>1, <1>2, <2>1, SetInduction
<1> QED BY <1>3

LEMMA SumSame ==
  ASSUME NEW f, NEW g, NEW A, IsFiniteSet(A), \A x \in A : f[x] = g[x]
  PROVE  SumFunctionOnSet(f, A) = SumFunctionOnSet(g, A)
<1> DEFINE S == {n \in Nat : \A B \in SUBSET A : Cardinality(B) = n => SumFunctionOnSet(f, B) = SumFunctionOnSet(g, B)}
<1>1. 0 \in S
  <2> SUFFICES ASSUME NEW B \in SUBSET A, Cardinality(B) = 0 PROVE SumFunctionOnSet(f, B) = SumFunctionOnSet(g, B)
    OBVIOUS
  <2>1. IsFiniteSet(B) /\ B = {}
    BY FS_Subset, FS_EmptySet
  <2> QED BY <2>1, SumOfNone
<1>2. ASSUME NEW n \in Nat, n \in S PROVE n + 1 \in S
  <2> SUFFICES ASSUME NEW B \in SUBSET A, Cardinality(B) = n + 1 PROVE SumFunctionOnSet(f, B) = SumFunctionOnSet(g, B)
    OBVIOUS
  <2>1. IsFiniteSet(B) /\ B # {}
    BY FS_Subset, FS_EmptySet
  <2> DEFINE R == B \ {Pick(B)}
  <2>2. Pick(B) \in B /\ R \in SUBSET A /\ Cardinality(R) = n
    BY <2>1, PickIn, SmallerSet
  <2>3. /\ SumFunctionOnSet(f, B) = f[Pick(B)] + SumFunctionOnSet(f, R)
        /\ SumFunctionOnSet(g, B) = g[Pick(B)] + SumFunctionOnSet(g, R)
    BY <2>1, SumStep
  <2> HIDE DEF R
  <2>4. SumFunctionOnSet(f, R) = SumFunctionOnSet(g, R) /\ f[Pick(B)] = g[Pick(B)]
    BY <1>2, <2>2
  <2> QED BY <2>3, <2>4
<1>3. Cardinality(A) \in S
  <2>1. Cardinality(A) \in Nat
    BY FS_CardinalityType
  <2> HIDE DEF S
  <2> QED BY <1>1, <1>2, <2>1, SetInduction
<1> QED BY <1>3

\* It does not matter which element is taken first.
LEMMA SumTakes ==
  ASSUME NEW f, NEW A, IsFiniteSet(A), \A x \in A : f[x] \in Int, NEW y \in A
  PROVE  SumFunctionOnSet(f, A) = f[y] + SumFunctionOnSet(f, A \ {y})
<1> DEFINE S == {n \in Nat : \A B \in SUBSET A : \A z \in B :
                    Cardinality(B) = n => SumFunctionOnSet(f, B) = f[z] + SumFunctionOnSet(f, B \ {z})}
<1>1. 0 \in S
  <2> SUFFICES ASSUME NEW B \in SUBSET A, NEW z \in B, Cardinality(B) = 0 PROVE FALSE
    OBVIOUS
  <2> QED BY FS_Subset, FS_EmptySet
<1>2. ASSUME NEW n \in Nat, n \in S PROVE n + 1 \in S
  <2> SUFFICES ASSUME NEW B \in SUBSET A, NEW z \in B, Cardinality(B) = n + 1
               PROVE  SumFunctionOnSet(f, B) = f[z] + SumFunctionOnSet(f, B \ {z})
    OBVIOUS
  <2>1. IsFiniteSet(B) /\ B # {}
    BY FS_Subset
  <2>2. PICK x : x = Pick(B)
    OBVIOUS
  <2>3. x \in B
    BY <2>1, <2>2, PickIn
  <2>4. SumFunctionOnSet(f, B) = f[x] + SumFunctionOnSet(f, B \ {x})
    BY <2>1, <2>2, SumStep
  <2>5. CASE z = x
    BY <2>4, <2>5
  <2>6. CASE z # x
    <3>1. PICK R : R = (B \ {x}) \ {z}
      OBVIOUS
    <3>2. /\ B \ {x} \in SUBSET A /\ z \in B \ {x} /\ Cardinality(B \ {x}) = n
          /\ B \ {z} \in SUBSET A /\ x \in B \ {z} /\ Cardinality(B \ {z}) = n
      BY <2>1, <2>3, <2>6, SmallerSet
    <3>3. SumFunctionOnSet(f, B \ {x}) = f[z] + SumFunctionOnSet(f, R)
      BY <1>2, <3>1, <3>2
    <3>4. SumFunctionOnSet(f, B \ {z}) = f[x] + SumFunctionOnSet(f, R)
      <4>1. R = (B \ {z}) \ {x}
        BY <3>1
      <4> QED BY <1>2, <3>2, <4>1
    <3>5. SumFunctionOnSet(f, R) \in Int
      <4>1. IsFiniteSet(R) /\ R \subseteq A
        BY <2>1, <3>1, FS_Subset
      <4> QED BY <4>1, SumType
    <3>6. f[x] \in Int /\ f[z] \in Int
      BY <2>3
    <3> QED BY <2>4, <3>3, <3>4, <3>5, <3>6
  <2> QED BY <2>5, <2>6
<1>3. Cardinality(A) \in S
  <2>1. Cardinality(A) \in Nat
    BY FS_CardinalityType
  <2> HIDE DEF S
  <2> QED BY <1>1, <1>2, <2>1, SetInduction
<1> QED BY <1>3

(* A sum changes by what one of its summands changes. *)
LEMMA SumChanges ==
  ASSUME NEW f, NEW g, NEW A, IsFiniteSet(A), \A x \in A : f[x] \in Int /\ g[x] \in Int,
         NEW y, \A x \in A \ {y} : f[x] = g[x]
  PROVE  SumFunctionOnSet(g, A) = SumFunctionOnSet(f, A) + (IF y \in A THEN g[y] - f[y] ELSE 0)
<1>1. SumFunctionOnSet(f, A) \in Int /\ IsFiniteSet(A \ {y})
  BY SumType, FS_Subset
<1>2. CASE y \in A
  <2>1. PICK r : r = SumFunctionOnSet(f, A \ {y})
    OBVIOUS
  <2>2. r = SumFunctionOnSet(g, A \ {y})
    BY <1>1, <2>1, SumSame
  <2>3. r \in Int
    BY <1>1, <2>1, SumType
  <2>4. SumFunctionOnSet(f, A) = f[y] + r
    BY <1>2, <2>1, SumTakes
  <2>5. SumFunctionOnSet(g, A) = g[y] + r
    BY <1>2, <2>2, SumTakes
  <2> QED BY <1>2, <2>3, <2>4, <2>5
<1>3. CASE y \notin A
  <2>1. SumFunctionOnSet(g, A) = SumFunctionOnSet(f, A)
    BY <1>3, SumSame
  <2> QED BY <1>1, <1>3, <2>1
<1> QED BY <1>2, <1>3

\* By how much the sum over A changes at y.
Change(f, g, A, y) == IF y \in A THEN g[y] - f[y] ELSE 0

\* f and g differ in five places at most.
FiveChange(f, g, D, v, w, x, y, z) ==
  /\ v \notin {w, x, y, z} /\ w \notin {x, y, z} /\ x \notin {y, z} /\ y # z
  /\ \A i \in D \ {v, w, x, y, z} : f[i] = g[i]

LEMMA SumChangesFive ==
  ASSUME NEW D, NEW f \in [D -> Int], NEW g \in [D -> Int], NEW A \in SUBSET D, IsFiniteSet(A),
         NEW v, NEW w, NEW x, NEW y, NEW z, FiveChange(f, g, D, v, w, x, y, z)
  PROVE  SumFunctionOnSet(g, A) = SumFunctionOnSet(f, A) + Change(f, g, A, v) + Change(f, g, A, w)
                                    + Change(f, g, A, x) + Change(f, g, A, y) + Change(f, g, A, z)
<1> DEFINE Mix(T) == [i \in D |-> IF i \in T THEN g[i] ELSE f[i]]
<1>1. ASSUME NEW T, NEW i, i \notin T
      PROVE  /\ SumFunctionOnSet(Mix(T \cup {i}), A) = SumFunctionOnSet(Mix(T), A) + Change(f, g, A, i)
             /\ SumFunctionOnSet(Mix(T), A) \in Int /\ Change(f, g, A, i) \in Int
  <2>1. PICK h, k : h = Mix(T) /\ k = Mix(T \cup {i})
    OBVIOUS
  <2>2. \A j \in A : h[j] \in Int /\ k[j] \in Int
    BY <2>1
  <2>3. \A j \in A \ {i} : h[j] = k[j]
    BY <2>1
  <2>4. i \in A => h[i] = f[i] /\ k[i] = g[i]
    BY <1>1, <2>1
  <2>5. SumFunctionOnSet(k, A) = SumFunctionOnSet(h, A) + (IF i \in A THEN k[i] - h[i] ELSE 0)
    BY <2>2, <2>3, SumChanges
  <2>6. SumFunctionOnSet(h, A) \in Int
    BY <2>2, SumType
  <2>7. Change(f, g, A, i) = (IF i \in A THEN k[i] - h[i] ELSE 0) /\ Change(f, g, A, i) \in Int
    BY <2>2, <2>4 DEF Change
  <2> QED BY <2>1, <2>5, <2>6, <2>7
<1>2. Mix({}) = f
  OBVIOUS
<1>3. Mix({v, w, x, y} \cup {z}) = g
  <2>1. \A i \in D : (IF i \in {v, w, x, y} \cup {z} THEN g[i] ELSE f[i]) = g[i]
    BY DEF FiveChange
  <2> QED BY <2>1
<1> HIDE DEF Mix
<1>4. v \notin {} /\ w \notin {v} /\ x \notin {v, w} /\ y \notin {v, w, x} /\ z \notin {v, w, x, y}
  BY DEF FiveChange
<1>5. /\ SumFunctionOnSet(Mix({} \cup {v}), A) = SumFunctionOnSet(f, A) + Change(f, g, A, v)
      /\ SumFunctionOnSet(f, A) \in Int /\ Change(f, g, A, v) \in Int
  BY <1>1, <1>2, <1>4
<1>6. /\ SumFunctionOnSet(Mix({v} \cup {w}), A) = SumFunctionOnSet(Mix({v}), A) + Change(f, g, A, w)
      /\ Change(f, g, A, w) \in Int
  BY <1>1, <1>4
<1>7. /\ SumFunctionOnSet(Mix({v, w} \cup {x}), A) = SumFunctionOnSet(Mix({v, w}), A) + Change(f, g, A, x)
      /\ Change(f, g, A, x) \in Int
  BY <1>1, <1>4
<1>8. /\ SumFunctionOnSet(Mix({v, w, x} \cup {y}), A) = SumFunctionOnSet(Mix({v, w, x}), A) + Change(f, g, A, y)
      /\ Change(f, g, A, y) \in Int
  BY <1>1, <1>4
<1>9. /\ SumFunctionOnSet(g, A) = SumFunctionOnSet(Mix({v, w, x, y}), A) + Change(f, g, A, z)
      /\ Change(f, g, A, z) \in Int
  BY <1>1, <1>3, <1>4
<1>10. /\ {} \cup {v} = {v} /\ {v} \cup {w} = {v, w} /\ {v, w} \cup {x} = {v, w, x}
       /\ {v, w, x} \cup {y} = {v, w, x, y}
  OBVIOUS
<1> QED BY <1>5, <1>6, <1>7, <1>8, <1>9, <1>10

(* Induction on a finite set, by the sets that are reached. *)
LEMMA FiniteInduction ==
  ASSUME NEW A, IsFiniteSet(A), NEW R, {} \in R,
         \A T \in SUBSET A : \A x \in A \ T : T \in R => T \cup {x} \in R
  PROVE  A \in R
<1> DEFINE S == {n \in Nat : \A T \in SUBSET A : Cardinality(T) = n => T \in R}
<1>1. 0 \in S
  <2>1. \A T \in SUBSET A : Cardinality(T) = 0 => T = {}
    BY FS_Subset, FS_EmptySet
  <2> QED BY <2>1
<1>2. ASSUME NEW n \in Nat, n \in S PROVE n + 1 \in S
  <2>1. ASSUME NEW T \in SUBSET A, Cardinality(T) = n + 1 PROVE T \in R
    <3>1. IsFiniteSet(T) /\ T # {}
      BY <2>1, FS_Subset, FS_EmptySet
    <3>2. PICK x : x \in T
      BY <3>1
    <3>3. PICK U : U = T \ {x}
      OBVIOUS
    <3>4. Cardinality(U) = n
      BY <2>1, <3>1, <3>2, <3>3, SmallerSet
    <3>5. U \in SUBSET A /\ x \in A \ U /\ T = U \cup {x}
      BY <3>2, <3>3
    <3>6. U \in R
      BY <1>2, <3>4, <3>5
    <3> QED BY <3>5, <3>6
  <2> QED BY <2>1
<1>3. Cardinality(A) \in S
  <2>1. Cardinality(A) \in Nat
    BY FS_CardinalityType
  <2> HIDE DEF S
  <2> QED BY <1>1, <1>2, <2>1, SetInduction
<1> QED BY <1>3

-----------------------------------------------------------------------------
(* Holders.                                                                *)

(* Rounding down keeps natural numbers. *)
LEMMA DivNat ==
  ASSUME NEW a \in Nat, NEW b \in Nat, b # 0
  PROVE  a \div b \in Nat
  OBVIOUS

(* A sum divided rounds to a quotient and a rest. *)
LEMMA DivMod ==
  ASSUME NEW a \in Nat, NEW b \in 1..5
  PROVE  /\ a \div b \in Nat /\ a % b \in Nat
         /\ b * (a \div b) + (a % b) = a
  OBVIOUS

LEMMA MulNat ==
  ASSUME NEW a \in Nat, NEW b \in Nat
  PROVE  a * b \in Nat
  OBVIOUS

(* No more than everything is taken out of a holder. *)
LEMMA PartBound ==
  ASSUME NEW a \in Nat, NEW l \in Nat, l <= MAX_GAS_LEVEL
  PROVE  Part(a, l) \in 0..a
<1>1. a * l \in Nat /\ a * l <= a * 1000
  BY DEF MAX_GAS_LEVEL
<1>2. (a * l) \div 1000 \in Nat /\ (a * l) \div 1000 <= a
  BY <1>1
<1>3. QED
  BY <1>2 DEF Part, MAX_GAS_LEVEL

LEMMA MacroOK ==
  ASSUME NEW d \in AtmosData
  PROVE  UpdateMacroParams(d) \in AtmosData /\ IsCurrent(UpdateMacroParams(d))
<1> DEFINE A == d.amount
<1>1. A \in [Stuff -> Nat] /\ d.volume \in Nat
  BY DEF AtmosData
<1>2. Freedom(A) \in Nat /\ Moles(A) \in Nat
  BY <1>1 DEF Freedom, Moles, Stuff, GASES
<1>3. Temperature(A) \in Nat
  <2>1. Freedom(A) \div 2 \in Nat
    BY <1>2
  <2>2. A["energy"] * ENERGY_CONST \in Nat
    BY <1>1 DEF Stuff, ENERGY_CONST
  <2>3. QED
    BY <2>1, <2>2, DivNat DEF Temperature
<1>4. Pressure(A, d.volume) \in Nat
  <2>1. Moles(A) * Temperature(A) \in Nat
    BY <1>2, <1>3, MulNat
  <2>2. QED
    BY <2>1, <1>1, DivNat DEF Pressure
<1>5. QED
  BY <1>1, <1>3, <1>4 DEF UpdateMacroParams, IsCurrent, AtmosData

LEMMA WithAmountOK ==
  ASSUME NEW d \in AtmosData, NEW amount \in [Stuff -> Nat]
  PROVE  WithAmount(d, amount) \in AtmosData /\ IsCurrent(WithAmount(d, amount))
<1>1. [d EXCEPT !.amount = amount] \in AtmosData
  BY DEF AtmosData
<1>2. QED
  BY <1>1, MacroOK DEF WithAmount

-----------------------------------------------------------------------------
(* Exchanges between two holders.                                          *)

(* Both holders of an exchange stay holders, and are up to date.  *)
LEMMA ConnectOK ==
  ASSUME NEW owner \in AtmosData, NEW guest \in AtmosData,
         NEW lo \in Nat, lo <= MAX_GAS_LEVEL, NEW lg \in Nat, lg <= MAX_GAS_LEVEL,
         NEW share \in Nat, share <= MAX_GAS_LEVEL
  PROVE  /\ ConnectOwner(owner, guest, lo, lg, share) \in AtmosData
         /\ IsCurrent(ConnectOwner(owner, guest, lo, lg, share))
         /\ ConnectGuest(owner, guest, lo, lg, share) \in AtmosData
         /\ IsCurrent(ConnectGuest(owner, guest, lo, lg, share))
<1>1. owner.amount \in [Stuff -> Nat] /\ guest.amount \in [Stuff -> Nat]
  BY DEF AtmosData
<1>2. ASSUME NEW s \in Stuff
      PROVE  /\ OwnerAmount(owner, guest, lo, lg, share, s) \in Nat
             /\ GuestAmount(owner, guest, lo, lg, share, s) \in Nat
  <2>1. owner.amount[s] \in Nat /\ guest.amount[s] \in Nat
    BY <1>1
  <2>2. Part(owner.amount[s], lo) \in 0..owner.amount[s]
    BY <2>1, PartBound
  <2>3. Part(guest.amount[s], lg) \in 0..guest.amount[s]
    BY <2>1, PartBound
  <2>4. Pool(owner, guest, lo, lg, s) \in Nat
    BY <2>1, <2>2, <2>3 DEF Pool
  <2>5. Part(Pool(owner, guest, lo, lg, s), share) \in 0..Pool(owner, guest, lo, lg, s)
    BY <2>4, PartBound
  <2>6. QED
    BY <2>1, <2>2, <2>3, <2>4, <2>5 DEF OwnerAmount, GuestAmount
<1>3. QED
  BY <1>2, WithAmountOK DEF ConnectOwner, ConnectGuest

(* An exchange between two holders moves gas and energy and neither makes  *)
(* nor loses any, whatever levels and share it is asked for.               *)
THEOREM ConnectConserves ==
  ASSUME NEW owner \in AtmosData, NEW guest \in AtmosData, NEW s \in Stuff,
         NEW lo \in Nat, lo <= MAX_GAS_LEVEL, NEW lg \in Nat, lg <= MAX_GAS_LEVEL,
         NEW share \in Nat, share <= MAX_GAS_LEVEL
  PROVE  ConnectOwner(owner, guest, lo, lg, share).amount[s]
           + ConnectGuest(owner, guest, lo, lg, share).amount[s]
         = owner.amount[s] + guest.amount[s]
<1>1. owner.amount[s] \in Nat /\ guest.amount[s] \in Nat
  BY DEF AtmosData
<1>2. Part(owner.amount[s], lo) \in 0..owner.amount[s]
  BY <1>1, PartBound
<1>3. Part(guest.amount[s], lg) \in 0..guest.amount[s]
  BY <1>1, PartBound
<1>4. Pool(owner, guest, lo, lg, s) = Part(owner.amount[s], lo) + Part(guest.amount[s], lg)
  BY DEF Pool
<1>5. Part(Pool(owner, guest, lo, lg, s), share) \in Int
  BY <1>1, <1>2, <1>3, <1>4, PartBound
<1>6. ConnectOwner(owner, guest, lo, lg, share).amount[s] = OwnerAmount(owner, guest, lo, lg, share, s)
  BY DEF ConnectOwner, WithAmount, UpdateMacroParams, AtmosData
<1>7. ConnectGuest(owner, guest, lo, lg, share).amount[s] = GuestAmount(owner, guest, lo, lg, share, s)
  BY DEF ConnectGuest, WithAmount, UpdateMacroParams, AtmosData
<1>8. QED
  BY <1>1, <1>2, <1>3, <1>4, <1>5, <1>6, <1>7 DEF OwnerAmount, GuestAmount

-----------------------------------------------------------------------------
(* The machines.  GasKept is what Process does to the gas.                 *)

GasFine(g) ==
  /\ g = [air |-> g.air, held |-> g.held]
  /\ g.air \in [Cell -> AtmosData] /\ g.held \in [Machine -> AtmosData]
  /\ \A c \in Cell : IsCurrent(g.air[c])
  /\ \A m \in Machine : IsCurrent(g.held[m])

\* All the stuff s in the holders h, whose names are D, and in the world.
Amounts(h, D, s) == SumFunctionOnSet([i \in D |-> h[i].amount[s]], D)
Total(g, s) == Amounts(g.air, Cell, s) + Amounts(g.held, Machine, s)

GasKept(g, h) == GasFine(h) /\ \A s \in Stuff : Total(h, s) = Total(g, s)

LEMMA NamesFinite == IsFiniteSet(Cell) /\ IsFiniteSet(Machine)
<1>1. IsFiniteSet(0..(Width - 1)) /\ IsFiniteSet(0..(Height - 1))
  BY GridAssumption, FS_Interval
<1>2. IsFiniteSet(Cell)
  BY <1>1, FS_Product DEF Cell
<1> QED BY <1>2, PipesAssumption

\* The holders differ at c only.
OneChanged(h, k, D, c) ==
  /\ h \in [D -> AtmosData] /\ k \in [D -> AtmosData] /\ c \in D
  /\ \A i \in D \ {c} : k[i] = h[i]

(* One holder with other contents changes the sum by what it gains.        *)
LEMMA AmountChanges ==
  ASSUME NEW D, IsFiniteSet(D), NEW h, NEW k, NEW c, OneChanged(h, k, D, c), NEW s \in Stuff
  PROVE  /\ Amounts(k, D, s) = Amounts(h, D, s) + (k[c].amount[s] - h[c].amount[s])
         /\ Amounts(h, D, s) \in Int /\ h[c].amount[s] \in Int /\ k[c].amount[s] \in Int
<1>1. PICK f, g : f = [i \in D |-> h[i].amount[s]] /\ g = [i \in D |-> k[i].amount[s]]
  OBVIOUS
<1>2. h \in [D -> AtmosData] /\ k \in [D -> AtmosData] /\ c \in D /\ \A i \in D \ {c} : k[i] = h[i]
  BY DEF OneChanged
<1>3. \A x \in AtmosData : x.amount[s] \in Int
  BY DEF AtmosData
<1>4. \A i \in D : f[i] \in Int /\ g[i] \in Int
  BY <1>1, <1>2, <1>3
<1>5. \A i \in D \ {c} : f[i] = g[i]
  BY <1>1, <1>2
<1>6. SumFunctionOnSet(g, D) = SumFunctionOnSet(f, D) + (IF c \in D THEN g[c] - f[c] ELSE 0)
  BY <1>4, <1>5, SumChanges
<1>7. SumFunctionOnSet(f, D) \in Int
  BY <1>4, SumType
<1>8. f[c] = h[c].amount[s] /\ g[c] = k[c].amount[s]
  BY <1>1, <1>2
<1> QED BY <1>1, <1>2, <1>4, <1>6, <1>7, <1>8 DEF Amounts

Level == {n \in Nat : n <= MAX_GAS_LEVEL}

\* The holders o and p may take the place of x and y.
Exchanged(x, y, o, p) ==
  /\ o \in AtmosData /\ IsCurrent(o) /\ p \in AtmosData /\ IsCurrent(p)
  /\ \A s \in Stuff : o.amount[s] + p.amount[s] = x.amount[s] + y.amount[s]

LEMMA ConnectExchanges ==
  ASSUME NEW x \in AtmosData, NEW y \in AtmosData, NEW lo \in Level, NEW lg \in Level, NEW share \in Level
  PROVE  Exchanged(x, y, ConnectOwner(x, y, lo, lg, share), ConnectGuest(x, y, lo, lg, share))
<1>1. /\ lo \in Nat /\ lo <= MAX_GAS_LEVEL /\ lg \in Nat /\ lg <= MAX_GAS_LEVEL
      /\ share \in Nat /\ share <= MAX_GAS_LEVEL
  BY DEF Level
<1>2. PICK o, p : o = ConnectOwner(x, y, lo, lg, share) /\ p = ConnectGuest(x, y, lo, lg, share)
  OBVIOUS
<1>3. o \in AtmosData /\ IsCurrent(o) /\ p \in AtmosData /\ IsCurrent(p)
  BY <1>1, <1>2, ConnectOK
<1>4. ASSUME NEW s \in Stuff PROVE o.amount[s] + p.amount[s] = x.amount[s] + y.amount[s]
  BY <1>1, <1>2, ConnectConserves
<1> QED BY <1>2, <1>3, <1>4 DEF Exchanged

LEMMA ConnectMachinesKeeps ==
  ASSUME NEW g, GasFine(g), NEW a \in Machine, NEW b \in Machine,
         NEW lo \in Level, NEW lg \in Level, NEW share \in Level
  PROVE  GasKept(g, ConnectMachines(g, a, b, lo, lg, share))
<1>1. PICK x, y : x = g.held[a] /\ y = g.held[b]
  OBVIOUS
<1>2. PICK o, p : o = ConnectOwner(x, y, lo, lg, share) /\ p = ConnectGuest(x, y, lo, lg, share)
  OBVIOUS
<1>3. x \in AtmosData /\ y \in AtmosData
  BY <1>1 DEF GasFine
<1>4. Exchanged(x, y, o, p)
  BY <1>2, <1>3, ConnectExchanges
<1>5. CASE a = b
  BY <1>5 DEF ConnectMachines, GasKept
<1>6. CASE a # b
  <2>1. PICK f : f = g.held
    OBVIOUS
  <2>2. PICK h : h = [f EXCEPT ![a] = o]
    OBVIOUS
  <2>3. PICK k : k = [h EXCEPT ![b] = p]
    OBVIOUS
  <2>4. f \in [Machine -> AtmosData] /\ o \in AtmosData /\ p \in AtmosData
    BY <1>4, <2>1 DEF GasFine, Exchanged
  <2>5. OneChanged(f, h, Machine, a) /\ OneChanged(h, k, Machine, b)
    BY <1>6, <2>2, <2>3, <2>4 DEF OneChanged
  <2>6. f[a] = x /\ h[a] = o /\ h[b] = y /\ k[b] = p
    BY <1>1, <1>6, <2>1, <2>2, <2>3, <2>4
  <2>7. ConnectMachines(g, a, b, lo, lg, share) = [air |-> g.air, held |-> k]
    BY <1>1, <1>2, <1>6, <2>1, <2>2, <2>3 DEF ConnectMachines, GasFine
  <2>8. GasFine([air |-> g.air, held |-> k])
    BY <1>4, <2>1, <2>2, <2>3 DEF GasFine, Exchanged
  <2>9. ASSUME NEW s \in Stuff PROVE Amounts(k, Machine, s) = Amounts(f, Machine, s)
    <3>1. PICK A \in Int, x1 \in Int, y1 \in Int, o1 \in Int, p1 \in Int :
            /\ A = Amounts(f, Machine, s)
            /\ x1 = x.amount[s] /\ y1 = y.amount[s] /\ o1 = o.amount[s] /\ p1 = p.amount[s]
      BY <2>5, <2>6, NamesFinite, AmountChanges
    <3>2. Amounts(h, Machine, s) = A + (o1 - x1)
      BY <2>5, <2>6, <3>1, NamesFinite, AmountChanges
    <3>3. Amounts(k, Machine, s) = A + (o1 - x1) + (p1 - y1)
      BY <2>5, <2>6, <3>1, <3>2, NamesFinite, AmountChanges
    <3>4. o1 + p1 = x1 + y1
      BY <1>4, <3>1 DEF Exchanged
    <3>5. A + (o1 - x1) + (p1 - y1) = A
      BY <3>4
    <3> QED BY <3>1, <3>3, <3>5
  <2> QED BY <2>1, <2>7, <2>8, <2>9 DEF GasKept, Total
<1> QED BY <1>5, <1>6

\* A cell and a machine may be given the contents of an exchange of theirs.
LEMMA CellAndMachineKeep ==
  ASSUME NEW g, GasFine(g), NEW c \in Cell, NEW m \in Machine, NEW o, NEW p,
         Exchanged(g.air[c], g.held[m], o, p)
  PROVE  GasKept(g, [air |-> [g.air EXCEPT ![c] = o], held |-> [g.held EXCEPT ![m] = p]])
<1>1. PICK a, f : a = g.air /\ f = g.held
  OBVIOUS
<1>2. PICK h, k : h = [a EXCEPT ![c] = o] /\ k = [f EXCEPT ![m] = p]
  OBVIOUS
<1>3. a \in [Cell -> AtmosData] /\ f \in [Machine -> AtmosData] /\ o \in AtmosData /\ p \in AtmosData
  BY <1>1 DEF GasFine, Exchanged
<1>4. GasFine([air |-> h, held |-> k])
  BY <1>1, <1>2 DEF GasFine, Exchanged
<1>5. ASSUME NEW s \in Stuff
      PROVE  Amounts(h, Cell, s) + Amounts(k, Machine, s) = Amounts(a, Cell, s) + Amounts(f, Machine, s)
  <2>1. OneChanged(a, h, Cell, c) /\ OneChanged(f, k, Machine, m)
    BY <1>2, <1>3 DEF OneChanged
  <2>2. h[c] = o /\ k[m] = p
    BY <1>2, <1>3
  <2>3. PICK A \in Int, B \in Int, x1 \in Int, y1 \in Int, o1 \in Int, p1 \in Int :
          /\ A = Amounts(a, Cell, s) /\ B = Amounts(f, Machine, s)
          /\ x1 = a[c].amount[s] /\ y1 = f[m].amount[s] /\ o1 = o.amount[s] /\ p1 = p.amount[s]
    BY <2>1, <2>2, NamesFinite, AmountChanges
  <2>4. Amounts(h, Cell, s) = A + (o1 - x1) /\ Amounts(k, Machine, s) = B + (p1 - y1)
    BY <2>1, <2>2, <2>3, NamesFinite, AmountChanges
  <2>5. o1 + p1 = x1 + y1
    BY <1>1, <2>3 DEF Exchanged
  <2>6. A + (o1 - x1) + (B + (p1 - y1)) = A + B
    BY <2>5
  <2> QED BY <2>3, <2>4, <2>6
<1> QED BY <1>1, <1>2, <1>4, <1>5 DEF GasKept, Total

LEMMA ConnectTileKeeps ==
  ASSUME NEW g, GasFine(g), NEW c \in Cell, NEW m \in Machine,
         NEW lo \in Level, NEW lg \in Level, NEW share \in Level
  PROVE  GasKept(g, ConnectTile(g, c, m, lo, lg, share))
<1>1. PICK x, y : x = g.air[c] /\ y = g.held[m]
  OBVIOUS
<1>2. PICK o, p : o = ConnectOwner(x, y, lo, lg, share) /\ p = ConnectGuest(x, y, lo, lg, share)
  OBVIOUS
<1>3. x \in AtmosData /\ y \in AtmosData
  BY <1>1 DEF GasFine
<1>4. Exchanged(x, y, o, p)
  BY <1>2, <1>3, ConnectExchanges
<1>5. ConnectTile(g, c, m, lo, lg, share)
        = [air |-> [g.air EXCEPT ![c] = o], held |-> [g.held EXCEPT ![m] = p]]
  BY <1>1, <1>2 DEF ConnectTile
<1> QED BY <1>1, <1>4, <1>5, CellAndMachineKeep

LEMMA ConnectTankKeeps ==
  ASSUME NEW g, GasFine(g), NEW c \in Cell, NEW m \in Machine
  PROVE  GasKept(g, ConnectTank(g, c, m))
<1>1. PICK x, y : x = g.air[c] /\ y = g.held[m]
  OBVIOUS
<1>2. PICK o, p : /\ o = ConnectOwner(y, x, MAX_GAS_LEVEL, MAX_GAS_LEVEL, HALF)
                  /\ p = ConnectGuest(y, x, MAX_GAS_LEVEL, MAX_GAS_LEVEL, HALF)
  OBVIOUS
<1>3. x \in AtmosData /\ y \in AtmosData
  BY <1>1 DEF GasFine
<1>4. MAX_GAS_LEVEL \in Level /\ HALF \in Level
  BY DEF MAX_GAS_LEVEL, HALF, Level
<1>5. Exchanged(y, x, o, p)
  BY <1>2, <1>3, <1>4, ConnectExchanges
<1>6. Exchanged(x, y, p, o)
  <2>1. \A s \in Stuff : \A z \in AtmosData : z.amount[s] \in Int
    BY DEF AtmosData
  <2> QED BY <1>3, <1>5, <2>1 DEF Exchanged
<1>7. ConnectTank(g, c, m)
        = [air |-> [g.air EXCEPT ![c] = p], held |-> [g.held EXCEPT ![m] = o]]
  BY <1>1, <1>2 DEF ConnectTank
<1> QED BY <1>1, <1>6, <1>7, CellAndMachineKeep

EndsOK(e) == e \in [Machine -> [Side -> Machine \cup {None}]]

LEMMA ProcessSocketKeeps ==
  ASSUME NEW g, GasFine(g), NEW e, EndsOK(e), NEW st, NEW m \in Machine, NEW i
  PROVE  GasKept(g, ProcessSocket(g, e, st, m, i))
<1>1. MAX_GAS_LEVEL \in Level /\ HALF \in Level
  BY DEF MAX_GAS_LEVEL, HALF, Level
<1>2. GasKept(g, g)
  BY DEF GasKept
<1>3. ASSUME NEW d \in Side
      PROVE  GasKept(g, ProcessHelper(g, e, st, m, d))
  <2>1. CASE e[m][d] = None
    <3>1. CellOf[m] \in Cell
      BY PipesAssumption
    <3>2. GasKept(g, ConnectTile(g, CellOf[m], m, MAX_GAS_LEVEL, MAX_GAS_LEVEL, HALF))
      BY <1>1, <3>1, ConnectTileKeeps
    <3> QED BY <2>1, <3>2 DEF ProcessHelper
  <2>2. CASE e[m][d] # None
    <3>1. e[m][d] \in Machine
      BY <2>2 DEF EndsOK
    <3>2. GasKept(g, ConnectMachines(g, e[m][d], m, MAX_GAS_LEVEL, MAX_GAS_LEVEL, HALF))
      BY <1>1, <3>1, ConnectMachinesKeeps
    <3> QED BY <1>2, <2>2, <3>2 DEF ProcessHelper
  <2> QED BY <2>1, <2>2
<1>4. i \in DOMAIN Sockets[m] => Sockets[m][i] \in Side
  BY SocketsAssumption
<1> QED BY <1>2, <1>3, <1>4 DEF ProcessSocket

LEMMA ProcessSocketsKeep ==
  ASSUME NEW g, GasFine(g), NEW e, EndsOK(e), NEW st, NEW m \in Machine
  PROVE  GasKept(g, ProcessSockets(g, e, st, m))
<1> DEFINE g1 == ProcessSocket(g, e, st, m, 1)
           g2 == ProcessSocket(g1, e, st, m, 2)
           g3 == ProcessSocket(g2, e, st, m, 3)
<1>1. GasKept(g, g1)
  BY ProcessSocketKeeps
<1> HIDE DEF g1
<1>2. GasKept(g1, g2)
  BY <1>1, ProcessSocketKeeps DEF GasKept
<1> HIDE DEF g2
<1>3. GasKept(g2, g3)
  BY <1>2, ProcessSocketKeeps DEF GasKept
<1>4. ProcessSockets(g, e, st, m) = g3
  BY DEF ProcessSockets, g1, g2
<1> HIDE DEF g3
<1> QED BY <1>1, <1>2, <1>3, <1>4 DEF GasKept

LEMMA PumpKeeps ==
  ASSUME NEW g, GasFine(g), NEW e, EndsOK(e), NEW st, NEW m \in Machine, KindOf[m] = "pump"
  PROVE  GasKept(g, Pump(g, e, st, m))
<1>1. MAX_GAS_LEVEL \in Level /\ MAX_GAS_LEVEL \div 4 \in Level
  BY DEF MAX_GAS_LEVEL, Level
<1> DEFINE h == ProcessSocket(g, e, st, m, 2)
           d == Sockets[m][1]
<1>2. GasKept(g, h)
  BY ProcessSocketKeeps
<1>3. Pump(g, e, st, m) = ProcessHead(h, e, m, d)
  BY DEF Pump
<1> HIDE DEF h
<1>4. GasFine(h) /\ GasKept(h, h)
  BY <1>2 DEF GasKept
<1>5. d \in Side
  <2>1. 1 \in DOMAIN Sockets[m]
    BY SocketsAssumption
  <2> QED BY <2>1, SocketsAssumption
<1>6. GasKept(h, ProcessHead(h, e, m, d))
  <2>1. CASE e[m][d] = None
    <3>1. CellOf[m] \in Cell
      BY PipesAssumption
    <3>2. GasKept(h, ConnectTile(h, CellOf[m], m, MAX_GAS_LEVEL, MAX_GAS_LEVEL \div 4, MAX_GAS_LEVEL))
      BY <1>1, <1>4, <3>1, ConnectTileKeeps
    <3> QED BY <1>4, <2>1, <3>2 DEF ProcessHead
  <2>2. CASE e[m][d] # None
    <3>1. e[m][d] \in Machine
      BY <1>5, <2>2 DEF EndsOK
    <3>2. GasKept(h, ConnectMachines(h, e[m][d], m, MAX_GAS_LEVEL, MAX_GAS_LEVEL \div 4, MAX_GAS_LEVEL))
      BY <1>1, <1>4, <3>1, ConnectMachinesKeeps
    <3> QED BY <1>4, <2>2, <3>2 DEF ProcessHead
  <2> QED BY <2>1, <2>2
<1> QED BY <1>2, <1>3, <1>6 DEF GasKept

LEMMA ProcessTankKeeps ==
  ASSUME NEW g, GasFine(g), NEW m \in Machine
  PROVE  GasKept(g, ProcessTank(g, m))
<1> DEFINE tanks == {t \in Machine : IsTankOf(t, m)}
           tank == CHOOSE t \in tanks : TRUE
<1>1. CASE tanks = {}
  BY <1>1 DEF ProcessTank, GasKept
<1>2. CASE tanks # {}
  <2>1. tank \in Machine
    BY <1>2
  <2>2. MAX_GAS_LEVEL \in Level /\ HALF \in Level
    BY DEF MAX_GAS_LEVEL, HALF, Level
  <2> HIDE DEF tank
  <2>3. GasKept(g, ConnectMachines(g, tank, m, MAX_GAS_LEVEL, MAX_GAS_LEVEL, HALF))
    BY <2>1, <2>2, ConnectMachinesKeeps
  <2> QED BY <1>2, <2>3 DEF ProcessTank, tank
<1> QED BY <1>1, <1>2

(* Whatever a machine does in its turn, every holder stays one, what it    *)
(* caches is what it contains, and no gas is made or lost.                 *)
LEMMA ProcessedKeeps ==
  ASSUME NEW g, GasFine(g), NEW e, EndsOK(e), NEW st, NEW m \in Machine
  PROVE  GasKept(g, Processed(g, e, st, m))
<1>1. PICK h : h = ProcessSockets(g, e, st, m)
  OBVIOUS
<1>2. GasKept(g, h) /\ GasFine(h) /\ GasKept(g, g)
  BY <1>1, ProcessSocketsKeep DEF GasKept
<1>3. CellOf[m] \in Cell /\ MAX_GAS_LEVEL \in Level /\ HALF \in Level
  BY PipesAssumption DEF MAX_GAS_LEVEL, HALF, Level
<1>4. KindOf[m] = "pump" => GasKept(g, Pump(g, e, st, m))
  BY PumpKeeps
<1>5. GasKept(g, ConnectTile(h, CellOf[m], m, MAX_GAS_LEVEL, MAX_GAS_LEVEL, HALF))
  <2>1. GasKept(h, ConnectTile(h, CellOf[m], m, MAX_GAS_LEVEL, MAX_GAS_LEVEL, HALF))
    BY <1>2, <1>3, ConnectTileKeeps
  <2> QED BY <1>2, <2>1 DEF GasKept
<1>6. GasKept(g, ProcessTank(h, m))
  <2>1. GasKept(h, ProcessTank(h, m))
    BY <1>2, ProcessTankKeeps
  <2> QED BY <1>2, <2>1 DEF GasKept
<1>7. GasKept(g, ConnectTank(g, CellOf[m], m))
  BY <1>3, ConnectTankKeeps
<1> QED BY <1>1, <1>2, <1>4, <1>5, <1>6, <1>7 DEF Processed

-----------------------------------------------------------------------------
(* The centres of a step.                                                  *)

LEMMA DivModAny ==
  ASSUME NEW a \in Nat, NEW b \in Nat, b > 0
  PROVE  /\ a \div b \in Nat /\ a % b \in 0..(b - 1)
         /\ b * (a \div b) + (a % b) = a
  OBVIOUS

(* Quotient and rest are the only ones there are. *)
LEMMA DivUnique ==
  ASSUME NEW a \in Nat, NEW b \in Nat, b > 0, NEW q \in Nat, NEW r \in 0..(b - 1), a = b * q + r
  PROVE  a \div b = q /\ a % b = r
<1> DEFINE p == a \div b
           s == a % b
<1>1. p \in Nat /\ s \in 0..(b - 1) /\ b * p + s = a
  OBVIOUS
<1> HIDE DEF p, s
<1>2. b * p \in Nat /\ b * q \in Nat
  BY <1>1
<1>3. p <= q
  <2>1. SUFFICES ASSUME p > q PROVE FALSE
    BY <1>1
  <2>2. PICK k \in Nat : p = q + 1 + k
    <3>1. p - q - 1 \in Nat
      BY <1>1, <2>1
    <3>2. p = q + 1 + (p - q - 1)
      BY <1>1
    <3>3. QED
      BY <3>1, <3>2
  <2>3. b * p = b * q + b + b * k
    BY <2>2
  <2>4. b * k \in Nat
    OBVIOUS
  <2>5. QED
    BY <1>1, <1>2, <2>3, <2>4
<1>4. q <= p
  <2>1. SUFFICES ASSUME q > p PROVE FALSE
    BY <1>1
  <2>2. PICK k \in Nat : q = p + 1 + k
    <3>1. q - p - 1 \in Nat
      BY <1>1, <2>1
    <3>2. q = p + 1 + (q - p - 1)
      BY <1>1
    <3>3. QED
      BY <3>1, <3>2
  <2>3. b * q = b * p + b + b * k
    BY <1>1, <2>2
  <2>4. b * k \in Nat
    OBVIOUS
  <2>5. QED
    BY <1>1, <1>2, <2>3, <2>4
<1>5. p = q
  BY <1>1, <1>3, <1>4
<1>6. s = r
  BY <1>1, <1>2, <1>5
<1>7. QED
  BY <1>5, <1>6 DEF p, s

(* A coordinate in a group that is not on its border has both neighbours in *)
(* the group.                                                               *)
LEMMA InnerNeighbours ==
  ASSUME NEW x \in Nat, x % GroupSize \in 1..(GroupSize - 2)
  PROVE  /\ x - 1 \in Nat
         /\ (x - 1) \div GroupSize = x \div GroupSize /\ (x + 1) \div GroupSize = x \div GroupSize
         /\ (x - 1) % GroupSize = (x % GroupSize) - 1 /\ (x + 1) % GroupSize = (x % GroupSize) + 1
<1> DEFINE q == x \div GroupSize
           r == x % GroupSize
<1>1. GroupSize \in Nat /\ GroupSize > 0
  BY GridAssumption
<1>2. q \in Nat /\ r \in 0..(GroupSize - 1) /\ GroupSize * q + r = x
  BY <1>1, DivModAny
<1>3. r \in 1..(GroupSize - 2)
  OBVIOUS
<1> HIDE DEF q, r
<1>4. GroupSize * q \in Nat
  BY <1>1, <1>2
<1>5. x - 1 \in Nat /\ x - 1 = GroupSize * q + (r - 1) /\ r - 1 \in 0..(GroupSize - 1)
  BY <1>1, <1>2, <1>3, <1>4
<1>6. x + 1 \in Nat /\ x + 1 = GroupSize * q + (r + 1) /\ r + 1 \in 0..(GroupSize - 1)
  BY <1>1, <1>2, <1>3, <1>4
<1>7. (x - 1) \div GroupSize = q /\ (x - 1) % GroupSize = r - 1
  BY <1>1, <1>2, <1>5, DivUnique
<1>8. (x + 1) \div GroupSize = q /\ (x + 1) % GroupSize = r + 1
  BY <1>1, <1>2, <1>6, DivUnique
<1>9. QED
  BY <1>5, <1>7, <1>8 DEF q, r

(* The last coordinate of a group has one more behind it, unless the map    *)
(* ends there; size is the width or the height.                             *)
LEMMA NeighboursInMap ==
  ASSUME NEW size \in Nat, size % GroupSize = 0, NEW x \in 0..(size - 1),
         \/ x % GroupSize \in 1..(GroupSize - 2)
         \/ IsBorder(x, size)
  PROVE  x - 1 \in 0..(size - 1) /\ x + 1 \in 0..(size - 1)
<1> DEFINE q == x \div GroupSize
           r == x % GroupSize
           w == size \div GroupSize
<1>1. GroupSize \in Nat /\ GroupSize >= 4
  BY GridAssumption
<1>2. q \in Nat /\ r \in 0..(GroupSize - 1) /\ GroupSize * q + r = x
  BY <1>1, DivModAny
<1>3. w \in Nat /\ GroupSize * w = size
  <2>1. w \in Nat /\ GroupSize * w + (size % GroupSize) = size
    BY <1>1, DivModAny
  <2> HIDE DEF w
  <2>2. GroupSize * w \in Nat
    BY <1>1, <2>1
  <2>3. QED
    BY <2>1, <2>2
<1>4. \/ r \in 1..(GroupSize - 2)
      \/ r = GroupSize - 1 /\ x < size - 1
      \/ r = 0 /\ x > 0
  BY DEF IsBorder
<1> HIDE DEF q, r, w
<1>5. q < w
  <2>1. SUFFICES ASSUME q >= w PROVE FALSE
    BY <1>2, <1>3
  <2>2. PICK k \in Nat : q = w + k
    <3>1. q - w \in Nat /\ q = w + (q - w)
      BY <1>2, <1>3, <2>1
    <3>2. QED
      BY <3>1
  <2>3. GroupSize * q = GroupSize * w + GroupSize * k
    BY <1>1, <1>3, <2>2
  <2>4. GroupSize * k \in Nat /\ GroupSize * w \in Nat
    BY <1>1, <1>3
  <2>5. QED
    BY <1>1, <1>2, <1>3, <2>3, <2>4
<1>6. PICK k \in Nat : w = q + 1 + k
  <2>1. w - q - 1 \in Nat /\ w = q + 1 + (w - q - 1)
    BY <1>2, <1>3, <1>5
  <2>2. QED
    BY <2>1
<1>7. GroupSize * w = GroupSize * q + GroupSize + GroupSize * k
  BY <1>1, <1>2, <1>6
<1>8. GroupSize * k \in Nat /\ GroupSize * q \in Nat
  BY <1>1, <1>2
<1>9. QED
  BY <1>1, <1>2, <1>3, <1>4, <1>7, <1>8

(* The code never leaves the grid when it looks around from a centre.  *)
THEOREM CentresInside ==
  ASSUME NEW c \in Cell, NEW s, NEW t, IsCentre(c, s, t), NEW d \in Side
  PROVE  Near(c, d) \in Cell
<1> DEFINE x == c[1]
           y == c[2]
<1>1. Width \in Nat /\ Width % GroupSize = 0 /\ Height \in Nat /\ Height % GroupSize = 0 /\ Height >= 8 /\ Width >= 2
  BY GridAssumption
<1>2. x \in 0..(Width - 1) /\ y \in 0..(Height - 1)
  BY DEF Cell
<1>3. Near(c, d) = <<x + DX(d), y + DY(d)>>
  BY DEF Near
<1> HIDE DEF x, y
<1>4. /\ x - 1 \in 0..(Width - 1) /\ x + 1 \in 0..(Width - 1)
      /\ y - 1 \in 0..(Height - 1) /\ y + 1 \in 0..(Height - 1)
  <2>1. CASE IsInner(c, s, t)
    BY <1>1, <1>2, <2>1, NeighboursInMap DEF IsInner, x, y
  <2>2. CASE IsColumn(c, s - 5, t)
    <3>1. IsBorder(x, Width) /\ y \in 1..(Height - 2)
      BY <2>2 DEF IsColumn, x, y
    <3>2. x - 1 \in 0..(Width - 1) /\ x + 1 \in 0..(Width - 1)
      BY <1>1, <1>2, <3>1, NeighboursInMap
    <3>3. QED
      BY <1>1, <3>1, <3>2
  <2>3. CASE IsRow(c, s - 10, t)
    <3>1. IsBorder(y, Height) /\ x \in 1..(Width - 2)
      BY <2>3 DEF IsRow, x, y
    <3>2. y - 1 \in 0..(Height - 1) /\ y + 1 \in 0..(Height - 1)
      BY <1>1, <1>2, <3>1, NeighboursInMap
    <3>3. QED
      BY <1>1, <3>1, <3>2
  <2>4. QED
    BY <2>1, <2>2, <2>3 DEF IsCentre
<1>5. DX(d) \in {-1, 0, 1} /\ DY(d) \in {-1, 0, 1}
  BY DEF DX, DY
<1>6. x + DX(d) \in 0..(Width - 1) /\ y + DY(d) \in 0..(Height - 1)
  BY <1>1, <1>2, <1>4, <1>5
<1>7. QED
  BY <1>3, <1>6 DEF Cell

\* The five cells an exchange of centre k touches.
Touched(k) == {k} \cup {Near(k, d) : d \in Side}

Step5 == {<<0, 0>>, <<-1, 0>>, <<1, 0>>, <<0, -1>>, <<0, 1>>}

LEMMA TouchedBySteps ==
  ASSUME NEW k \in Cell, NEW n \in Touched(k)
  PROVE  \E v \in Step5 : n = <<k[1] + v[1], k[2] + v[2]>>
<1>1. k[1] \in Int /\ k[2] \in Int /\ k = <<k[1], k[2]>>
  BY GridAssumption DEF Cell
<1>2. CASE n = k
  <2>1. n = <<k[1] + <<0, 0>>[1], k[2] + <<0, 0>>[2]>>
    BY <1>1, <1>2
  <2>2. QED
    BY <2>1 DEF Step5
<1>3. ASSUME NEW d \in Side, n = Near(k, d)
      PROVE  \E v \in Step5 : n = <<k[1] + v[1], k[2] + v[2]>>
  <2>1. <<DX(d), DY(d)>> \in Step5
    BY DEF Side, DX, DY, Step5
  <2>2. n = <<k[1] + <<DX(d), DY(d)>>[1], k[2] + <<DX(d), DY(d)>>[2]>>
    BY <1>3 DEF Near
  <2>3. QED
    BY <2>1, <2>2
<1>4. QED
  BY <1>2, <1>3 DEF Touched

(* Two centres of a stage that are at most two steps apart are one.  *)
LEMMA StageApart ==
  ASSUME NEW a \in Nat, NEW b \in Nat, NEW a2 \in Nat, NEW b2 \in Nat, NEW e \in Int,
         (a + b * 2) % 5 = e, (a2 + b2 * 2) % 5 = e,
         NEW v \in Step5, NEW w \in Step5, a + v[1] = a2 + w[1], b + v[2] = b2 + w[2]
  PROVE  a = a2 /\ b = b2
<1> DEFINE dx == v[1] - w[1]
           dy == v[2] - w[2]
<1>1. a2 = a + dx /\ b2 = b + dy /\ dx \in Int /\ dy \in Int
  BY DEF Step5
<1>2. \/ dx = 0 /\ dy \in {-2, -1, 0, 1, 2}
      \/ dy = 0 /\ dx \in {-2, -1, 0, 1, 2}
      \/ dx \in {-1, 1} /\ dy \in {-1, 1}
  BY DEF Step5
<1> HIDE DEF dx, dy
<1>3. (a + b * 2) % 5 = (a + dx + b * 2 + dy * 2) % 5
  <2>1. a2 + b2 * 2 = a + dx + b * 2 + dy * 2
    BY <1>1
  <2>2. QED
    BY <2>1
<1>4. dx = 0 /\ dy = 0
  <2> DEFINE n == a + b * 2
  <2>1. n \in Nat /\ n % 5 = (n + (dx + dy * 2)) % 5
    <3>1. a + dx + b * 2 + dy * 2 = n + (dx + dy * 2)
      BY <1>1
    <3>2. QED
      BY <1>3, <3>1
  <2> HIDE DEF n
  <2>2. dx + dy * 2 \in -4..4
    BY <1>1, <1>2
  <2>3. dx + dy * 2 = 0
    BY <2>1, <2>2
  <2>4. QED
    BY <1>1, <1>2, <2>3
<1>5. QED
  BY <1>1, <1>4

(* The coordinates of what an inner centre touches, by group and in it.  *)
LEMMA InnerStep ==
  ASSUME NEW x \in Nat, x % GroupSize \in 1..(GroupSize - 2), NEW v \in {-1, 0, 1}
  PROVE  /\ (x + v) \div GroupSize = x \div GroupSize
         /\ (x + v) % GroupSize = (x % GroupSize) + v
<1>1. CASE v = -1
  <2>1. x + v = x - 1
    BY <1>1
  <2>2. x % GroupSize \in Int
    BY GridAssumption
  <2>3. (x % GroupSize) + v = (x % GroupSize) - 1
    BY <1>1, <2>2
  <2>4. QED
    BY <2>1, <2>3, InnerNeighbours
<1>2. CASE v = 0
  <2>1. x + v = x
    BY <1>2
  <2>2. x % GroupSize \in Int
    BY GridAssumption
  <2>3. QED
    BY <1>2, <2>1, <2>2
<1>3. CASE v = 1
  <2>1. x + v = x + 1
    BY <1>3
  <2>2. QED
    BY <1>3, <2>1, InnerNeighbours
<1>4. QED
  BY <1>1, <1>2, <1>3

(* The exchanges of one stage touch no cell in common, inside the groups,  *)
(* on the columns between them and on the rows: the order in which the     *)
(* loops of ProcessGroups and ProcessGroupsBorders visit the centres of a  *)
(* stage makes no difference, which is what Spread relies on.              *)
THEOREM StageIsParallel ==
  ASSUME NEW c \in Cell, NEW k \in Cell, NEW s \in 0..LastStep, NEW t \in Nat,
         IsCentre(c, s, t), IsCentre(k, s, t), c # k
  PROVE  Touched(c) \cap Touched(k) = {}
<1> SUFFICES ASSUME NEW n \in Touched(c), n \in Touched(k)
             PROVE  FALSE
  OBVIOUS
<1>1. PICK v \in Step5 : n = <<c[1] + v[1], c[2] + v[2]>>
  BY TouchedBySteps
<1>2. PICK w \in Step5 : n = <<k[1] + w[1], k[2] + w[2]>>
  BY TouchedBySteps
<1>3. c[1] + v[1] = k[1] + w[1] /\ c[2] + v[2] = k[2] + w[2]
  BY <1>1, <1>2
<1>4. c[1] \in Nat /\ c[2] \in Nat /\ k[1] \in Nat /\ k[2] \in Nat /\ c = <<c[1], c[2]>> /\ k = <<k[1], k[2]>>
  BY GridAssumption DEF Cell
<1>5. ASSUME NEW u \in Int, BelongsToStage(c[1], c[2], u, t), BelongsToStage(k[1], k[2], u, t)
      PROVE  FALSE
  <2>1. (t + u) % 5 \in Int
    OBVIOUS
  <2>2. c[1] = k[1] /\ c[2] = k[2]
    BY <1>3, <1>4, <1>5, <2>1, StageApart DEF BelongsToStage, STAGES_AMOUNT
  <2>3. QED
    BY <1>4, <2>2
<1>6. CASE s \in 5..9
  <2>1. IsColumn(c, s - 5, t) /\ IsColumn(k, s - 5, t)
    BY <1>6 DEF IsCentre
  <2>2. QED
    BY <1>5, <1>6, <2>1 DEF IsColumn
<1>7. CASE s \in 10..14
  <2>1. IsRow(c, s - 10, t) /\ IsRow(k, s - 10, t)
    BY <1>7 DEF IsCentre
  <2>2. QED
    BY <1>5, <1>7, <2>1 DEF IsRow
<1>8. CASE s < 5
  <2> DEFINE cx == c[1] % GroupSize
             cy == c[2] % GroupSize
             kx == k[1] % GroupSize
             ky == k[2] % GroupSize
  <2>1. IsInner(c, s, t) /\ IsInner(k, s, t)
    BY <1>8 DEF IsCentre
  <2>2. /\ cx \in 1..(GroupSize - 2) /\ cy \in 1..(GroupSize - 2)
        /\ kx \in 1..(GroupSize - 2) /\ ky \in 1..(GroupSize - 2)
    BY <2>1 DEF IsInner
  <2>3. v[1] \in {-1, 0, 1} /\ v[2] \in {-1, 0, 1} /\ w[1] \in {-1, 0, 1} /\ w[2] \in {-1, 0, 1}
    BY DEF Step5
  <2>4. /\ (c[1] + v[1]) \div GroupSize = c[1] \div GroupSize /\ (c[1] + v[1]) % GroupSize = cx + v[1]
        /\ (k[1] + w[1]) \div GroupSize = k[1] \div GroupSize /\ (k[1] + w[1]) % GroupSize = kx + w[1]
    BY <1>4, <2>2, <2>3, InnerStep
  <2>5. /\ (c[2] + v[2]) \div GroupSize = c[2] \div GroupSize /\ (c[2] + v[2]) % GroupSize = cy + v[2]
        /\ (k[2] + w[2]) \div GroupSize = k[2] \div GroupSize /\ (k[2] + w[2]) % GroupSize = ky + w[2]
    BY <1>4, <2>2, <2>3, InnerStep
  <2>6. cx + v[1] = kx + w[1] /\ cy + v[2] = ky + w[2]
    BY <1>3, <2>4, <2>5
  <2>7. cx \in Nat /\ cy \in Nat /\ kx \in Nat /\ ky \in Nat
    BY <2>2, GridAssumption
  <2>8. (cx + cy * 2) % 5 = (t + s) % 5 /\ (kx + ky * 2) % 5 = (t + s) % 5 /\ (t + s) % 5 \in Int
    BY <2>1 DEF IsInner, BelongsToStage, STAGES_AMOUNT
  <2>9. cx = kx /\ cy = ky
    <3> HIDE DEF cx, cy, kx, ky
    <3>1. QED
      BY <2>6, <2>7, <2>8, StageApart
  <2>10. c[1] \div GroupSize = k[1] \div GroupSize /\ c[2] \div GroupSize = k[2] \div GroupSize
    BY <1>3, <2>4, <2>5
  <2>11. c[1] = k[1] /\ c[2] = k[2]
    <3>1. GroupSize \in Nat /\ GroupSize > 0
      BY GridAssumption
    <3>2. /\ GroupSize * (c[1] \div GroupSize) + cx = c[1]
          /\ GroupSize * (c[2] \div GroupSize) + cy = c[2]
          /\ GroupSize * (k[1] \div GroupSize) + kx = k[1]
          /\ GroupSize * (k[2] \div GroupSize) + ky = k[2]
      BY <1>4, <3>1, DivModAny
    <3> HIDE DEF cx, cy, kx, ky
    <3>3. QED
      BY <2>9, <2>10, <3>2
  <2>12. QED
    BY <1>4, <2>11
<1>9. QED
  BY <1>6, <1>7, <1>8 DEF LastStep

-----------------------------------------------------------------------------
(* One exchange of five cells.                                             *)

\* The neighbours of k are in the map.
Surrounded(k) == \A d \in Side : Near(k, d) \in Cell

LEMMA AverageOK ==
  ASSUME NEW a \in [Cell -> AtmosData], NEW f, NEW k \in Cell, NEW s \in Stuff,
         Surrounded(k)
  PROVE  /\ Average(a, f, k, s) \in Nat
         /\ Rest(a, f, k, s) \in Nat
         /\ NearSize(f, k) \in 1..5
         /\ NearSize(f, k) * Average(a, f, k, s) + Rest(a, f, k, s) = Sum(a, f, k, s)
<1>1. \A d \in Side : NearAmount(a, f, k, s, d) \in Nat
  BY DEF NearAmount, AtmosData, Surrounded
<1>2. a[k].amount[s] \in Nat
  BY DEF AtmosData
<1>3. Sum(a, f, k, s) \in Nat
  BY <1>1, <1>2 DEF Sum, Side
<1>4. NearSize(f, k) \in 1..5
  BY DEF NearSize, One
<1>5. QED
  BY <1>3, <1>4, DivMod DEF Average, Rest

LEMMA GainType ==
  ASSUME NEW a \in [Cell -> AtmosData], NEW f, NEW k \in Cell, NEW d \in Side,
         Surrounded(k)
  PROVE  Gain(a, f, k, d) \in Int
<1>1. ASSUME NEW s \in Stuff PROVE Average(a, f, k, s) \in Int
  <2>1. Average(a, f, k, s) \in Nat
    BY AverageOK
  <2>2. QED
    BY <2>1
<1>2. \A s \in Stuff : a[Near(k, d)].amount[s] \in Int
  BY DEF AtmosData, Surrounded
<1>3. QED
  BY <1>1, <1>2 DEF Gain, Stuff, GASES

(* What the five cells of an exchange contain afterwards is what they      *)
(* contained before: the centre keeps what cannot be divided among them.   *)
THEOREM ExchangeConserves ==
  ASSUME NEW a \in [Cell -> AtmosData], NEW f, NEW k \in Cell, NEW s \in Stuff,
         Surrounded(k)
  PROVE  Average(a, f, k, s) + Rest(a, f, k, s)
           + One(f, k, "west") * Average(a, f, k, s) + One(f, k, "north") * Average(a, f, k, s)
           + One(f, k, "south") * Average(a, f, k, s) + One(f, k, "east") * Average(a, f, k, s)
         = Sum(a, f, k, s)
<1> DEFINE v == Average(a, f, k, s)
           r == Rest(a, f, k, s)
<1>1. v \in Nat /\ r \in Nat /\ NearSize(f, k) * v + r = Sum(a, f, k, s)
  BY AverageOK
<1>2. \A d \in Side : One(f, k, d) = 0 \/ One(f, k, d) = 1
  BY DEF One
<1> HIDE DEF v, r
<1>3. NearSize(f, k) * v
        = v + One(f, k, "west") * v + One(f, k, "north") * v
            + One(f, k, "south") * v + One(f, k, "east") * v
  BY <1>1, <1>2 DEF NearSize, Side
<1>4. \A d \in Side : One(f, k, d) * v \in Nat
  BY <1>1, <1>2
<1>5. v + One(f, k, "west") * v + One(f, k, "north") * v + One(f, k, "south") * v + One(f, k, "east") * v + r
        = Sum(a, f, k, s)
  BY <1>1, <1>3
<1>6. v + r + One(f, k, "west") * v + One(f, k, "north") * v + One(f, k, "south") * v + One(f, k, "east") * v
        = v + One(f, k, "west") * v + One(f, k, "north") * v + One(f, k, "south") * v + One(f, k, "east") * v + r
  BY <1>1, <1>4 DEF Side
<1>7. QED
  BY <1>5, <1>6 DEF v, r

\* Centres whose neighbours are in the map, as CentresInside says they are.
CentresOK(centres) == centres \subseteq Cell /\ \A k \in centres : Surrounded(k)

LEMMA CentresFine ==
  ASSUME NEW f, NEW s, NEW t
  PROVE  CentresOK(Centres(f, s, t))
BY CentresInside DEF CentresOK, Centres, Surrounded

LEMMA SpreadAirOK ==
  ASSUME NEW a \in [Cell -> AtmosData], NEW f, NEW centres, CentresOK(centres)
  PROVE  SpreadAir(a, f, centres) \in [Cell -> AtmosData]
<1>1. ASSUME NEW x \in AtmosData, NEW amount \in [Stuff -> Nat], NEW b \in BOOLEAN
      PROVE  [x EXCEPT !.amount = amount, !.fire = b] \in AtmosData
  BY DEF AtmosData
<1>2. ASSUME NEW k \in Cell
      PROVE  Fire(a, f, k) \in BOOLEAN
  BY DEF Fire
<1>3. ASSUME NEW c \in Cell
      PROVE  SpreadAir(a, f, centres)[c] \in AtmosData
  <2>1. CASE c \in centres
    <3>1. ASSUME NEW s \in Stuff PROVE Average(a, f, c, s) + Rest(a, f, c, s) \in Nat
      <4>1. Average(a, f, c, s) \in Nat /\ Rest(a, f, c, s) \in Nat
        BY <2>1, AverageOK DEF CentresOK
      <4>2. QED
        BY <4>1
    <3>2. [s \in Stuff |-> Average(a, f, c, s) + Rest(a, f, c, s)] \in [Stuff -> Nat]
      BY <3>1
    <3>3. QED
      BY <1>1, <1>2, <2>1, <3>2 DEF SpreadAir
  <2>2. CASE c \notin centres /\ \E d \in Side : IsNearOf(f, centres, c, d)
    <3> DEFINE d == CHOOSE d \in Side : IsNearOf(f, centres, c, d)
               k == Near(c, Revert(d))
    <3>1. d \in Side /\ IsNearOf(f, centres, c, d)
      BY <2>2
    <3>2. k \in centres
      BY <3>1 DEF IsNearOf
    <3> HIDE DEF d
    <3> HIDE DEF k
    <3>3. ASSUME NEW s \in Stuff PROVE Average(a, f, k, s) \in Nat
      BY <3>2, AverageOK DEF CentresOK
    <3>4. k \in Cell
      BY <3>2 DEF CentresOK
    <3>5. [a[c] EXCEPT !.amount = [s \in Stuff |-> Average(a, f, k, s)], !.fire = Fire(a, f, k)] \in AtmosData
      BY <1>1, <1>2, <3>3, <3>4
    <3>6. QED
      BY <2>2, <3>5 DEF SpreadAir, d, k
  <2>3. CASE c \notin centres /\ ~\E d \in Side : IsNearOf(f, centres, c, d)
    BY <2>3 DEF SpreadAir
  <2>4. QED
    BY <2>1, <2>2, <2>3
<1>4. QED
  BY <1>3 DEF SpreadAir

LEMMA SpreadFlowsType ==
  ASSUME NEW a \in [Cell -> AtmosData], NEW w \in [Cell -> [Side -> Int]],
         NEW f, NEW centres, CentresOK(centres)
  PROVE  SpreadFlows(a, w, f, centres) \in [Cell -> [Side -> Int]]
<1>1. ASSUME NEW c \in Cell, NEW d \in Side
      PROVE  SpreadFlows(a, w, f, centres)[c][d] \in Int
  <2>1. c \in centres => Gain(a, f, c, d) \in Int
    BY GainType DEF CentresOK
  <2>2. Revert(d) \in Side /\ Revert(Revert(d)) = d
    BY DEF Revert, Side
  <2>3. IsNearOf(f, centres, c, Revert(d)) => Gain(a, f, Near(c, d), Revert(d)) \in Int
    <3>1. IsNearOf(f, centres, c, Revert(d)) => Near(c, d) \in centres
      BY <2>2 DEF IsNearOf
    <3>2. QED
      BY <2>2, <3>1, GainType DEF CentresOK
  <2>4. w[c][d] \in Int
    OBVIOUS
  <2>5. QED
    BY <2>1, <2>3, <2>4 DEF SpreadFlows
<1>2. QED
  BY <1>1 DEF SpreadFlows

LEMMA FinalizeOK ==
  ASSUME NEW a \in [Cell -> AtmosData], NEW f
  PROVE  /\ Finalize(a, f) \in [Cell -> AtmosData]
         /\ \A c \in Cell : IsCurrent(Finalize(a, f)[c])
<1>1. ASSUME NEW x \in AtmosData
      PROVE  [x EXCEPT !.amount = Vented(@)] \in AtmosData
  <2>1. \A s \in Stuff : (x.amount[s] * 4) \div 5 \in Nat
    BY DEF AtmosData
  <2>2. QED
    BY <2>1 DEF AtmosData, Vented
<1>2. ASSUME NEW x \in AtmosData
      PROVE  ProccesBurning(x) \in AtmosData
  <2> DEFINE A == x.amount
  <2>1. A \in [Stuff -> Nat]
    BY DEF AtmosData
  <2>2. A["oxygen"] \in Nat /\ A["plasma"] \in Nat /\ A["co2"] \in Nat /\ A["energy"] \in Nat
    BY <2>1 DEF Stuff, GASES
  <2>3. MaxBurn(A) \in Nat /\ 2 * MaxBurn(A) <= A["oxygen"] /\ MaxBurn(A) <= A["plasma"]
    BY <2>2 DEF MaxBurn, AtMost, O2_MULTIPLIER
  <2>4. Burn(A) \in 0..MaxBurn(A)
    BY <2>3 DEF Burn, AtMost, AtLeast
  <2>5. Burnt(A) \in [Stuff -> Nat]
    <3>1. /\ A["oxygen"] - Burn(A) * O2_MULTIPLIER \in Nat
          /\ A["plasma"] - Burn(A) \in Nat
          /\ A["co2"] + Burn(A) \in Nat
          /\ A["energy"] + Burn(A) * 4 \in Nat
      BY <2>2, <2>3, <2>4 DEF O2_MULTIPLIER
    <3>2. QED
      BY <2>1, <3>1 DEF Burnt, Stuff, GASES
  <2>6. QED
    BY <2>5 DEF ProccesBurning, AtmosData
<1>3. ASSUME NEW c \in Cell
      PROVE  Finalize(a, f)[c] \in AtmosData /\ IsCurrent(Finalize(a, f)[c])
  <2> DEFINE vented == IF "space" \in f[c] THEN [a[c] EXCEPT !.amount = Vented(@)] ELSE a[c]
  <2>1. vented \in AtmosData
    BY <1>1
  <2>2. Finalize(a, f)[c] = UpdateMacroParams(ProccesBurning(vented))
    BY DEF Finalize
  <2> HIDE DEF vented
  <2>3. QED
    BY <1>2, <2>1, <2>2, MacroOK
<1>4. QED
  BY <1>3 DEF Finalize

-----------------------------------------------------------------------------
(* A stage keeps what a closed room contains: by induction over its         *)
(* centres, each of which only moves gas between the five cells it touches. *)

LEMMA NearBack ==
  ASSUME NEW c \in Cell, NEW d \in Side
  PROVE  Near(Near(c, d), Revert(d)) = c /\ Near(Near(c, Revert(d)), d) = c /\ Revert(d) \in Side
<1>1. c[1] \in Int /\ c[2] \in Int /\ c = <<c[1], c[2]>>
  BY GridAssumption DEF Cell
<1>2. DX(Revert(d)) = -DX(d) /\ DY(Revert(d)) = -DY(d) /\ DX(d) \in Int /\ DY(d) \in Int /\ Revert(d) \in Side
  BY DEF DX, DY, Revert, Side
<1> QED BY <1>1, <1>2 DEF Near

LEMMA FiveCells ==
  ASSUME NEW k \in Cell
  PROVE  /\ \A d \in Side : Near(k, d) # k
         /\ \A d, e \in Side : d # e => Near(k, d) # Near(k, e)
<1>1. k[1] \in Int /\ k[2] \in Int /\ k = <<k[1], k[2]>>
  BY GridAssumption DEF Cell
<1>2. \A d \in Side : DX(d) \in Int /\ DY(d) \in Int /\ (DX(d) # 0 \/ DY(d) # 0)
  BY DEF DX, DY, Side
<1>3. \A d, e \in Side : d # e => DX(d) # DX(e) \/ DY(d) # DY(e)
  BY DEF DX, DY, Side
<1>4. ASSUME NEW d \in Side PROVE Near(k, d) # k
  <2>1. k[1] + DX(d) # k[1] \/ k[2] + DY(d) # k[2]
    BY <1>1, <1>2
  <2> QED BY <2>1 DEF Near
<1>5. ASSUME NEW d \in Side, NEW e \in Side, d # e PROVE Near(k, d) # Near(k, e)
  <2>1. PICK p \in Int, q \in Int, v \in Int, w \in Int : p = DX(d) /\ q = DY(d) /\ v = DX(e) /\ w = DY(e)
    BY <1>2
  <2>2. p # v \/ q # w
    BY <1>3, <1>5, <2>1
  <2>3. PICK x \in Int, y \in Int : x = k[1] /\ y = k[2]
    BY <1>1
  <2>4. x + p # x + v \/ y + q # y + w
    BY <2>2
  <2>5. Near(k, d) = <<x + p, y + q>> /\ Near(k, e) = <<x + v, y + w>>
    BY <2>1, <2>3 DEF Near
  <2> QED BY <2>4, <2>5
<1> QED BY <1>4, <1>5

\* Centres as those of a stage are, and as StageIsParallel says of them.
Apart(T) == CentresOK(T) /\ \A k, l \in T : k # l => Touched(k) \cap Touched(l) = {}

\* c takes part in the exchange of centre k.
IsMixed(f, k, c) == \E d \in Side : c = Near(k, d) /\ Open(f, k, d)

\* The stuff s in each cell after the exchanges of the centres T.
Spreading(a, f, T, s) == [c \in Cell |-> SpreadAir(a, f, T)[c].amount[s]]

LEMMA NotMixed ==
  ASSUME NEW f, NEW T, NEW c \in Cell, \A k \in T : ~IsMixed(f, k, c)
  PROVE  ~\E d \in Side : IsNearOf(f, T, c, d)
<1> SUFFICES ASSUME NEW d \in Side, IsNearOf(f, T, c, d) PROVE FALSE
  OBVIOUS
<1>1. PICK k : k = Near(c, Revert(d))
  OBVIOUS
<1>2. k \in T /\ Open(f, k, d)
  BY <1>1 DEF IsNearOf
<1>3. c = Near(k, d)
  BY <1>1, NearBack
<1> QED BY <1>2, <1>3 DEF IsMixed

\* What the centres, what their neighbours and what the other cells contain.
SpreadAsSaid(a, f, T, s) ==
  /\ \A k \in T : Spreading(a, f, T, s)[k] = Average(a, f, k, s) + Rest(a, f, k, s)
  /\ \A k \in T : \A d \in Side :
       Open(f, k, d) => Spreading(a, f, T, s)[Near(k, d)] = Average(a, f, k, s)
  /\ \A c \in Cell \ T : (\A k \in T : ~IsMixed(f, k, c)) => Spreading(a, f, T, s)[c] = a[c].amount[s]

LEMMA SpreadAt ==
  ASSUME NEW a \in [Cell -> AtmosData], NEW f, NEW T, Apart(T), NEW s \in Stuff
  PROVE  SpreadAsSaid(a, f, T, s)
<1>1. T \subseteq Cell /\ \A k \in T : Surrounded(k)
  BY DEF Apart, CentresOK
<1>2. ASSUME NEW k \in T PROVE Spreading(a, f, T, s)[k] = Average(a, f, k, s) + Rest(a, f, k, s)
  <2>1. PICK m : m = [z \in Stuff |-> Average(a, f, k, z) + Rest(a, f, k, z)]
    OBVIOUS
  <2>2. SpreadAir(a, f, T)[k] = [a[k] EXCEPT !.amount = m, !.fire = Fire(a, f, k)]
    BY <1>1, <2>1 DEF SpreadAir
  <2>3. SpreadAir(a, f, T)[k].amount = m
    BY <1>1, <2>2 DEF AtmosData
  <2> QED BY <1>1, <2>1, <2>3 DEF Spreading
<1>3. ASSUME NEW k \in T, NEW d \in Side, Open(f, k, d)
      PROVE  Spreading(a, f, T, s)[Near(k, d)] = Average(a, f, k, s)
  <2>1. PICK n : n = Near(k, d)
    OBVIOUS
  <2>2. n \in Cell /\ n # k /\ n \in Touched(k)
    BY <1>1, <2>1, FiveCells DEF Surrounded, Touched
  <2>3. n \notin T
    BY <2>2 DEF Apart, Touched
  <2>4. IsNearOf(f, T, n, d)
    BY <1>1, <1>3, <2>1, NearBack DEF IsNearOf
  <2>5. PICK e : e = CHOOSE b \in Side : IsNearOf(f, T, n, b)
    OBVIOUS
  <2>6. e \in Side /\ IsNearOf(f, T, n, e)
    BY <2>4, <2>5
  <2>7. PICK l : l = Near(n, Revert(e))
    OBVIOUS
  <2>8. l \in T
    BY <2>6, <2>7 DEF IsNearOf
  <2>9. n \in Touched(l)
    BY <2>2, <2>6, <2>7, NearBack DEF Touched
  <2>10. l = k
    BY <2>2, <2>8, <2>9 DEF Apart
  <2>11. PICK m : m = [z \in Stuff |-> Average(a, f, k, z)]
    OBVIOUS
  <2>12. SpreadAir(a, f, T)[n] = [a[n] EXCEPT !.amount = m, !.fire = Fire(a, f, k)]
    BY <2>2, <2>3, <2>4, <2>5, <2>7, <2>10, <2>11 DEF SpreadAir
  <2>13. SpreadAir(a, f, T)[n].amount = m
    BY <2>2, <2>12 DEF AtmosData
  <2> QED BY <2>1, <2>2, <2>11, <2>13 DEF Spreading
<1>4. ASSUME NEW c \in Cell \ T, \A k \in T : ~IsMixed(f, k, c) PROVE Spreading(a, f, T, s)[c] = a[c].amount[s]
  <2>1. ~\E d \in Side : IsNearOf(f, T, c, d)
    BY <1>4, NotMixed
  <2>2. SpreadAir(a, f, T)[c] = a[c]
    BY <2>1 DEF SpreadAir
  <2> QED BY <2>2 DEF Spreading
<1> QED BY <1>2, <1>3, <1>4 DEF SpreadAsSaid

\* Gas enters and leaves the room by no exchange of the centres T.
Closed(f, T, room) == \A k \in T : \A d \in Side : Open(f, k, d) => (k \in room <=> Near(k, d) \in room)

LEMMA SpreadingType ==
  ASSUME NEW a \in [Cell -> AtmosData], NEW f, NEW T, CentresOK(T), NEW s \in Stuff
  PROVE  Spreading(a, f, T, s) \in [Cell -> Int]
<1>1. SpreadAir(a, f, T) \in [Cell -> AtmosData]
  BY SpreadAirOK
<1>2. \A x \in AtmosData : x.amount[s] \in Int
  BY DEF AtmosData
<1> QED BY <1>1, <1>2 DEF Spreading

\* The exchange of k, after those of T, changes nothing but the cells it touches.
OnlyTouches(a, f, T, U, k, s) ==
  /\ \A c \in Cell \ Touched(k) : Spreading(a, f, T, s)[c] = Spreading(a, f, U, s)[c]
  /\ \A c \in Touched(k) : Spreading(a, f, T, s)[c] = a[c].amount[s]

LEMMA SpreadElsewhere ==
  ASSUME NEW a \in [Cell -> AtmosData], NEW f, NEW T, NEW k \in Cell \ T,
         NEW U, U = T \cup {k}, Apart(T), Apart(U), NEW s \in Stuff
  PROVE  OnlyTouches(a, f, T, U, k, s)
<1>1. U = T \cup {k} /\ k \notin T
  OBVIOUS
<1>2. T \subseteq Cell /\ k \in Cell /\ Surrounded(k) /\ Apart(U) /\ T \subseteq U /\ k \in U
  BY <1>1 DEF Apart, CentresOK
<1>3. SpreadAsSaid(a, f, T, s) /\ SpreadAsSaid(a, f, U, s)
  BY <1>2, SpreadAt
<1>4. \A l \in T : Touched(l) \cap Touched(k) = {}
  BY <1>1, <1>2 DEF Apart
<1>5. \A l, c : IsMixed(f, l, c) => c \in Touched(l)
  BY DEF IsMixed, Touched
<1>6. \A l : l \in Touched(l)
  BY DEF Touched
<1>7. ASSUME NEW c \in Cell \ Touched(k) PROVE Spreading(a, f, T, s)[c] = Spreading(a, f, U, s)[c]
  <2>1. CASE c \in T
    BY <1>2, <1>3, <2>1 DEF SpreadAsSaid
  <2>2. ASSUME NEW l \in T, IsMixed(f, l, c) PROVE Spreading(a, f, T, s)[c] = Spreading(a, f, U, s)[c]
    <3>1. PICK d \in Side : c = Near(l, d) /\ Open(f, l, d)
      BY <2>2 DEF IsMixed
    <3>2. Spreading(a, f, T, s)[c] = Average(a, f, l, s)
      BY <1>3, <3>1 DEF SpreadAsSaid
    <3>3. Spreading(a, f, U, s)[c] = Average(a, f, l, s)
      BY <1>2, <1>3, <3>1 DEF SpreadAsSaid
    <3> QED BY <3>2, <3>3
  <2>3. CASE c \notin T /\ \A l \in T : ~IsMixed(f, l, c)
    <3>1. c \notin U /\ \A l \in U : ~IsMixed(f, l, c)
      BY <1>1, <1>5, <1>6, <2>3
    <3>2. Spreading(a, f, T, s)[c] = a[c].amount[s]
      BY <1>3, <2>3 DEF SpreadAsSaid
    <3>3. Spreading(a, f, U, s)[c] = a[c].amount[s]
      BY <1>2, <1>3, <3>1 DEF SpreadAsSaid
    <3> QED BY <3>2, <3>3
  <2> QED BY <2>1, <2>2, <2>3
<1>8. ASSUME NEW c \in Touched(k) PROVE Spreading(a, f, T, s)[c] = a[c].amount[s]
  <2>1. c \in Cell
    BY <1>2 DEF Touched, Surrounded
  <2>2. c \notin T /\ \A l \in T : ~IsMixed(f, l, c)
    BY <1>4, <1>5, <1>6
  <2> QED BY <1>3, <2>1, <2>2 DEF SpreadAsSaid
<1> QED BY <1>1, <1>7, <1>8 DEF OnlyTouches

(* What the exchange of one centre does to a closed room.                   *)
LEMMA SpreadOne ==
  ASSUME NEW a \in [Cell -> AtmosData], NEW f, NEW T, NEW k \in Cell \ T,
         NEW U, U = T \cup {k}, Apart(T), Apart(U),
         NEW room \in SUBSET Cell, Closed(f, {k}, room), NEW s \in Stuff
  PROVE  SumFunctionOnSet(Spreading(a, f, U, s), room) = SumFunctionOnSet(Spreading(a, f, T, s), room)
<1>1. PICK F, G : F = Spreading(a, f, T, s) /\ G = Spreading(a, f, U, s)
  OBVIOUS
<1>2. F \in [Cell -> Int] /\ G \in [Cell -> Int]
  BY <1>1, SpreadingType DEF Apart
<1>3. k \in Cell /\ Surrounded(k) /\ k \in U
  BY DEF Apart, CentresOK
<1>4. /\ \A c \in Cell \ Touched(k) : F[c] = G[c]
      /\ \A c \in Touched(k) : F[c] = a[c].amount[s]
  <2>1. OnlyTouches(a, f, T, U, k, s)
    BY SpreadElsewhere
  <2> QED BY <1>1, <2>1 DEF OnlyTouches
<1>5. PICK v, r : v = Average(a, f, k, s) /\ r = Rest(a, f, k, s)
  OBVIOUS
<1>6. v \in Nat /\ r \in Nat
  BY <1>3, <1>5, AverageOK
<1>7. SpreadAsSaid(a, f, U, s)
  BY SpreadAt
<1>8. G[k] = v + r /\ F[k] = a[k].amount[s]
  BY <1>7, <1>1, <1>3, <1>4, <1>5 DEF SpreadAsSaid, Touched
<1>9. ASSUME NEW d \in Side
      PROVE  /\ F[Near(k, d)] = a[Near(k, d)].amount[s]
             /\ G[Near(k, d)] = IF Open(f, k, d) THEN v ELSE F[Near(k, d)]
  <2>1. Near(k, d) \in Touched(k) /\ Near(k, d) \in Cell
    BY <1>3 DEF Touched, Surrounded
  <2>2. CASE Open(f, k, d)
    BY <1>7, <1>1, <1>3, <1>4, <1>5, <2>1, <2>2 DEF SpreadAsSaid
  <2>3. CASE ~Open(f, k, d)
    <3>1. Near(k, d) # k /\ \A o \in Side : o # d => Near(k, o) # Near(k, d)
      BY <1>3, FiveCells
    <3>2. ~IsMixed(f, k, Near(k, d))
      BY <2>3, <3>1 DEF IsMixed
    <3>3. \A l \in T : Near(k, d) \notin Touched(l)
      BY <2>1 DEF Apart
    <3>4. Near(k, d) \notin U /\ \A l \in U : ~IsMixed(f, l, Near(k, d))
      BY <3>1, <3>2, <3>3 DEF Touched, IsMixed
    <3>5. G[Near(k, d)] = a[Near(k, d)].amount[s]
      BY <1>7, <1>1, <2>1, <3>4 DEF SpreadAsSaid
    <3> QED BY <1>4, <2>1, <2>3, <3>5
  <2> QED BY <2>2, <2>3
<1>10. PICK w, n, u, e : w = Near(k, "west") /\ n = Near(k, "north") /\ u = Near(k, "south") /\ e = Near(k, "east")
  OBVIOUS
<1>11. Touched(k) = {k, w, n, u, e}
  BY <1>10 DEF Touched, Side
<1>12. SumFunctionOnSet(G, room) = SumFunctionOnSet(F, room) + Change(F, G, room, k) + Change(F, G, room, w)
                                     + Change(F, G, room, n) + Change(F, G, room, u) + Change(F, G, room, e)
  <2>1. /\ k # w /\ k # n /\ k # u /\ k # e /\ w # n /\ w # u /\ w # e /\ n # u /\ n # e /\ u # e
    BY <1>3, <1>10, FiveCells DEF Side
  <2>2. IsFiniteSet(room)
    BY NamesFinite, FS_Subset
  <2>3. \A i \in Cell \ {k, w, n, u, e} : F[i] = G[i]
    BY <1>4, <1>11
  <2>4. FiveChange(F, G, Cell, k, w, n, u, e)
    BY <2>1, <2>3 DEF FiveChange
  <2> QED BY <1>2, <2>2, <2>4, SumChangesFive
<1>13. SumFunctionOnSet(F, room) \in Int
  <2>1. IsFiniteSet(room) /\ \A c \in room : F[c] \in Int
    BY <1>2, NamesFinite, FS_Subset
  <2> QED BY <2>1, SumType
<1>14. CASE k \notin room
  <2>1. ASSUME NEW d \in Side PROVE Change(F, G, room, Near(k, d)) = 0
    <3>1. CASE Near(k, d) \notin room
      BY <3>1 DEF Change
    <3>2. CASE Near(k, d) \in room
      <4>1. ~Open(f, k, d) /\ F[Near(k, d)] \in Int
        BY <1>2, <1>14, <3>2 DEF Closed
      <4>2. G[Near(k, d)] = F[Near(k, d)]
        BY <1>9, <4>1
      <4> QED BY <4>1, <4>2 DEF Change
    <3> QED BY <3>1, <3>2
  <2>2. /\ Change(F, G, room, k) = 0 /\ Change(F, G, room, w) = 0 /\ Change(F, G, room, n) = 0
        /\ Change(F, G, room, u) = 0 /\ Change(F, G, room, e) = 0
    BY <1>10, <1>14, <2>1 DEF Change, Side
  <2> QED BY <1>1, <1>12, <1>13, <2>2
<1>15. CASE k \in room
  <2>1. ASSUME NEW d \in Side
        PROVE  /\ Change(F, G, room, Near(k, d)) = One(f, k, d) * v - NearAmount(a, f, k, s, d)
               /\ NearAmount(a, f, k, s, d) \in Int /\ One(f, k, d) * v \in Int
    <3>1. CASE Open(f, k, d)
      <4>1. Near(k, d) \in room
        BY <1>15, <3>1 DEF Closed
      <4>2. Change(F, G, room, Near(k, d)) = v - F[Near(k, d)] /\ F[Near(k, d)] \in Int
        BY <1>2, <1>9, <3>1, <4>1 DEF Change
      <4> QED BY <1>6, <1>9, <3>1, <4>2 DEF One, NearAmount
    <3>2. CASE ~Open(f, k, d)
      <4>1. Near(k, d) \in Cell
        BY <1>3 DEF Surrounded
      <4>2. G[Near(k, d)] = F[Near(k, d)] /\ F[Near(k, d)] \in Int
        BY <1>2, <1>9, <3>2, <4>1
      <4>3. Change(F, G, room, Near(k, d)) = 0
        BY <4>2 DEF Change
      <4> QED BY <1>6, <3>2, <4>3 DEF One, NearAmount
    <3> QED BY <3>1, <3>2
  <2>2. PICK k2 \in Int : k2 = F[k]
    BY <1>2, <1>3
  <2>3. PICK w1 \in Int, n1 \in Int, u1 \in Int, e1 \in Int, w2 \in Int, n2 \in Int, u2 \in Int, e2 \in Int :
          /\ w1 = One(f, k, "west") * v /\ w2 = NearAmount(a, f, k, s, "west")
          /\ n1 = One(f, k, "north") * v /\ n2 = NearAmount(a, f, k, s, "north")
          /\ u1 = One(f, k, "south") * v /\ u2 = NearAmount(a, f, k, s, "south")
          /\ e1 = One(f, k, "east") * v /\ e2 = NearAmount(a, f, k, s, "east")
    BY <2>1 DEF Side
  <2>4. k2 = a[k].amount[s]
    BY <1>8, <2>2
  <2>5. /\ Change(F, G, room, k) = v + r - k2 /\ Change(F, G, room, w) = w1 - w2 /\ Change(F, G, room, n) = n1 - n2
        /\ Change(F, G, room, u) = u1 - u2 /\ Change(F, G, room, e) = e1 - e2
    <3>1. Change(F, G, room, k) = v + r - k2
      BY <1>6, <1>8, <1>15, <2>2 DEF Change
    <3>2. "west" \in Side /\ "north" \in Side /\ "south" \in Side /\ "east" \in Side
      BY DEF Side
    <3> QED BY <1>10, <2>1, <2>3, <3>1, <3>2, Zenon
  <2>6. v + r + w1 + n1 + u1 + e1 = k2 + w2 + n2 + u2 + e2
    <3>1. v + r + w1 + n1 + u1 + e1 = Sum(a, f, k, s)
      BY <1>3, <1>5, <2>3, ExchangeConserves
    <3>2. Sum(a, f, k, s) = k2 + w2 + n2 + u2 + e2
      BY <2>3, <2>4 DEF Sum
    <3> QED BY <3>1, <3>2
  <2>7. v + r - k2 + (w1 - w2) + (n1 - n2) + (u1 - u2) + (e1 - e2) = 0
    BY <1>6, <2>6
  <2>8. PICK z \in Int : z = SumFunctionOnSet(F, room)
    BY <1>13
  <2>9. SumFunctionOnSet(G, room) = z + (v + r - k2) + (w1 - w2) + (n1 - n2) + (u1 - u2) + (e1 - e2)
    BY <1>12, <2>5, <2>8
  <2>10. z + (v + r - k2) + (w1 - w2) + (n1 - n2) + (u1 - u2) + (e1 - e2) = z
    BY <1>6, <2>7
  <2> QED BY <1>1, <2>8, <2>9, <2>10
<1> QED BY <1>14, <1>15

(* A stage leaves in a closed room what was there.                         *)
LEMMA SpreadKeeps ==
  ASSUME NEW a \in [Cell -> AtmosData], NEW f, NEW C, Apart(C),
         NEW room \in SUBSET Cell, Closed(f, C, room), NEW s \in Stuff
  PROVE  SumFunctionOnSet(Spreading(a, f, C, s), room)
           = SumFunctionOnSet([c \in Cell |-> a[c].amount[s]], room)
<1>1. PICK z : z = SumFunctionOnSet([c \in Cell |-> a[c].amount[s]], room)
  OBVIOUS
<1> DEFINE R == {T \in SUBSET C : SumFunctionOnSet(Spreading(a, f, T, s), room) = z}
<1>2. \A T \in SUBSET C : Apart(T)
  BY DEF Apart, CentresOK
<1>3. IsFiniteSet(C)
  BY NamesFinite, FS_Subset DEF Apart, CentresOK
<1>4. {} \in R
  <2>1. Apart({}) /\ {} \in SUBSET C
    <3>1. {} \in SUBSET C
      OBVIOUS
    <3> QED BY <1>2, <3>1, Zenon
  <2>2. \A c \in Cell : Spreading(a, f, {}, s)[c] = a[c].amount[s]
    <3>1. SpreadAsSaid(a, f, {}, s)
      BY <2>1, SpreadAt
    <3>2. \A c \in Cell : c \in Cell \ {}
      OBVIOUS
    <3> QED BY <3>1, <3>2 DEF SpreadAsSaid
  <2>3. \A c \in Cell : SpreadAir(a, f, {})[c].amount[s] = a[c].amount[s]
    BY <2>2 DEF Spreading
  <2>4. Spreading(a, f, {}, s) = [c \in Cell |-> a[c].amount[s]]
    BY <2>3 DEF Spreading
  <2> QED BY <1>1, <2>4
<1>5. ASSUME NEW T \in SUBSET C, NEW k \in C \ T, T \in R PROVE T \cup {k} \in R
  <2>1. PICK U : U = T \cup {k}
    OBVIOUS
  <2>2. U \in SUBSET C /\ Apart(T) /\ Apart(U) /\ k \in Cell \ T
    BY <1>2, <2>1 DEF Apart, CentresOK
  <2>3. Closed(f, {k}, room)
    BY DEF Closed
  <2>4. SumFunctionOnSet(Spreading(a, f, U, s), room) = SumFunctionOnSet(Spreading(a, f, T, s), room)
    BY <2>1, <2>2, <2>3, SpreadOne
  <2> QED BY <1>5, <2>1, <2>2, <2>4
<1>6. C \in R
  <2> HIDE DEF R
  <2> QED BY <1>3, <1>4, <1>5, FiniteInduction
<1> QED BY <1>1, <1>6

-----------------------------------------------------------------------------
(* The invariants.  CachedIsCurrent and the types need each other; the     *)
(* flows need the types, and the pipes only theirs.                        *)

TypeAndCache == AtmosTypeOK /\ CachedIsCurrent

LEMMA ConstantsFine ==
  /\ Empty \in AtmosData
  /\ DefaultAir(1) \in AtmosData /\ IsCurrent(DefaultAir(1))
  /\ FullTank \in AtmosData /\ IsCurrent(FullTank)
<1>1. Empty \in AtmosData
  BY DEF Empty, AtmosData
<1>2. ASSUME NEW d \in AtmosData, NEW s \in Stuff, NEW n \in Nat
      PROVE  AddStuff(d, s, n) \in AtmosData /\ IsCurrent(AddStuff(d, s, n))
  <2>1. [d.amount EXCEPT ![s] = @ + n] \in [Stuff -> Nat]
    BY DEF AtmosData
  <2>2. QED
    BY <2>1, WithAmountOK DEF AddStuff
<1>3. "nytrogen" \in Stuff /\ "oxygen" \in Stuff /\ "co2" \in Stuff /\ "energy" \in Stuff
  BY DEF Stuff, GASES
<1>4. AddStuff(Empty, "nytrogen", 750 \div 1) \in AtmosData
  BY <1>1, <1>2, <1>3
<1>5. AddStuff(AddStuff(Empty, "nytrogen", 750 \div 1), "oxygen", 230 \div 1) \in AtmosData
  BY <1>2, <1>3, <1>4
<1>6. AddStuff(AddStuff(AddStuff(Empty, "nytrogen", 750 \div 1), "oxygen", 230 \div 1), "co2", 1) \in AtmosData
  BY <1>2, <1>3, <1>5
<1>7. DefaultAir(1) \in AtmosData /\ IsCurrent(DefaultAir(1))
  BY <1>2, <1>3, <1>6 DEF DefaultAir
<1>8. AddStuff(Empty, "oxygen", 10000) \in AtmosData
  BY <1>1, <1>2, <1>3
<1>9. FullTank \in AtmosData /\ IsCurrent(FullTank)
  BY <1>2, <1>3, <1>8 DEF FullTank
<1>10. QED
  BY <1>1, <1>7, <1>9

LEMMA FirstAfterType ==
  ASSUME NEW m
  PROVE  FirstAfter(m) \subseteq Machine \cup {None}
BY DEF FirstAfter, After

LEMMA BreathFine ==
  ASSUME NEW d \in AtmosData, IsCurrent(d), NEW e \in Breathed(d)
  PROVE  e \in AtmosData /\ IsCurrent(e)
<1>1. ASSUME NEW x \in AtmosData, NEW s \in Stuff
      PROVE  RemoveGase(x, s, 1) \in AtmosData /\ IsCurrent(RemoveGase(x, s, 1))
  <2>1. [x.amount EXCEPT ![s] = @ - AtMost(1, @)] \in [Stuff -> Nat]
    BY DEF AtmosData, AtMost
  <2>2. QED
    BY <2>1, WithAmountOK DEF RemoveGase
<1>2. ASSUME NEW x \in AtmosData, NEW s \in Stuff
      PROVE  AddStuff(x, s, 1) \in AtmosData /\ IsCurrent(AddStuff(x, s, 1))
  <2>1. [x.amount EXCEPT ![s] = @ + 1] \in [Stuff -> Nat]
    BY DEF AtmosData
  <2>2. QED
    BY <2>1, WithAmountOK DEF AddStuff
<1>3. "oxygen" \in Stuff /\ "co2" \in Stuff /\ "plasma" \in Stuff
  BY DEF Stuff, GASES
<1>4. ASSUME NEW x \in AtmosData, IsCurrent(x)
      PROVE  Exhaled(x) \in AtmosData /\ IsCurrent(Exhaled(x))
  BY <1>1, <1>2, <1>3, <1>4 DEF Exhaled
<1>5. e = Exhaled(d) \/ e = Exhaled(RemoveGase(d, "plasma", 1))
  BY DEF Breathed
<1>6. QED
  BY <1>1, <1>3, <1>4, <1>5

LEMMA TypeInit == Init => TypeAndCache
<1> SUFFICES ASSUME Init PROVE TypeAndCache
  OBVIOUS
<1> USE DEF Init
<1>1. PICK l \in Layouts : flags = l.flags /\ air = l.air
  OBVIOUS
<1>2. flags \in [Cell -> SUBSET Flag] /\ air \in [Cell -> AtmosData] /\ \A c \in Cell : IsCurrent(air[c])
  BY <1>1, AtmosAssumption
<1>3. held \in [Machine -> AtmosData] /\ \A m \in Machine : IsCurrent(held[m])
  BY ConstantsFine
<1>4. flows \in [Cell -> [Side -> Int]]
  BY DEF Still
<1>5. ends \in [Machine -> [Side -> Machine \cup {None}]] /\ state \in [Machine -> {"closed", "open", "broken"}]
  OBVIOUS
<1>6. next \in Machine \cup {None}
  BY FirstAfterType DEF First
<1>7. QED
  BY <1>2, <1>3, <1>4, <1>5, <1>6 DEF TypeAndCache, AtmosTypeOK, GasOK, CachedIsCurrent, Phase

LEMMA IgniteCurrent ==
  ASSUME NEW d \in AtmosData, IsCurrent(d)
  PROVE  Ignite(d) \in AtmosData /\ IsCurrent(Ignite(d))
BY DEF Ignite, IsCurrent, UpdateMacroParams, AtmosData

\* What Connect leaves at socket b of machine a.
LEMMA ConnectAt ==
  ASSUME NEW e, EndsOK(e), NEW m \in Machine, NEW n \in Machine, NEW d \in Side
  PROVE  /\ EndsOK(Connect(e, m, d, n))
         /\ \A a \in Machine, b \in Side :
              Connect(e, m, d, n)[a][b] =
                IF a = m /\ b = d THEN n
                ELSE IF a = n /\ b = Revert(d) THEN m ELSE e[a][b]
<1> DEFINE e1 == [e EXCEPT ![n][Revert(d)] = m]
           e2 == [e1 EXCEPT ![m][d] = n]
<1>1. Revert(d) \in Side
  BY DEF Revert, Side
<1>2. EndsOK(e1) /\ \A a \in Machine, b \in Side :
        e1[a][b] = IF a = n /\ b = Revert(d) THEN m ELSE e[a][b]
  <2>1. e[n] \in [Side -> Machine \cup {None}]
    BY DEF EndsOK
  <2>2. [e[n] EXCEPT ![Revert(d)] = m] \in [Side -> Machine \cup {None}]
    BY <1>1, <2>1
  <2>3. e1 = [e EXCEPT ![n] = [e[n] EXCEPT ![Revert(d)] = m]]
    OBVIOUS
  <2>4. QED
    BY <1>1, <2>1, <2>2, <2>3 DEF EndsOK
<1> HIDE DEF e1
<1>3. EndsOK(e2) /\ \A a \in Machine, b \in Side :
        e2[a][b] = IF a = m /\ b = d THEN n ELSE e1[a][b]
  <2>1. e1[m] \in [Side -> Machine \cup {None}]
    BY <1>2 DEF EndsOK
  <2>2. [e1[m] EXCEPT ![d] = n] \in [Side -> Machine \cup {None}]
    BY <1>1, <2>1
  <2>3. e2 = [e1 EXCEPT ![m] = [e1[m] EXCEPT ![d] = n]]
    OBVIOUS
  <2>4. QED
    BY <1>1, <1>2, <2>1, <2>2, <2>3 DEF EndsOK
<1>4. Connect(e, m, d, n) = e2
  BY DEF Connect, e1
<1> HIDE DEF e2
<1>5. QED
  BY <1>2, <1>3, <1>4

LEMMA TypeNext == TypeAndCache /\ [Next]_vars => TypeAndCache'
<1> SUFFICES ASSUME TypeAndCache, [Next]_vars PROVE TypeAndCache'
  OBVIOUS
<1> USE DEF TypeAndCache, AtmosTypeOK, GasOK
<1>0. First \subseteq Machine \cup {None} /\ \A m : FirstAfter(m) \subseteq Machine \cup {None}
  BY FirstAfterType DEF First
<1>1. CASE JoinSocket
  <2> DEFINE d == Sockets[next][step]
  <2>1. next \in Machine /\ d \in Side
    BY <1>1, SocketsAssumption DEF JoinSocket
  <2>2. Revert(d) \in Side
    BY <2>1 DEF Revert, Side
  <2>3. UNCHANGED ends \/ \E n \in Ready(ends, next, d) : ends' = Connect(ends, next, d, n)
    BY <1>1 DEF JoinSocket
  <2>4. ASSUME NEW n \in Ready(ends, next, d) PROVE n \in Machine
    BY DEF Ready
  <2> HIDE DEF d
  <2>5. ends' \in [Machine -> [Side -> Machine \cup {None}]]
    BY <2>1, <2>3, <2>4, ConnectAt DEF EndsOK
  <2>6. QED
    BY <1>1, <2>5 DEF JoinSocket, CachedIsCurrent
<1>2. CASE Joined
  BY <1>0, <1>2 DEF Joined, CachedIsCurrent
<1>3. CASE StartTick
  BY <1>0, <1>3 DEF StartTick, CachedIsCurrent, Phase
<1>4. CASE ProcessMachine
  <2> DEFINE g0 == [air |-> air, held |-> held]
             g == Processed(g0, ends, state, next)
  <2>1. GasFine(g0)
    BY <1>4 DEF GasFine, ProcessMachine, CachedIsCurrent
  <2>2. EndsOK(ends) /\ next \in Machine
    BY <1>4 DEF EndsOK, ProcessMachine
  <2> HIDE DEF g0
  <2>3. GasFine(g)
    BY <2>1, <2>2, ProcessedKeeps DEF GasKept
  <2>4. air' = g.air /\ held' = g.held
    BY <1>4 DEF ProcessMachine, g0
  <2> HIDE DEF g
  <2>5. GasOK' /\ CachedIsCurrent'
    BY <2>3, <2>4 DEF GasFine, CachedIsCurrent
  <2>6. QED
    BY <1>0, <1>4, <2>5 DEF ProcessMachine
<1>5. CASE ObjectsDone
  BY <1>5 DEF ObjectsDone, CachedIsCurrent, Phase
<1>6. ASSUME NEW c \in People, Live(c) PROVE TypeAndCache'
  <2>1. c \in Cell /\ air[c] \in AtmosData /\ IsCurrent(air[c])
    BY <1>6, AtmosAssumption DEF Live, CachedIsCurrent
  <2>2. PICK d \in Breathed(air[c]) : air' = [air EXCEPT ![c] = d]
    BY <1>6 DEF Live
  <2>3. d \in AtmosData /\ IsCurrent(d)
    BY <2>1, BreathFine
  <2>4. air' \in [Cell -> AtmosData] /\ CachedIsCurrent'
    BY <1>6, <2>1, <2>2, <2>3 DEF CachedIsCurrent, Live
  <2>5. QED
    BY <1>6, <2>4 DEF Live
<1>7. ASSUME NEW c \in Welders, Weld(c) PROVE TypeAndCache'
  <2>1. c \in Cell /\ air[c] \in AtmosData /\ IsCurrent(air[c])
    BY <1>7, AtmosAssumption DEF Weld, CachedIsCurrent
  <2>2. Ignite(air[c]) \in AtmosData /\ IsCurrent(Ignite(air[c]))
    BY <2>1, IgniteCurrent
  <2>3. air' \in [Cell -> AtmosData] /\ CachedIsCurrent'
    BY <1>7, <2>1, <2>2 DEF CachedIsCurrent, Weld
  <2>4. QED
    BY <1>7, <2>3 DEF Weld
<1>8. CASE Spread
  <2> DEFINE centres == Centres(flags, step, tick)
  <2>1. CentresOK(centres)
    BY CentresFine
  <2>2. air' = SpreadAir(air, flags, centres) /\ flows' = SpreadFlows(air, flows, flags, centres)
    BY <1>8 DEF Spread
  <2> HIDE DEF centres
  <2>3. air' \in [Cell -> AtmosData]
    BY <2>1, <2>2, SpreadAirOK
  <2>4. flows' \in [Cell -> [Side -> Int]]
    BY <2>1, <2>2, SpreadFlowsType
  <2>5. CachedIsCurrent'
    BY <1>8 DEF Spread, CachedIsCurrent
  <2>6. QED
    BY <1>8, <2>3, <2>4, <2>5 DEF Spread
<1>9. CASE FinalizePass
  <2>1. Finalize(air, flags) \in [Cell -> AtmosData] /\ \A c \in Cell : IsCurrent(Finalize(air, flags)[c])
    BY FinalizeOK
  <2>2. CachedIsCurrent' /\ air' \in [Cell -> AtmosData]
    BY <1>9, <2>1 DEF FinalizePass, CachedIsCurrent
  <2>3. QED
    BY <1>9, <2>2 DEF FinalizePass, Phase
<1>10. CASE ProcessConsequences
  BY <1>10 DEF ProcessConsequences, Still, CachedIsCurrent, Phase
<1>11. ASSUME NEW m \in Machine, Click(m) PROVE TypeAndCache'
  BY <1>11 DEF Click, CachedIsCurrent
<1>12. ASSUME NEW c \in Movers, SetFlags(c) PROVE TypeAndCache'
  BY <1>12, AtmosAssumption DEF SetFlags, CachedIsCurrent, Flag
<1>13. CASE UNCHANGED vars
  BY <1>13 DEF vars, CachedIsCurrent
<1>14. QED
  BY <1>1, <1>2, <1>3, <1>4, <1>5, <1>6, <1>7, <1>8, <1>9, <1>10, <1>11, <1>12, <1>13 DEF Next

(* Every holder of gas stays one, on every map and with any pipework: no   *)
(* exchange, breath or fire takes out more than there is.                  *)
THEOREM GasTypeCorrect == Spec => []AtmosTypeOK
<1>1. TypeAndCache => AtmosTypeOK
  BY DEF TypeAndCache
<1>2. QED
  BY <1>1, TypeInit, TypeNext, PTL DEF Spec

(* Whoever reads a pressure or a temperature reads that of the gas.        *)
THEOREM CacheCorrect == Spec => []CachedIsCurrent
<1>1. TypeAndCache => CachedIsCurrent
  BY DEF TypeAndCache
<1>2. QED
  BY <1>1, TypeInit, TypeNext, PTL DEF Spec

(* Both, as the runs check it.                                             *)
THEOREM CellsAreSound == Spec => []CellsSound
<1>1. TypeAndCache => CellsSound
  BY DEF TypeAndCache, CellsSound
<1>2. QED
  BY <1>1, TypeInit, TypeNext, PTL DEF Spec

-----------------------------------------------------------------------------
(* Gas in the world, step by step.                                         *)

LEMMA CentresApart ==
  ASSUME NEW f, NEW n \in 0..LastStep, NEW t \in Nat
  PROVE  Apart(Centres(f, n, t))
<1>1. PICK C : C = Centres(f, n, t)
  OBVIOUS
<1>2. \A k \in C : k \in Cell /\ IsCentre(k, n, t)
  BY <1>1 DEF Centres
<1>3. ASSUME NEW k \in C, NEW l \in C, k # l PROVE Touched(k) \cap Touched(l) = {}
  BY <1>2, <1>3, StageIsParallel
<1>4. CentresOK(C)
  BY <1>1, CentresFine
<1> QED BY <1>1, <1>3, <1>4 DEF Apart

LEMMA SealedIsClosed ==
  ASSUME NEW room \in SUBSET Cell, Sealed(room), NEW n, NEW t
  PROVE  Closed(flags, Centres(flags, n, t), room)
<1> SUFFICES ASSUME NEW k \in Centres(flags, n, t), NEW d \in Side, Open(flags, k, d)
             PROVE  k \in room <=> Near(k, d) \in room
  BY DEF Closed
<1>1. PICK m : m = Near(k, d)
  OBVIOUS
<1>2. k \in Cell /\ m \in Cell /\ "center" \notin flags[k]
  BY <1>1, CentresInside DEF Centres
<1>3. d \notin flags[k] /\ Revert(d) \notin flags[m] /\ "center" \notin flags[m]
  BY <1>1 DEF Open
<1>4. Near(m, Revert(d)) = k /\ Revert(d) \in Side /\ Revert(Revert(d)) = d
  BY <1>1, <1>2, NearBack DEF Revert, Side
<1>5. CASE k \in room /\ m \notin room
  <2>1. \/ d \in flags[k] \/ Revert(d) \in flags[m]
        \/ "center" \in flags[k] \cup flags[m]
    BY <1>1, <1>2, <1>5 DEF Sealed
  <2> QED BY <1>2, <1>3, <2>1
<1>6. CASE m \in room /\ k \notin room
  <2>1. \/ Revert(d) \in flags[m] \/ Revert(Revert(d)) \in flags[k]
        \/ "center" \in flags[m] \cup flags[k]
    BY <1>2, <1>4, <1>6 DEF Sealed
  <2> QED BY <1>2, <1>3, <1>4, <2>1
<1> QED BY <1>1, <1>5, <1>6

(* No gas and no energy gets into a closed room or out of it while the     *)
(* grid spreads the gas, none appears and none is lost, and none of what   *)
(* the pipes and the tanks move around is made or lost.                    *)
THEOREM GasIsConserved == Spec => GasConserved
<1> DEFINE Kept ==
      /\ Spread => \A room \in Rooms, s \in Stuff : Sealed(room) => InRoom(room, s)' = InRoom(room, s)
      /\ ProcessMachine => \A s \in Stuff : InWorld(s)' = InWorld(s)
<1>1. ASSUME TypeAndCache, Spread, NEW room \in Rooms, NEW s \in Stuff, Sealed(room)
      PROVE  InRoom(room, s)' = InRoom(room, s)
  <2>1. PICK C : C = Centres(flags, step, tick)
    OBVIOUS
  <2>2. air' = SpreadAir(air, flags, C) /\ step \in 0..LastStep /\ tick \in Nat
    BY <1>1, <2>1 DEF Spread, LastStep, TypeAndCache, AtmosTypeOK
  <2>3. Apart(C)
    BY <2>1, <2>2, CentresApart
  <2>4. room \in SUBSET Cell
    BY AtmosAssumption
  <2>5. Closed(flags, C, room)
    BY <1>1, <2>1, <2>4, SealedIsClosed
  <2>6. air \in [Cell -> AtmosData]
    BY <1>1 DEF TypeAndCache, AtmosTypeOK, GasOK
  <2>7. SumFunctionOnSet(Spreading(air, flags, C, s), room) = SumFunctionOnSet([c \in Cell |-> air[c].amount[s]], room)
    BY <2>3, <2>4, <2>5, <2>6, SpreadKeeps
  <2>8. Spreading(air, flags, C, s) = [c \in Cell |-> air'[c].amount[s]]
    BY <2>2 DEF Spreading
  <2> QED BY <2>7, <2>8 DEF InRoom
<1>2. ASSUME TypeAndCache, ProcessMachine, NEW s \in Stuff
      PROVE  InWorld(s)' = InWorld(s)
  <2>1. PICK g, h : g = [air |-> air, held |-> held] /\ h = Processed(g, ends, state, next)
    OBVIOUS
  <2>2. GasFine(g)
    BY <1>2, <2>1 DEF GasFine, ProcessMachine, TypeAndCache, AtmosTypeOK, GasOK, CachedIsCurrent
  <2>3. EndsOK(ends) /\ next \in Machine
    BY <1>2 DEF EndsOK, ProcessMachine, TypeAndCache, AtmosTypeOK
  <2>4. Total(h, s) = Total(g, s)
    BY <2>1, <2>2, <2>3, ProcessedKeeps DEF GasKept
  <2>5. air' = h.air /\ held' = h.held /\ g.air = air /\ g.held = held
    BY <1>2, <2>1 DEF ProcessMachine
  <2>6. Total(g, s) = InWorld(s)
    BY <2>5 DEF Total, Amounts, InWorld, InRoom, InMachines
  <2>7. Total(h, s) = InWorld(s)'
    BY <2>5 DEF Total, Amounts, InWorld, InRoom, InMachines
  <2> QED BY <2>4, <2>6, <2>7
<1>3. TypeAndCache => Kept
  BY <1>1, <1>2
<1>4. QED
  BY <1>3, TypeInit, TypeNext, PTL DEF Spec, GasConserved

-----------------------------------------------------------------------------
(* Flows.                                                                  *)

LEMMA FlowsBalanceSpread ==
  ASSUME NEW a \in [Cell -> AtmosData], NEW w \in [Cell -> [Side -> Int]], NEW f,
         NEW centres, CentresOK(centres),
         NEW c \in Cell, NEW d \in Side, Near(c, d) \in Cell,
         w[c][d] + w[Near(c, d)][Revert(d)] = 0
  PROVE  SpreadFlows(a, w, f, centres)[c][d]
           + SpreadFlows(a, w, f, centres)[Near(c, d)][Revert(d)] = 0
<1> DEFINE n == Near(c, d)
           r == Revert(d)
           out == IF c \in centres THEN Gain(a, f, c, d) ELSE 0
           in == IF n \in centres THEN Gain(a, f, n, r) ELSE 0
<1>1. r \in Side /\ Revert(r) = d
  BY DEF Revert, Side
<1>2. Near(n, r) = c
  <2>1. c[1] \in Int /\ c[2] \in Int /\ c = <<c[1], c[2]>>
    BY GridAssumption DEF Cell
  <2>2. DX(r) = -DX(d) /\ DY(r) = -DY(d) /\ DX(d) \in Int /\ DY(d) \in Int
    BY DEF DX, DY, Revert, Side
  <2>3. QED
    BY <2>1, <2>2 DEF Near
<1>3. out \in Int /\ in \in Int
  BY <1>1, GainType DEF CentresOK
<1>4. SpreadFlows(a, w, f, centres)[c][d] = w[c][d] - out + in
  <2>1. (IF IsNearOf(f, centres, c, r) THEN Gain(a, f, n, r) ELSE 0) = in
    BY <1>1 DEF IsNearOf, Gain
  <2>2. QED
    BY <2>1 DEF SpreadFlows
<1>5. SpreadFlows(a, w, f, centres)[n][r] = w[n][r] - in + out
  <2>1. (IF IsNearOf(f, centres, n, Revert(r)) THEN Gain(a, f, Near(n, r), Revert(r)) ELSE 0) = out
    BY <1>1, <1>2 DEF IsNearOf, Gain
  <2>2. QED
    BY <1>1, <2>1 DEF SpreadFlows
<1>6. w[c][d] \in Int /\ w[n][r] \in Int
  BY <1>1
<1> HIDE DEF n, r, out, in
<1>7. w[c][d] - out + in + (w[n][r] - in + out) = 0
  <2>1. w[c][d] + w[n][r] = 0
    BY DEF n, r
  <2>2. QED
    BY <1>3, <1>6, <2>1
<1>8. QED
  BY <1>4, <1>5, <1>7 DEF n, r

LEMMA FlowsNext == TypeAndCache /\ FlowsBalance /\ [Next]_vars => FlowsBalance'
<1> SUFFICES ASSUME TypeAndCache, FlowsBalance, [Next]_vars PROVE FlowsBalance'
  OBVIOUS
<1>1. CASE Spread
  <2> DEFINE centres == Centres(flags, step, tick)
  <2>1. CentresOK(centres)
    BY CentresFine
  <2>2. flows' = SpreadFlows(air, flows, flags, centres)
    BY <1>1 DEF Spread
  <2>3. air \in [Cell -> AtmosData] /\ flows \in [Cell -> [Side -> Int]]
    BY DEF TypeAndCache, AtmosTypeOK, GasOK
  <2> HIDE DEF centres
  <2>4. QED
    BY <2>1, <2>2, <2>3, FlowsBalanceSpread DEF FlowsBalance
<1>2. CASE ProcessConsequences
  <2>1. ASSUME NEW c \in Cell, NEW d \in Side, Near(c, d) \in Cell
        PROVE  flows'[c][d] + flows'[Near(c, d)][Revert(d)] = 0
    BY <1>2, <2>1 DEF ProcessConsequences, Still, Revert, Side
  <2>2. QED
    BY <2>1 DEF FlowsBalance
<1>3. CASE UNCHANGED flows
  BY <1>3 DEF FlowsBalance
<1>4. Spread \/ ProcessConsequences \/ UNCHANGED flows
  BY DEF Next, vars, JoinSocket, Joined, StartTick, ProcessMachine, ObjectsDone, Live, Weld,
         FinalizePass, Click, SetFlags
<1>5. QED
  BY <1>1, <1>2, <1>3, <1>4

(* What a cell gained through a side its neighbour lost through it, so the *)
(* wind never blows two neighbours against each other.                     *)
THEOREM FlowsCorrect == Spec => []FlowsBalance
<1>1. Init => FlowsBalance
  <2> SUFFICES ASSUME Init, NEW c \in Cell, NEW d \in Side, Near(c, d) \in Cell
               PROVE  flows[c][d] + flows[Near(c, d)][Revert(d)] = 0
    BY DEF FlowsBalance
  <2>1. QED
    BY DEF Init, Still, Revert, Side
<1>2. QED
  BY <1>1, TypeInit, TypeNext, FlowsNext, PTL DEF Spec

-----------------------------------------------------------------------------
(* Pipes.                                                                  *)

LEMMA MutualNext == TypeAndCache /\ PipesMutual /\ [Next]_vars => PipesMutual'
<1> SUFFICES ASSUME TypeAndCache, PipesMutual, [Next]_vars PROVE PipesMutual'
  OBVIOUS
<1>1. CASE JoinSocket
  <2> DEFINE d == Sockets[next][step]
  <2>1. next \in Machine /\ d \in Side /\ HasSocket(next, d)
    BY <1>1, SocketsAssumption DEF JoinSocket, HasSocket, TypeAndCache, AtmosTypeOK
  <2>2. Revert(d) \in Side /\ Revert(Revert(d)) = d /\ Revert(d) # d
    BY <2>1 DEF Revert, Side
  <2>3. EndsOK(ends)
    BY DEF TypeAndCache, AtmosTypeOK, EndsOK
  <2>4. CASE UNCHANGED ends
    BY <2>4 DEF PipesMutual
  <2>5. ASSUME NEW n \in Ready(ends, next, d), ends[next][d] = None, ends' = Connect(ends, next, d, n)
        PROVE  PipesMutual'
    <3>1. n \in Machine /\ HasSocket(n, Revert(d)) /\ ends[n][Revert(d)] = None
      BY DEF Ready, Accepts
    <3> HIDE DEF d
    <3>2. \A a \in Machine, b \in Side :
            ends'[a][b] = IF a = next /\ b = d THEN n
                          ELSE IF a = n /\ b = Revert(d) THEN next ELSE ends[a][b]
      <4>1. \A a \in Machine, b \in Side :
              Connect(ends, next, d, n)[a][b] =
                IF a = next /\ b = d THEN n
                ELSE IF a = n /\ b = Revert(d) THEN next ELSE ends[a][b]
        BY <2>1, <2>3, <3>1, ConnectAt
      <4>2. QED
        BY <2>5, <4>1
    <3>3. ASSUME NEW a \in Machine, NEW b \in Side, ends'[a][b] # None
          PROVE  HasSocket(a, b) /\ HasSocket(ends'[a][b], Revert(b)) /\ ends'[ends'[a][b]][Revert(b)] = a
      <4>1. CASE a = next /\ b = d
        BY <2>1, <2>2, <3>1, <3>2, <4>1
      <4>2. CASE a = n /\ b = Revert(d)
        BY <2>1, <2>2, <3>1, <3>2, <4>2
      <4>3. CASE ~(a = next /\ b = d) /\ ~(a = n /\ b = Revert(d))
        <5>1. ends'[a][b] = ends[a][b]
          BY <3>2, <4>3
        <5> DEFINE o == ends[a][b]
        <5>2. o \in Machine /\ HasSocket(a, b) /\ HasSocket(o, Revert(b)) /\ ends[o][Revert(b)] = a
          BY <2>3, <3>3, <5>1 DEF PipesMutual, EndsOK
        <5>3. Revert(b) \in Side
          BY DEF Revert, Side
        <5>4. a # None
          BY PipesAssumption
        <5> HIDE DEF o
        <5>5. ends'[o][Revert(b)] = ends[o][Revert(b)]
          <6>1. ~(o = next /\ Revert(b) = d)
            BY <2>5, <5>2, <5>4
          <6>2. ~(o = n /\ Revert(b) = Revert(d))
            BY <3>1, <5>2, <5>4
          <6>3. QED
            BY <3>2, <5>2, <5>3, <6>1, <6>2
        <5>6. QED
          BY <5>1, <5>2, <5>5 DEF o
      <4>4. QED
        BY <4>1, <4>2, <4>3
    <3>4. QED
      BY <3>3 DEF PipesMutual
  <2>6. QED
    BY <1>1, <2>4, <2>5 DEF JoinSocket
<1>2. CASE UNCHANGED ends
  BY <1>2 DEF PipesMutual
<1>3. JoinSocket \/ UNCHANGED ends
  BY DEF Next, vars, Joined, StartTick, ProcessMachine, ObjectsDone, Live, Weld, Spread,
         FinalizePass, ProcessConsequences, Click, SetFlags
<1>4. QED
  BY <1>1, <1>2, <1>3

(* Two joined pipes agree that they are, whatever the order in which the   *)
(* world created them.                                                     *)
THEOREM PipesCorrect == Spec => []PipesMutual
<1>1. Init => PipesMutual
  BY DEF Init, PipesMutual
<1>2. QED
  BY <1>1, TypeInit, TypeNext, MutualNext, PTL DEF Spec
=============================================================================
