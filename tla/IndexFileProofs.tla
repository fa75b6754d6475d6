-------------------------- MODULE IndexFileProofs ---------------------------
(***************************************************************************)
(* What IndexFile promises, for every root, plan, unit and limit: while a  *)
(* side expands its template, what it has listed and what is pending       *)
(* divide the root, and never outnumber the side's limit; what the decoder *)
(* makes of an undamaged file is what the encoder was given; and no plan   *)
(* that was accepted becomes a file the decoder refuses.                   *)
(***************************************************************************)
EXTENDS IndexFile, FiniteSetTheorems, WellFoundedInduction, TLAPS

-----------------------------------------------------------------------------
(* Induction over numbers and finite sets, with sets for predicates.       *)

Less == {x \in Nat \X Nat : x[1] < x[2]}

\* A set of numbers that is not empty has a least one.
LEMMA LeastNumber ==
    ASSUME NEW T, T \subseteq Nat, T # {}
    PROVE  \E x \in T : \A y \in T : x <= y
<1>1. IsWellFoundedOn(Less, Nat)
  <2>1. IsWellFoundedOn(OpToRel(<, Nat), Nat)
    BY NatLessThanWellFounded
  <2>2. OpToRel(<, Nat) = Less
    BY DEF OpToRel, Less
  <2>. QED BY <2>1, <2>2
<1>2. PICK x \in T : \A y \in T : ~ (<<y, x>> \in Less)
  BY <1>1, WFMin, Zenon
<1>3. ASSUME NEW y \in T
      PROVE  x <= y
  <2>1. x \in Nat /\ y \in Nat /\ ~ (<<y, x>> \in Less)
    BY <1>2
  <2>2. y < x => <<y, x>> \in Less
    BY <2>1 DEF Less
  <2>. QED BY <2>1, <2>2
<1>. QED BY <1>3

\* A set with zero and all successors of its numbers has all numbers.
LEMMA NumberInduction ==
    ASSUME NEW T, T \subseteq Nat, 0 \in T, \A n \in T : n + 1 \in T
    PROVE  T = Nat
<1>. SUFFICES ASSUME T # Nat PROVE FALSE
  OBVIOUS
<1>1. PICK x \in Nat \ T : \A y \in Nat \ T : x <= y
  <2>. DEFINE U == Nat \ T
  <2>1. U \subseteq Nat /\ U # {}
    OBVIOUS
  <2>. HIDE DEF U
  <2>2. \E x \in U : \A y \in U : x <= y
    BY <2>1, LeastNumber
  <2>. QED BY <2>2 DEF U
<1>2. x # 0 /\ x - 1 \in Nat /\ ~ (x <= x - 1)
  BY <1>1
<1>3. x - 1 \in T
  BY <1>1, <1>2
<1>4. (x - 1) + 1 = x
  BY <1>1
<1>. QED BY <1>1, <1>3, <1>4

\* A set of finite sets with the empty one, and with each set whose subsets without
\* one element are in it, has all subsets of a finite set.
LEMMA SubsetInduction ==
    ASSUME NEW D, IsFiniteSet(D), NEW T, {} \in T,
           \A s \in SUBSET D : s # {} /\ (\A x \in s : s \ {x} \in T) => s \in T
    PROVE  SUBSET D \subseteq T
<1>. DEFINE N == {n \in Nat : \A s \in SUBSET D : Cardinality(s) = n => s \in T}
<1>1. \A s \in SUBSET D : IsFiniteSet(s) /\ Cardinality(s) \in Nat
  BY FS_Subset, FS_CardinalityType
<1>2. 0 \in N
  BY <1>1, FS_EmptySet
<1>3. ASSUME NEW n \in N
      PROVE  n + 1 \in N
  <2>. SUFFICES ASSUME NEW s \in SUBSET D, Cardinality(s) = n + 1
                PROVE  s \in T
    OBVIOUS
  <2>1. s # {}
    BY FS_EmptySet
  <2>2. ASSUME NEW x \in s
        PROVE  s \ {x} \in T
    <3>1. Cardinality(s \ {x}) = Cardinality(s) - 1
      BY <1>1, FS_RemoveElement
    <3>2. s \ {x} \in SUBSET D /\ Cardinality(s \ {x}) = n
      BY <3>1
    <3>. QED BY <3>2
  <2>. QED BY <2>1, <2>2
<1>4. N = Nat
  <2>1. N \subseteq Nat
    OBVIOUS
  <2>. HIDE DEF N
  <2>. QED BY <1>2, <1>3, <2>1, NumberInduction
<1>. QED BY <1>1, <1>4

-----------------------------------------------------------------------------
(* Sums.                                                                   *)

Chosen(s) == CHOOSE x \in s : TRUE

\* A function on the subsets of D that adds up f, an element at a time.
Adds(g, f, D) ==
    g = [s \in SUBSET D |-> IF s = {} THEN 0 ELSE f[Chosen(s)] + g[s \ {Chosen(s)}]]

Sum(f, D) == SumFunctionOnSet(f, D)

\* The sum is what such a function gives for all of D.
LEMMA SumByChoice ==
    ASSUME NEW f, NEW D
    PROVE  Sum(f, D) = (CHOOSE g : Adds(g, f, D))[D]
BY DEF Sum, SumFunctionOnSet, FoldFunctionOnSet, MapThenFoldSet, Adds, Chosen

\* For a finite set there is one.
LEMMA AddsExists ==
    ASSUME NEW f, NEW D, IsFiniteSet(D)
    PROVE  \E g : Adds(g, f, D)
<1>. DEFINE Upto(n) == {s \in SUBSET D : Cardinality(s) <= n}
            Part(g, n) ==
                g = [s \in Upto(n) |->
                        IF s = {} THEN 0 ELSE f[Chosen(s)] + g[s \ {Chosen(s)}]]
            N == {n \in Nat : \E g : Part(g, n)}
<1>1. \A s \in SUBSET D : IsFiniteSet(s) /\ Cardinality(s) \in Nat
  BY FS_Subset, FS_CardinalityType
<1>2. \A s \in SUBSET D : s # {} =>
         /\ Chosen(s) \in s /\ s \ {Chosen(s)} \in SUBSET D
         /\ Cardinality(s \ {Chosen(s)}) = Cardinality(s) - 1
  <2>. SUFFICES ASSUME NEW s \in SUBSET D, s # {}
                PROVE  /\ Chosen(s) \in s /\ s \ {Chosen(s)} \in SUBSET D
                       /\ Cardinality(s \ {Chosen(s)}) = Cardinality(s) - 1
    OBVIOUS
  <2>1. Chosen(s) \in s
    BY DEF Chosen
  <2>. QED BY <1>1, <2>1, FS_RemoveElement
<1>3. 0 \in N
  <2>. DEFINE g == [s \in Upto(0) |-> 0]
  <2>1. \A s \in Upto(0) : s = {}
    BY <1>1, FS_EmptySet
  <2>2. Part(g, 0)
    <3>1. \A s \in Upto(0) :
             0 = IF s = {} THEN 0 ELSE f[Chosen(s)] + g[s \ {Chosen(s)}]
      BY <2>1
    <3>. QED BY <3>1
  <2>. QED BY <2>2
<1>4. ASSUME NEW n \in N
      PROVE  n + 1 \in N
  <2>1. PICK g : Part(g, n)
    OBVIOUS
  <2>2. n \in Nat /\ Upto(n) \subseteq Upto(n + 1)
    BY <1>1
  <2>. DEFINE h == [s \in Upto(n + 1) |->
                      IF s = {} THEN 0 ELSE f[Chosen(s)] + g[s \ {Chosen(s)}]]
  <2>3. \A s \in Upto(n) : h[s] = g[s]
    BY <2>1, <2>2
  <2>4. \A s \in Upto(n + 1) : s # {} => s \ {Chosen(s)} \in Upto(n)
    BY <1>1, <1>2, <2>2
  <2>5. \A s \in Upto(n + 1) : s # {} => h[s \ {Chosen(s)}] = g[s \ {Chosen(s)}]
    BY <2>3, <2>4
  <2>6. Part(h, n + 1)
    <3>1. ASSUME NEW s \in Upto(n + 1)
          PROVE  (IF s = {} THEN 0 ELSE f[Chosen(s)] + g[s \ {Chosen(s)}])
                 = (IF s = {} THEN 0 ELSE f[Chosen(s)] + h[s \ {Chosen(s)}])
      <4>. HIDE DEF h, Upto
      <4>. QED BY <2>5
    <3>2. h = [s \in Upto(n + 1) |->
                 IF s = {} THEN 0 ELSE f[Chosen(s)] + g[s \ {Chosen(s)}]]
      OBVIOUS
    <3>. HIDE DEF h, Upto
    <3>3. h = [s \in Upto(n + 1) |->
                 IF s = {} THEN 0 ELSE f[Chosen(s)] + h[s \ {Chosen(s)}]]
      BY <3>1, <3>2, Zenon
    <3>. QED BY <3>3
  <2>7. n + 1 \in Nat /\ \E k : Part(k, n + 1)
    <3>. HIDE DEF h, Part
    <3>. QED BY <2>2, <2>6
  <2>. QED BY <2>7
<1>5. N = Nat
  <2>1. N \subseteq Nat
    OBVIOUS
  <2>. HIDE DEF N
  <2>. QED BY <1>3, <1>4, <2>1, NumberInduction
<1>6. Cardinality(D) \in Nat /\ \A s \in SUBSET D : Cardinality(s) <= Cardinality(D)
  BY <1>1, FS_Subset
<1>7. Upto(Cardinality(D)) = SUBSET D
  BY <1>6
<1>8. PICK g : Part(g, Cardinality(D))
  BY <1>5, <1>6
<1>9. Adds(g, f, D)
  BY <1>7, <1>8 DEF Adds
<1>. QED BY <1>9

\* Nothing adds up to zero, and a set to its chosen element and the rest.
LEMMA SumUnfolds ==
    ASSUME NEW f, NEW D, IsFiniteSet(D)
    PROVE  Sum(f, D) = IF D = {} THEN 0 ELSE f[Chosen(D)] + Sum(f, D \ {Chosen(D)})
<1>. DEFINE G(A) == CHOOSE g : Adds(g, f, A)
<1>1. ASSUME NEW A, IsFiniteSet(A)
      PROVE  /\ Sum(f, A) = G(A)[A]
             /\ \A s \in SUBSET A : G(A)[s] =
                   IF s = {} THEN 0 ELSE f[Chosen(s)] + G(A)[s \ {Chosen(s)}]
  <2>1. Adds(G(A), f, A)
    BY <1>1, AddsExists
  <2>. DEFINE g == G(A)
  <2>2. Sum(f, A) = g[A]
    BY SumByChoice
  <2>3. Adds(g, f, A)
    BY <2>1
  <2>. HIDE DEF g
  <2>4. \A s \in SUBSET A : g[s] =
           IF s = {} THEN 0 ELSE f[Chosen(s)] + g[s \ {Chosen(s)}]
    BY <2>3 DEF Adds
  <2>. QED BY <2>2, <2>4 DEF g
<1>. HIDE DEF G
<1>2. CASE D = {}
  BY <1>1, <1>2
<1>3. CASE D # {}
  <2>. DEFINE B == D \ {Chosen(D)}
  <2>1. B \in SUBSET D /\ IsFiniteSet(B)
    BY FS_Subset
  <2>. HIDE DEF B
  <2>. DEFINE T == {s \in SUBSET B : G(D)[s] = G(B)[s]}
  <2>2. {} \in T
    BY <1>1, <2>1
  <2>3. ASSUME NEW s \in SUBSET B, s # {}, \A x \in s : s \ {x} \in T
        PROVE  s \in T
    <3>1. Chosen(s) \in s
      BY <2>3 DEF Chosen
    <3>2. G(D)[s \ {Chosen(s)}] = G(B)[s \ {Chosen(s)}]
      BY <2>3, <3>1
    <3>3. s \in SUBSET D
      BY <2>1
    <3>4. G(D)[s] = f[Chosen(s)] + G(D)[s \ {Chosen(s)}]
      BY <1>1, <2>3, <3>3
    <3>5. G(B)[s] = f[Chosen(s)] + G(B)[s \ {Chosen(s)}]
      BY <1>1, <2>1, <2>3
    <3>. QED BY <3>2, <3>4, <3>5
  <2>. HIDE DEF T
  <2>4. SUBSET B \subseteq T
    BY <2>1, <2>2, <2>3, SubsetInduction
  <2>5. G(D)[B] = G(B)[B]
    BY <2>4 DEF T
  <2>6. Sum(f, D) = f[Chosen(D)] + G(D)[B]
    BY <1>1, <1>3 DEF B
  <2>7. Sum(f, B) = G(B)[B]
    BY <1>1, <2>1
  <2>8. Sum(f, D) = f[Chosen(D)] + Sum(f, B)
    BY <2>5, <2>6, <2>7
  <2>. QED BY <1>3, <2>8 DEF B
<1>. QED BY <1>2, <1>3

\* Equal terms add up to equal sums.
LEMMA SumOfEqual ==
    ASSUME NEW f, NEW g, NEW D, IsFiniteSet(D), \A x \in D : f[x] = g[x]
    PROVE  Sum(f, D) = Sum(g, D)
<1>. DEFINE T == {s \in SUBSET D : Sum(f, s) = Sum(g, s)}
<1>1. {} \in T
  BY SumUnfolds, FS_EmptySet
<1>2. ASSUME NEW s \in SUBSET D, s # {}, \A x \in s : s \ {x} \in T
      PROVE  s \in T
  <2>1. Chosen(s) \in s /\ IsFiniteSet(s)
    BY <1>2, FS_Subset DEF Chosen
  <2>2. Sum(f, s \ {Chosen(s)}) = Sum(g, s \ {Chosen(s)}) /\ f[Chosen(s)] = g[Chosen(s)]
    BY <1>2, <2>1
  <2>3. Sum(f, s) = f[Chosen(s)] + Sum(f, s \ {Chosen(s)})
    BY <1>2, <2>1, SumUnfolds
  <2>4. Sum(g, s) = g[Chosen(s)] + Sum(g, s \ {Chosen(s)})
    BY <1>2, <2>1, SumUnfolds
  <2>. QED BY <2>2, <2>3, <2>4
<1>. HIDE DEF T
<1>3. SUBSET D \subseteq T
  BY <1>1, <1>2, SubsetInduction
<1>. QED BY <1>3 DEF T

\* Integers add up to an integer, numbers to a number.
LEMMA SumIsNumber ==
    ASSUME NEW f, NEW D, IsFiniteSet(D), NEW Z \in {Nat, Int}, \A x \in D : f[x] \in Z
    PROVE  Sum(f, D) \in Z
<1>. DEFINE T == {s \in SUBSET D : Sum(f, s) \in Z}
<1>1. {} \in T
  <2>1. Sum(f, {}) = 0
    BY SumUnfolds, FS_EmptySet
  <2>2. 0 \in Z
    <3>1. Z = Nat \/ Z = Int
      OBVIOUS
    <3>. QED BY <3>1
  <2>. QED BY <2>1, <2>2
<1>2. ASSUME NEW s \in SUBSET D, s # {}, \A x \in s : s \ {x} \in T
      PROVE  s \in T
  <2>1. Chosen(s) \in s /\ IsFiniteSet(s)
    BY <1>2, FS_Subset DEF Chosen
  <2>2. Sum(f, s \ {Chosen(s)}) \in Z /\ f[Chosen(s)] \in Z
    BY <1>2, <2>1
  <2>3. Sum(f, s) = f[Chosen(s)] + Sum(f, s \ {Chosen(s)})
    BY <1>2, <2>1, SumUnfolds
  <2>4. Z = Nat \/ Z = Int
    OBVIOUS
  <2>5. Sum(f, s) \in Z
    <3>1. \A a, b \in Z : a + b \in Z
      BY <2>4
    <3>. QED BY <2>2, <2>3, <3>1
  <2>. QED BY <2>5
<1>. HIDE DEF T
<1>3. SUBSET D \subseteq T
  BY <1>1, <1>2, SubsetInduction
<1>. QED BY <1>3 DEF T

\* Any element may be added last.
LEMMA SumSplits ==
    ASSUME NEW f, NEW D, IsFiniteSet(D), \A x \in D : f[x] \in Int, NEW e \in D
    PROVE  Sum(f, D) = f[e] + Sum(f, D \ {e})
<1>. DEFINE T == {s \in SUBSET D : \A x \in s : Sum(f, s) = f[x] + Sum(f, s \ {x})}
<1>1. {} \in T
  OBVIOUS
<1>2. ASSUME NEW s \in SUBSET D, s # {}, \A x \in s : s \ {x} \in T
      PROVE  s \in T
  <2>. SUFFICES ASSUME NEW x \in s
                PROVE  Sum(f, s) = f[x] + Sum(f, s \ {x})
    OBVIOUS
  <2>. DEFINE c == Chosen(s)
              r == (s \ {c}) \ {x}
  <2>1. c \in s /\ IsFiniteSet(s)
    BY <1>2, FS_Subset DEF Chosen
  <2>2. Sum(f, s) = f[c] + Sum(f, s \ {c})
    BY <1>2, <2>1, SumUnfolds
  <2>. HIDE DEF c
  <2>3. CASE x = c
    BY <2>2, <2>3
  <2>4. CASE x # c
    <3>1. x \in s \ {c} /\ c \in s \ {x} /\ (s \ {x}) \ {c} = r
      BY <2>1, <2>4
    <3>2. Sum(f, s \ {c}) = f[x] + Sum(f, r)
      BY <1>2, <2>1, <3>1
    <3>3. Sum(f, s \ {x}) = f[c] + Sum(f, (s \ {x}) \ {c})
      BY <1>2, <3>1
    <3>4. IsFiniteSet(r) /\ \A y \in r : f[y] \in Int
      BY <2>1, FS_Subset
    <3>5. Sum(f, r) \in Int
      <4>. HIDE DEF r
      <4>. QED BY <3>4, SumIsNumber
    <3>6. f[c] \in Int /\ f[x] \in Int
      BY <2>1
    <3>7. Sum(f, s \ {x}) = f[c] + Sum(f, r)
      BY <3>1, <3>3
    <3>. HIDE DEF r
    <3>. QED BY <2>2, <3>2, <3>5, <3>6, <3>7
  <2>. QED BY <2>3, <2>4
<1>. HIDE DEF T
<1>3. SUBSET D \subseteq T
  BY <1>1, <1>2, SubsetInduction
<1>. QED BY <1>3 DEF T

\* The terms up to a number, and one more.
LEMMA SumNext ==
    ASSUME NEW f, NEW n \in Nat, \A i \in 1 .. n + 1 : f[i] \in Int
    PROVE  /\ Sum(f, 1 .. 0) = 0
           /\ Sum(f, 1 .. n) \in Int
           /\ Sum(f, 1 .. n + 1) = Sum(f, 1 .. n) + f[n + 1]
<1>1. IsFiniteSet(1 .. n + 1) /\ IsFiniteSet(1 .. n)
  BY FS_Interval
<1>2. (1 .. n + 1) \ {n + 1} = 1 .. n /\ n + 1 \in 1 .. n + 1 /\ 1 .. 0 = {}
  OBVIOUS
<1>3. Sum(f, 1 .. n + 1) = f[n + 1] + Sum(f, 1 .. n)
  BY <1>1, <1>2, SumSplits
<1>4. Sum(f, 1 .. n) \in Int
  BY <1>1, SumIsNumber
<1>5. Sum(f, {}) = 0
  BY SumUnfolds, FS_EmptySet
<1>. QED BY <1>2, <1>3, <1>4, <1>5

\* Equal terms add up to a multiple.
LEMMA SumOfConstant ==
    ASSUME NEW f, NEW n \in Nat, NEW k \in Int, \A i \in 1 .. n : f[i] = k
    PROVE  Sum(f, 1 .. n) = n * k
<1>. DEFINE T == {m \in Nat : m <= n => Sum(f, 1 .. m) = m * k}
<1>1. 0 \in T
  <2>1. Sum(f, {}) = 0 /\ 1 .. 0 = {}
    BY SumUnfolds, FS_EmptySet
  <2>. QED BY <2>1
<1>2. ASSUME NEW m \in T
      PROVE  m + 1 \in T
  <2>. SUFFICES ASSUME m + 1 <= n
                PROVE  Sum(f, 1 .. m + 1) = (m + 1) * k
    OBVIOUS
  <2>1. m \in Nat /\ Sum(f, 1 .. m) = m * k
    OBVIOUS
  <2>. HIDE DEF T
  <2>2. \A i \in 1 .. m + 1 : f[i] \in Int
    BY <2>1
  <2>3. f[m + 1] = k
    BY <2>1
  <2>4. Sum(f, 1 .. m + 1) = Sum(f, 1 .. m) + f[m + 1]
    BY <2>1, <2>2, SumNext
  <2>5. (m + 1) * k = m * k + k /\ m * k \in Int
    BY <2>1
  <2>. QED BY <2>1, <2>3, <2>4, <2>5
<1>3. T = Nat
  <2>1. T \subseteq Nat
    OBVIOUS
  <2>. HIDE DEF T
  <2>. QED BY <1>1, <1>2, <2>1, NumberInduction
<1>. QED BY <1>3

\* A sequence that goes on with another adds up to both.
LEMMA SumOfBoth ==
    ASSUME NEW m \in Nat, NEW n \in Nat, NEW f, NEW g, NEW h,
           \A i \in 1 .. m : f[i] \in Int /\ h[i] = f[i],
           \A i \in 1 .. n : g[i] \in Int /\ h[m + i] = g[i]
    PROVE  Sum(h, 1 .. m + n) = Sum(f, 1 .. m) + Sum(g, 1 .. n)
<1>. DEFINE T == {k \in Nat : k <= n =>
                     Sum(h, 1 .. m + k) = Sum(f, 1 .. m) + Sum(g, 1 .. k)}
<1>1. Sum(f, 1 .. m) \in Int /\ Sum(g, 1 .. 0) = 0
  <2>1. IsFiniteSet(1 .. m)
    BY FS_Interval
  <2>2. Sum(f, 1 .. m) \in Int
    BY <2>1, SumIsNumber
  <2>3. Sum(g, {}) = 0
    BY SumUnfolds, FS_EmptySet
  <2>4. 1 .. 0 = {}
    OBVIOUS
  <2>. QED BY <2>2, <2>3, <2>4
<1>2. 0 \in T
  <2>1. IsFiniteSet(1 .. m) /\ m + 0 = m
    BY FS_Interval
  <2>2. Sum(h, 1 .. m) = Sum(f, 1 .. m)
    BY <2>1, SumOfEqual
  <2>. QED BY <1>1, <2>1, <2>2
<1>3. ASSUME NEW k \in T
      PROVE  k + 1 \in T
  <2>. SUFFICES ASSUME k + 1 <= n
                PROVE  Sum(h, 1 .. m + (k + 1)) = Sum(f, 1 .. m) + Sum(g, 1 .. k + 1)
    OBVIOUS
  <2>1. k \in Nat /\ Sum(h, 1 .. m + k) = Sum(f, 1 .. m) + Sum(g, 1 .. k)
    OBVIOUS
  <2>. HIDE DEF T
  <2>2. \A i \in 1 .. k + 1 : g[i] \in Int
    BY <2>1
  <2>3. ASSUME NEW i \in 1 .. (m + k) + 1
        PROVE  h[i] \in Int
    <3>1. CASE i <= m
      <4>1. i \in 1 .. m
        BY <2>1, <3>1
      <4>. QED BY <4>1
    <3>2. CASE i > m
      <4>1. i - m \in 1 .. n /\ m + (i - m) = i
        BY <2>1, <3>2
      <4>. QED BY <4>1
    <3>. QED BY <2>1, <3>1, <3>2
  <2>4. h[(m + k) + 1] = g[k + 1]
    <3>1. k + 1 \in 1 .. n /\ m + (k + 1) = (m + k) + 1
      BY <2>1
    <3>. QED BY <3>1
  <2>5. Sum(h, 1 .. (m + k) + 1) = Sum(h, 1 .. m + k) + h[(m + k) + 1]
    <3>1. m + k \in Nat
      BY <2>1
    <3>. QED BY <2>3, <3>1, SumNext
  <2>6. Sum(g, 1 .. k + 1) = Sum(g, 1 .. k) + g[k + 1] /\ Sum(g, 1 .. k) \in Int
    BY <2>1, <2>2, SumNext
  <2>7. m + (k + 1) = (m + k) + 1 /\ g[k + 1] \in Int
    BY <2>1, <2>2
  <2>. QED BY <1>1, <2>1, <2>4, <2>5, <2>6, <2>7
<1>4. T = Nat
  <2>1. T \subseteq Nat
    OBVIOUS
  <2>. HIDE DEF T
  <2>. QED BY <1>2, <1>3, <2>1, NumberInduction
<1>. QED BY <1>4

\* The same, with a name for the condition and for the number of all the terms.
Joins(h, f, m, g, n) ==
    /\ \A i \in 1 .. m : f[i] \in Int /\ h[i] = f[i]
    /\ \A i \in 1 .. n : g[i] \in Int /\ h[m + i] = g[i]

\* The same for whole sequences: the sum over two joined is the sum of their sums.
LEMMA SumOfAll ==
    ASSUME NEW m \in Nat, NEW n \in Nat, NEW k \in Nat, k = m + n, NEW f, NEW g, NEW h,
           Joins(h, f, m, g, n)
    PROVE  Sum(h, 1 .. k) = Sum(f, 1 .. m) + Sum(g, 1 .. n)
BY SumOfBoth DEF Joins

\* One term and then the others.
LEMMA SumOneFirst ==
    ASSUME NEW r \in Nat, NEW u \in Int, NEW g, NEW h, h[1] = u,
           \A i \in 1 .. r : g[i] \in Int /\ h[1 + i] = g[i]
    PROVE  Sum(h, 1 .. 1 + r) = u + Sum(g, 1 .. r)
<1>1. ASSUME NEW m \in Nat, m = 1
      PROVE  Sum(h, 1 .. m + r) = u + Sum(g, 1 .. r)
  <2>. DEFINE U == [i \in 1 .. m |-> u]
  <2>1. \A i \in 1 .. m : U[i] = u /\ U[i] \in Int /\ h[i] = U[i]
    BY <1>1
  <2>2. \A i \in 1 .. r : g[i] \in Int /\ h[m + i] = g[i]
    BY <1>1
  <2>. HIDE DEF U
  <2>3. Sum(h, 1 .. m + r) = Sum(U, 1 .. m) + Sum(g, 1 .. r)
    BY <2>1, <2>2, SumOfBoth
  <2>4. Sum(U, 1 .. m) = m * u
    BY <2>1, SumOfConstant
  <2>. QED BY <1>1, <2>3, <2>4
<1>. QED BY <1>1

-----------------------------------------------------------------------------
(* Where subtrees end.                                                     *)

End(s, e, i) ==
    IF s[i].tag = LeafTag THEN i + 1
    ELSE IF i = Len(s) THEN 0
    ELSE IF ~Cuts(s[i]) THEN e[i+1]
    ELSE IF e[i+1] \in 1 .. Len(s) THEN e[e[i+1]]
    ELSE 0

\* The ends of all subtrees, each found from those after it.
LEMMA EndsUnfold ==
    ASSUME NEW s, Len(s) \in Nat
    PROVE  Ends(s) = [i \in 1 .. Len(s) |-> End(s, Ends(s), i)]
<1>. DEFINE n == Len(s)
            Later(e, k) == \A i \in (n - k) + 1 .. n : e[i] \in {0} \cup i + 1 .. n + 1
            Part(e, k) == /\ e = [i \in (n - k) + 1 .. n |-> End(s, e, i)]
                          /\ Later(e, k)
            N == {k \in Nat : k <= n => \E e : Part(e, k)}
<1>1. 0 \in N
  <2>. DEFINE e == [i \in (n - 0) + 1 .. n |-> 0]
  <2>1. (n - 0) + 1 .. n = {}
    OBVIOUS
  <2>2. Part(e, 0)
    BY <2>1
  <2>. QED BY <2>2
<1>2. ASSUME NEW k \in N
      PROVE  k + 1 \in N
  <2>. SUFFICES ASSUME k + 1 <= n
                PROVE  \E e : Part(e, k + 1)
    OBVIOUS
  <2>1. k \in Nat
    OBVIOUS
  <2>2. PICK e : Part(e, k)
    BY <2>1
  <2>. DEFINE j == n - k
              I == (n - k) + 1 .. n
              J == (n - (k + 1)) + 1 .. n
              h == [i \in J |-> IF i = j THEN End(s, e, j) ELSE e[i]]
  <2>. HIDE DEF N
  <2>3. /\ j \in 1 .. n /\ j \in J /\ I = j + 1 .. n /\ J = j .. n
        /\ \A i \in J : i = j \/ i \in I
    BY <2>1
  <2>4. /\ \A i \in I : e[i] = End(s, e, i)
        /\ \A i \in I : e[i] \in {0} \cup i + 1 .. n + 1
    <3>1. e = [i \in I |-> End(s, e, i)] /\ Later(e, k)
      BY <2>2
    <3>2. \A i \in I : e[i] = End(s, e, i)
      <4>. DEFINE b(i) == End(s, e, i)
      <4>1. e = [i \in I |-> b(i)]
        BY <3>1
      <4>. HIDE DEF b, I
      <4>2. \A i \in I : e[i] = b(i)
        BY <4>1
      <4>. QED BY <4>2 DEF b
    <3>. QED BY <3>1, <3>2
  <2>5. /\ \A i \in I : h[i] = e[i]
        /\ h[j] = End(s, e, j)
    <3>. HIDE DEF I, J
    <3>1. \A i \in J : h[i] = IF i = j THEN End(s, e, j) ELSE e[i]
      OBVIOUS
    <3>2. \A i \in I : i \in J /\ i # j
      BY <2>1, <2>3
    <3>. HIDE DEF h
    <3>. QED BY <2>3, <3>1, <3>2
  <2>. HIDE DEF h, Part
  <2>6. ASSUME NEW i \in J
        PROVE  End(s, h, i) = End(s, e, i)
    <3>1. CASE s[i].tag = LeafTag \/ i = n
      BY <3>1 DEF End
    <3>2. CASE s[i].tag # LeafTag /\ i # n
      <4>1. i + 1 \in I
        BY <2>3, <3>2
      <4>2. h[i + 1] = e[i + 1]
        BY <2>5, <4>1
      <4>3. e[i + 1] \in 1 .. n => e[i + 1] \in I
        BY <2>3, <2>4, <4>1
      <4>4. e[i + 1] \in 1 .. n => h[e[i + 1]] = e[e[i + 1]]
        BY <2>5, <4>3
      <4>. QED BY <3>2, <4>2, <4>4 DEF End
    <3>. QED BY <3>1, <3>2
  <2>7. ASSUME NEW i \in J
        PROVE  h[i] = End(s, h, i)
    BY <2>3, <2>4, <2>5, <2>6
  <2>8. End(s, e, j) \in {0} \cup j + 1 .. n + 1
    <3>1. CASE s[j].tag = LeafTag \/ j = n
      BY <2>3, <3>1 DEF End
    <3>2. CASE s[j].tag # LeafTag /\ j # n
      <4>1. j + 1 \in I
        BY <2>3, <3>2
      <4>2. e[j + 1] \in {0} \cup (j + 1) + 1 .. n + 1
        BY <2>4, <4>1
      <4>3. e[j + 1] \in 1 .. n => e[j + 1] \in I /\ e[j + 1] > j
        BY <2>3, <4>1, <4>2
      <4>4. e[j + 1] \in 1 .. n =>
               e[e[j + 1]] \in {0} \cup e[j + 1] + 1 .. n + 1
        BY <2>4, <4>3
      <4>5. e[j + 1] \in 1 .. n => e[e[j + 1]] \in {0} \cup j + 1 .. n + 1
        BY <2>3, <4>3, <4>4
      <4>6. e[j + 1] \in {0} \cup j + 1 .. n + 1
        BY <2>3, <4>2
      <4>. QED BY <3>2, <4>5, <4>6 DEF End
    <3>. QED BY <3>1, <3>2
  <2>9. \A i \in J : h[i] \in {0} \cup i + 1 .. n + 1
    BY <2>3, <2>4, <2>5, <2>8
  <2>10. h = [i \in J |-> End(s, h, i)]
    <3>1. h = [i \in J |-> h[i]]
      BY DEF h
    <3>. QED BY <2>7, <3>1
  <2>. QED BY <2>9, <2>10 DEF Part
<1>3. N = Nat
  <2>1. N \subseteq Nat
    OBVIOUS
  <2>. HIDE DEF N
  <2>. QED BY <1>1, <1>2, <2>1, NumberInduction
<1>4. PICK e : Part(e, n)
  BY <1>3
<1>5. (n - n) + 1 = 1
  OBVIOUS
<1>6. e = [i \in 1 .. n |-> End(s, e, i)]
  BY <1>4, <1>5
<1>7. Ends(s) = CHOOSE f : f = [i \in 1 .. n |-> End(s, f, i)]
  BY DEF Ends, End
<1>8. Ends(s) = [i \in 1 .. n |-> End(s, Ends(s), i)]
  BY <1>6, <1>7, Zenon
<1>. QED BY <1>8

-----------------------------------------------------------------------------
(* Domains.                                                                *)

Domain == [at : [Axes -> Int], size : [Axes -> Int]]
Node == [tag : 0 .. LeafTag, value : Int]

\* A domain lies in itself, and what lies in a part lies in the whole.
LEMMA InsideFacts ==
    ASSUME NEW d \in Domain, NEW e \in Domain, NEW f \in Domain
    PROVE  /\ Inside(d, d)
           /\ Inside(d, e) /\ Inside(e, f) => Inside(d, f)
<1>1. \A a \in Axes : /\ d.at[a] \in Int /\ d.size[a] \in Int
                      /\ e.at[a] \in Int /\ e.size[a] \in Int
                      /\ f.at[a] \in Int /\ f.size[a] \in Int
  BY DEF Domain
<1>. QED BY <1>1 DEF Inside

\* What lies in disjoint domains is disjoint.
LEMMA DisjointInside ==
    ASSUME NEW d \in Domain, NEW e \in Domain, NEW g \in Domain, NEW h \in Domain,
           Disjoint(d, e), Inside(g, d), Inside(h, e)
    PROVE  Disjoint(g, h)
<1>1. PICK a \in Axes : d.at[a] + d.size[a] <= e.at[a] \/ e.at[a] + e.size[a] <= d.at[a]
  BY DEF Disjoint
<1>2. /\ d.at[a] <= g.at[a] /\ g.at[a] + g.size[a] <= d.at[a] + d.size[a]
      /\ e.at[a] <= h.at[a] /\ h.at[a] + h.size[a] <= e.at[a] + e.size[a]
  BY DEF Inside
<1>3. /\ d.at[a] \in Int /\ d.size[a] \in Int /\ e.at[a] \in Int /\ e.size[a] \in Int
      /\ g.at[a] \in Int /\ g.size[a] \in Int /\ h.at[a] \in Int /\ h.size[a] \in Int
  BY DEF Domain
<1>4. g.at[a] + g.size[a] <= h.at[a] \/ h.at[a] + h.size[a] <= g.at[a]
  BY <1>1, <1>2, <1>3
<1>. QED BY <1>4 DEF Disjoint

\* A slice is a domain; it lies in the whole when its bounds do; its volume is its
\* extent by what the volume of the whole is its extent by.
LEMMA SliceFacts ==
    ASSUME NEW d \in Domain, NEW a \in Axes, NEW from \in Int, NEW extent \in Int
    PROVE  LET s == Slice(d, a, from, extent) IN
           /\ s \in Domain
           /\ s.at[a] = d.at[a] + from /\ s.size[a] = extent
           /\ \A b \in Axes \ {a} : s.at[b] = d.at[b] /\ s.size[b] = d.size[b]
           /\ 0 <= from /\ from + extent <= d.size[a] => Inside(s, d)
<1>. DEFINE s == Slice(d, a, from, extent)
<1>1. /\ d.at \in [Axes -> Int] /\ d.size \in [Axes -> Int]
  BY DEF Domain
<1>2. /\ s.at = [d.at EXCEPT ![a] = @ + from] /\ s.size = [d.size EXCEPT ![a] = extent]
      /\ s = [at |-> [d.at EXCEPT ![a] = @ + from], size |-> [d.size EXCEPT ![a] = extent]]
  BY DEF Slice
<1>3. s \in Domain
  BY <1>1, <1>2 DEF Domain
<1>4. /\ s.at[a] = d.at[a] + from /\ s.size[a] = extent
      /\ \A b \in Axes \ {a} : s.at[b] = d.at[b] /\ s.size[b] = d.size[b]
  BY <1>1, <1>2
<1>5. ASSUME 0 <= from, from + extent <= d.size[a]
      PROVE  Inside(s, d)
  <2>. HIDE DEF s
  <2>1. \A b \in Axes : d.at[b] \in Int /\ d.size[b] \in Int
    BY <1>1
  <2>. QED BY <1>4, <1>5, <2>1 DEF Inside
<1>. QED BY <1>3, <1>4, <1>5

\* The face of a domain across an axis.
Face(d, a) ==
    CASE a = 0 -> d.size[1] * d.size[2] * d.size[3]
      [] a = 1 -> d.size[0] * d.size[2] * d.size[3]
      [] a = 2 -> d.size[0] * d.size[1] * d.size[3]
      [] OTHER -> d.size[0] * d.size[1] * d.size[2]

\* A product of four is one factor by the product of the others.
LEMMA FactorOut ==
    ASSUME NEW w \in Int, NEW x \in Int, NEW y \in Int, NEW z \in Int
    PROVE  /\ w * x * y * z = w * (x * y * z) /\ w * x * y * z = x * (w * y * z)
           /\ w * x * y * z = y * (w * x * z) /\ w * x * y * z = z * (w * x * y)
           /\ x * y * z \in Int /\ w * y * z \in Int /\ w * x * z \in Int /\ w * x * y \in Int
OBVIOUS

\* A slice's volume is its extent by the face it shares with the whole.
LEMMA SliceVolume ==
    ASSUME NEW d \in Domain, NEW a \in Axes, NEW from \in Int, NEW extent \in Int
    PROVE  /\ Face(d, a) \in Int
           /\ Volume(d) = d.size[a] * Face(d, a)
           /\ Volume(Slice(d, a, from, extent)) = extent * Face(d, a)
<1>. DEFINE s == Slice(d, a, from, extent)
<1>1. /\ s \in Domain /\ s.size[a] = extent
      /\ \A b \in Axes \ {a} : s.size[b] = d.size[b]
  BY SliceFacts
<1>2. \A f \in Domain : /\ f.size[0] \in Int /\ f.size[1] \in Int
                        /\ f.size[2] \in Int /\ f.size[3] \in Int
  BY DEF Domain, Axes
<1>3. ASSUME NEW f \in Domain
      PROVE  Face(f, a) \in Int /\ Volume(f) = f.size[a] * Face(f, a)
  <2>1. /\ f.size[0] \in Int /\ f.size[1] \in Int
        /\ f.size[2] \in Int /\ f.size[3] \in Int
    BY <1>2
  <2>2. /\ Volume(f) = f.size[0] * (f.size[1] * f.size[2] * f.size[3])
        /\ Volume(f) = f.size[1] * (f.size[0] * f.size[2] * f.size[3])
        /\ Volume(f) = f.size[2] * (f.size[0] * f.size[1] * f.size[3])
        /\ Volume(f) = f.size[3] * (f.size[0] * f.size[1] * f.size[2])
        /\ f.size[1] * f.size[2] * f.size[3] \in Int
        /\ f.size[0] * f.size[2] * f.size[3] \in Int
        /\ f.size[0] * f.size[1] * f.size[3] \in Int
        /\ f.size[0] * f.size[1] * f.size[2] \in Int
    BY <2>1, FactorOut DEF Volume
  <2>3. a = 0 \/ a = 1 \/ a = 2 \/ a = 3
    BY DEF Axes
  <2>. QED BY <2>2, <2>3 DEF Face
<1>. HIDE DEF s
<1>4. Face(s, a) = Face(d, a)
  <2>1. CASE a = 0
    BY <1>1, <2>1 DEF Face, Axes
  <2>2. CASE a = 1
    BY <1>1, <2>2 DEF Face, Axes
  <2>3. CASE a = 2
    BY <1>1, <2>3 DEF Face, Axes
  <2>4. CASE a = 3
    BY <1>1, <2>4 DEF Face, Axes
  <2>. QED BY <2>1, <2>2, <2>3, <2>4 DEF Axes
<1>. QED BY <1>1, <1>3, <1>4 DEF s

-----------------------------------------------------------------------------
(* Partitions.                                                             *)

Volumes(P, n) == [i \in 1 .. n |-> Volume(P[i])]

\* The first n of P divide d.
Partition(P, n, d) ==
    /\ \A i, j \in 1 .. n : i # j => Disjoint(P[i], P[j])
    /\ \A i \in 1 .. n : Inside(P[i], d)
    /\ Sum(Volumes(P, n), 1 .. n) = Volume(d)

\* Volumes are numbers.
LEMMA VolumeIsInt ==
    ASSUME NEW d \in Domain
    PROVE  Volume(d) \in Int
<1>1. /\ d.size[0] \in Int /\ d.size[1] \in Int /\ d.size[2] \in Int /\ d.size[3] \in Int
  BY DEF Domain, Axes
<1>. QED BY <1>1 DEF Volume

\* A part of a partition gives way to a partition of its own.
LEMMA PartitionReplaced ==
    ASSUME NEW d \in Domain, NEW l \in Nat, NEW w \in Nat, NEW r \in Nat,
           NEW P, NEW W, NEW Q,
           \A i \in 1 .. l + (1 + r) : P[i] \in Domain,
           \A i \in 1 .. w : W[i] \in Domain,
           Partition(P, l + (1 + r), d), Partition(W, w, P[l + 1]),
           \A i \in 1 .. l : Q[i] = P[i],
           \A i \in 1 .. w : Q[l + i] = W[i],
           \A i \in 1 .. r : Q[l + (w + i)] = P[l + (1 + i)]
    PROVE  Partition(Q, l + (w + r), d)
<1>. DEFINE n == l + (1 + r)
            m == l + (w + r)
            From(i) == IF i <= l THEN i ELSE IF i <= l + w THEN l + 1 ELSE (i - w) + 1
<1>1. ASSUME NEW i \in 1 .. m
      PROVE  /\ From(i) \in 1 .. n /\ Q[i] \in Domain
             /\ Inside(Q[i], P[From(i)])
             /\ From(i) = l + 1 <=> i \in l + 1 .. l + w
             /\ From(i) # l + 1 => Q[i] = P[From(i)]
             /\ From(i) = l + 1 => i - l \in 1 .. w /\ Q[i] = W[i - l]
  <2>1. CASE i <= l
    <3>1. i \in 1 .. l /\ i \in 1 .. n
      BY <2>1
    <3>2. Inside(P[i], P[i])
      BY <3>1, InsideFacts
    <3>. QED BY <2>1, <3>1, <3>2
  <2>2. CASE l < i /\ i <= l + w
    <3>1. i - l \in 1 .. w /\ l + (i - l) = i /\ l + 1 \in 1 .. n
      BY <2>2
    <3>2. Q[i] = W[i - l]
      BY <3>1
    <3>3. Inside(W[i - l], P[l + 1])
      BY <3>1 DEF Partition
    <3>. QED BY <2>2, <3>1, <3>2, <3>3
  <2>3. CASE i > l + w
    <3>. DEFINE k == i - (l + w)
    <3>1. k \in 1 .. r /\ l + (w + k) = i /\ l + (1 + k) = (i - w) + 1 /\ l + (1 + k) \in 1 .. n
      BY <2>3
    <3>2. Q[i] = P[(i - w) + 1]
      BY <3>1
    <3>3. Inside(P[(i - w) + 1], P[(i - w) + 1])
      BY <3>1, InsideFacts
    <3>. QED BY <2>3, <3>1, <3>2, <3>3
  <2>. QED BY <2>1, <2>2, <2>3
<1>2. ASSUME NEW i \in 1 .. m, NEW j \in 1 .. m, i # j
      PROVE  Disjoint(Q[i], Q[j])
  <2>1. CASE From(i) = From(j)
    <3>1. i - l \in 1 .. w /\ j - l \in 1 .. w /\ Q[i] = W[i - l] /\ Q[j] = W[j - l]
      <4>1. From(i) = l + 1
        <5>. SUFFICES ASSUME From(i) # l + 1 PROVE FALSE
          OBVIOUS
        <5>1. i \in Nat /\ j \in Nat /\ i \notin l + 1 .. l + w /\ j \notin l + 1 .. l + w
          BY <1>1, <2>1
        <5>. QED BY <2>1, <5>1, <1>2
      <4>. HIDE DEF From
      <4>. QED BY <1>1, <2>1, <4>1
    <3>2. i - l # j - l
      BY <1>2
    <3>3. Disjoint(W[i - l], W[j - l])
      BY <3>1, <3>2 DEF Partition
    <3>. QED BY <3>1, <3>3
  <2>2. CASE From(i) # From(j)
    <3>. HIDE DEF From
    <3>1. Disjoint(P[From(i)], P[From(j)])
      BY <1>1, <2>2 DEF Partition
    <3>2. P[From(i)] \in Domain /\ P[From(j)] \in Domain
      BY <1>1
    <3>. QED BY <1>1, <3>1, <3>2, DisjointInside
  <2>. QED BY <2>1, <2>2
<1>3. ASSUME NEW i \in 1 .. m
      PROVE  Inside(Q[i], d)
  <2>. HIDE DEF From
  <2>1. P[From(i)] \in Domain /\ Inside(P[From(i)], d)
    BY <1>1 DEF Partition
  <2>. QED BY <1>1, <2>1, InsideFacts
<1>4. Sum(Volumes(Q, m), 1 .. m) = Volume(d)
  <2>. DEFINE A == [i \in 1 .. l |-> Volume(P[i])]
              B == [i \in 1 .. r |-> Volume(P[l + (1 + i)])]
              C == [i \in 1 .. 1 + r |-> Volume(P[l + i])]
              D == [i \in 1 .. w + r |-> Volume(Q[l + i])]
              U == [i \in 1 .. 1 |-> Volume(P[l + 1])]
  <2>1. /\ \A i \in 1 .. l : A[i] = Volume(P[i]) /\ A[i] \in Int
        /\ \A i \in 1 .. r : B[i] = Volume(P[l + (1 + i)]) /\ B[i] \in Int
        /\ \A i \in 1 .. 1 + r : C[i] = Volume(P[l + i]) /\ C[i] \in Int
        /\ \A i \in 1 .. w + r : D[i] = Volume(Q[l + i]) /\ D[i] \in Int
        /\ \A i \in 1 .. 1 : U[i] = Volume(P[l + 1]) /\ U[i] \in Int
        /\ \A i \in 1 .. w : Volumes(W, w)[i] = Volume(W[i]) /\ Volumes(W, w)[i] \in Int
        /\ \A i \in 1 .. n : Volumes(P, n)[i] = Volume(P[i]) /\ Volumes(P, n)[i] \in Int
        /\ \A i \in 1 .. m : Volumes(Q, m)[i] = Volume(Q[i]) /\ Volumes(Q, m)[i] \in Int
    <3>1. \A i \in 1 .. n : Volume(P[i]) \in Int
      BY VolumeIsInt
    <3>2. \A i \in 1 .. w : Volume(W[i]) \in Int
      BY VolumeIsInt
    <3>3. \A i \in 1 .. m : Volume(Q[i]) \in Int
      BY <1>1, VolumeIsInt
    <3>4. /\ \A i \in 1 .. l : i \in 1 .. n
          /\ \A i \in 1 .. r : l + (1 + i) \in 1 .. n
          /\ \A i \in 1 .. 1 + r : l + i \in 1 .. n
          /\ \A i \in 1 .. w + r : l + i \in 1 .. m
          /\ l + 1 \in 1 .. n
      OBVIOUS
    <3>. HIDE DEF n, m
    <3>. QED BY <3>1, <3>2, <3>3, <3>4 DEF Volumes
  <2>2. /\ \A i \in 1 .. 1 : U[i] \in Int /\ C[i] = U[i]
        /\ \A i \in 1 .. r : B[i] \in Int /\ C[1 + i] = B[i]
    <3>1. \A i \in 1 .. r : 1 + i \in 1 .. 1 + r
      OBVIOUS
    <3>2. \A i \in 1 .. 1 : i = 1 /\ i \in 1 .. 1 + r
      OBVIOUS
    <3>. HIDE DEF A, B, C, D, U
    <3>. QED BY <2>1, <3>1, <3>2
  <2>3. /\ \A i \in 1 .. l : A[i] \in Int /\ Volumes(P, n)[i] = A[i]
        /\ \A i \in 1 .. 1 + r : C[i] \in Int /\ Volumes(P, n)[l + i] = C[i]
    <3>1. /\ \A i \in 1 .. l : i \in 1 .. n
          /\ \A i \in 1 .. 1 + r : l + i \in 1 .. n
      OBVIOUS
    <3>. HIDE DEF A, B, C, D, U, n, m
    <3>. QED BY <2>1, <3>1
  <2>4. /\ \A i \in 1 .. w : Volumes(W, w)[i] \in Int /\ D[i] = Volumes(W, w)[i]
        /\ \A i \in 1 .. r : B[i] \in Int /\ D[w + i] = B[i]
    <3>1. /\ \A i \in 1 .. w : i \in 1 .. w + r
          /\ \A i \in 1 .. r : w + i \in 1 .. w + r
      OBVIOUS
    <3>. HIDE DEF A, B, C, D, U, n, m
    <3>2. ASSUME NEW i \in 1 .. w
          PROVE  Volumes(W, w)[i] \in Int /\ D[i] = Volumes(W, w)[i]
      <4>1. D[i] = Volume(Q[l + i]) /\ Q[l + i] = W[i]
        BY <2>1, <3>1
      <4>. QED BY <2>1, <4>1
    <3>3. ASSUME NEW i \in 1 .. r
          PROVE  B[i] \in Int /\ D[w + i] = B[i]
      <4>1. D[w + i] = Volume(Q[l + (w + i)]) /\ Q[l + (w + i)] = P[l + (1 + i)]
        BY <2>1, <3>1
      <4>. QED BY <2>1, <4>1
    <3>. QED BY <3>2, <3>3
  <2>5. /\ \A i \in 1 .. l : A[i] \in Int /\ Volumes(Q, m)[i] = A[i]
        /\ \A i \in 1 .. w + r : D[i] \in Int /\ Volumes(Q, m)[l + i] = D[i]
    <3>1. /\ \A i \in 1 .. l : i \in 1 .. m
          /\ \A i \in 1 .. w + r : l + i \in 1 .. m
      OBVIOUS
    <3>. HIDE DEF A, B, C, D, U, n, m
    <3>. QED BY <2>1, <3>1, ZenonT(30)
  <2>. HIDE DEF A, B, C, D, U
  <2>6. Sum(C, 1 .. 1 + r) = Volume(P[l + 1]) + Sum(B, 1 .. r)
    <3>1. C[1] = Volume(P[l + 1]) /\ Volume(P[l + 1]) \in Int
      <4>1. 1 \in 1 .. 1
        OBVIOUS
      <4>2. C[1] = U[1] /\ U[1] = Volume(P[l + 1]) /\ U[1] \in Int
        BY <2>1, <2>2, <4>1
      <4>. QED BY <4>2
    <3>2. \A i \in 1 .. r : B[i] \in Int /\ C[1 + i] = B[i]
      BY <2>2
    <3>. HIDE DEF n, m, From
    <3>. QED BY <3>1, <3>2, SumOneFirst
  <2>7. Sum(Volumes(P, n), 1 .. n) = Sum(A, 1 .. l) + Sum(C, 1 .. 1 + r)
    <3>1. Joins(Volumes(P, n), A, l, C, 1 + r)
      BY <2>3 DEF Joins
    <3>2. 1 + r \in Nat /\ n \in Nat /\ n = l + (1 + r)
      OBVIOUS
    <3>. HIDE DEF n
    <3>. QED BY <3>1, <3>2, SumOfAll
  <2>8. Sum(D, 1 .. w + r) = Sum(Volumes(W, w), 1 .. w) + Sum(B, 1 .. r)
    <3>1. Joins(D, Volumes(W, w), w, B, r)
      BY <2>4 DEF Joins
    <3>2. w + r \in Nat
      OBVIOUS
    <3>. QED BY <3>1, <3>2, SumOfAll
  <2>9. Sum(Volumes(Q, m), 1 .. m) = Sum(A, 1 .. l) + Sum(D, 1 .. w + r)
    <3>1. Joins(Volumes(Q, m), A, l, D, w + r)
      BY <2>5 DEF Joins
    <3>2. w + r \in Nat /\ m \in Nat /\ m = l + (w + r)
      OBVIOUS
    <3>. HIDE DEF m
    <3>. QED BY <3>1, <3>2, SumOfAll
  <2>10. Volume(P[l + 1]) \in Int
    <3>1. l + 1 \in 1 .. n
      OBVIOUS
    <3>. QED BY <3>1, VolumeIsInt
  <2>11. /\ Sum(Volumes(P, n), 1 .. n) = Volume(d)
         /\ Sum(Volumes(W, w), 1 .. w) = Volume(P[l + 1])
    BY DEF Partition
  <2>12. Sum(A, 1 .. l) \in Int /\ Sum(B, 1 .. r) \in Int
    <3>1. IsFiniteSet(1 .. l) /\ IsFiniteSet(1 .. r)
      BY FS_Interval
    <3>2. (\A i \in 1 .. l : A[i] \in Int) /\ (\A i \in 1 .. r : B[i] \in Int)
      BY <2>1
    <3>. QED BY <3>1, <3>2, SumIsNumber
  <2>. HIDE DEF n, m
  <2>. QED BY <2>6, <2>7, <2>8, <2>9, <2>10, <2>11, <2>12
<1>. QED BY <1>2, <1>3, <1>4 DEF Partition

\* Two terms.
LEMMA SumOfTwo ==
    ASSUME NEW h, h[1] \in Int, h[2] \in Int
    PROVE  Sum(h, 1 .. 2) = h[1] + h[2]
<1>1. ASSUME NEW r \in Nat, r = 1
      PROVE  Sum(h, 1 .. 2) = h[1] + h[2]
  <2>. DEFINE G == [i \in 1 .. r |-> h[2]]
  <2>1. \A i \in 1 .. r : G[i] = h[2] /\ G[i] \in Int /\ h[1 + i] = G[i]
    BY <1>1
  <2>. HIDE DEF G
  <2>2. Sum(h, 1 .. 1 + r) = h[1] + Sum(G, 1 .. r)
    BY <2>1, SumOneFirst
  <2>3. Sum(G, 1 .. r) = r * h[2]
    BY <2>1, SumOfConstant
  <2>4. 1 + r = 2 /\ r * h[2] = h[2]
    BY <1>1
  <2>. QED BY <2>2, <2>3, <2>4
<1>. QED BY <1>1

\* A cut divides a domain in two.
LEMMA CutParts ==
    ASSUME NEW d \in Domain, NEW a \in Axes, NEW v \in Int, 0 < v, v < d.size[a],
           NEW P, P[1] = Slice(d, a, 0, v), P[2] = Slice(d, a, v, d.size[a] - v)
    PROVE  (\A i \in 1 .. 2 : P[i] \in Domain) /\ Partition(P, 2, d)
<1>1. d.size[a] \in Int /\ d.at[a] \in Int /\ d.size[a] - v \in Int /\ 0 \in Int
  BY DEF Domain
<1>2. /\ P[1] \in Domain /\ Inside(P[1], d)
      /\ P[1].at[a] = d.at[a] + 0 /\ P[1].size[a] = v
  BY <1>1, SliceFacts
<1>3. /\ P[2] \in Domain /\ Inside(P[2], d)
      /\ P[2].at[a] = d.at[a] + v /\ P[2].size[a] = d.size[a] - v
  <2>. DEFINE rest == d.size[a] - v
  <2>1. rest \in Int /\ v + rest = d.size[a] /\ 0 <= v /\ P[2] = Slice(d, a, v, rest)
    BY <1>1
  <2>. HIDE DEF rest
  <2>2. /\ P[2] \in Domain /\ Inside(P[2], d)
        /\ P[2].at[a] = d.at[a] + v /\ P[2].size[a] = rest
    BY <1>1, <2>1, SliceFacts
  <2>. QED BY <2>2 DEF rest
<1>4. Disjoint(P[1], P[2]) /\ Disjoint(P[2], P[1])
  <2>1. P[1].at[a] + P[1].size[a] <= P[2].at[a]
    BY <1>1, <1>2, <1>3
  <2>. QED BY <2>1 DEF Disjoint
<1>5. Sum(Volumes(P, 2), 1 .. 2) = Volume(d)
  <2>1. /\ Face(d, a) \in Int /\ Volume(d) = d.size[a] * Face(d, a)
        /\ Volume(P[1]) = v * Face(d, a)
    BY <1>1, SliceVolume
  <2>2. Volume(P[2]) = (d.size[a] - v) * Face(d, a)
    <3>. DEFINE rest == d.size[a] - v
    <3>1. rest \in Int /\ P[2] = Slice(d, a, v, rest)
      BY <1>1
    <3>. HIDE DEF rest
    <3>2. Volume(P[2]) = rest * Face(d, a)
      BY <3>1, SliceVolume
    <3>. QED BY <3>2 DEF rest
  <2>3. Volumes(P, 2)[1] = Volume(P[1]) /\ Volumes(P, 2)[2] = Volume(P[2])
    BY DEF Volumes
  <2>4. Sum(Volumes(P, 2), 1 .. 2) = Volume(P[1]) + Volume(P[2])
    <3>1. Volume(P[1]) \in Int /\ Volume(P[2]) \in Int
      BY <1>2, <1>3, VolumeIsInt
    <3>. QED BY <2>3, <3>1, SumOfTwo
  <2>5. \A c, x, y \in Int : x * c + (y - x) * c = y * c
    OBVIOUS
  <2>6. v * Face(d, a) + (d.size[a] - v) * Face(d, a) = d.size[a] * Face(d, a)
    BY <1>1, <2>1, <2>5
  <2>. QED BY <2>1, <2>2, <2>4, <2>6
<1>6. \A i \in 1 .. 2 : i = 1 \/ i = 2
  OBVIOUS
<1>. QED BY <1>2, <1>3, <1>4, <1>5, <1>6 DEF Partition

\* A repeat divides a domain in equal parts.
LEMMA RepeatParts ==
    ASSUME NEW d \in Domain, NEW a \in Axes, NEW v \in Nat, NEW part \in Nat,
           d.size[a] = v * part, NEW P,
           \A r \in 1 .. v : P[r] = Slice(d, a, (r - 1) * part, part)
    PROVE  (\A i \in 1 .. v : P[i] \in Domain) /\ Partition(P, v, d)
<1>1. d.size[a] \in Int /\ d.at[a] \in Int
  BY DEF Domain
<1>2. ASSUME NEW r \in 1 .. v
      PROVE  /\ P[r] \in Domain /\ Inside(P[r], d)
             /\ P[r].at[a] = d.at[a] + (r - 1) * part /\ P[r].size[a] = part
             /\ Volume(P[r]) = part * Face(d, a)
  <2>. DEFINE from == (r - 1) * part
  <2>1. from \in Int /\ 0 <= from /\ from + part <= d.size[a]
    <3>1. \A x, y, z \in Nat : x <= y => x * z <= y * z
      OBVIOUS
    <3>2. from \in Nat /\ from + part = r * part /\ r \in Nat /\ r <= v
      OBVIOUS
    <3>3. r * part <= v * part
      BY <3>1, <3>2
    <3>. QED BY <3>2, <3>3
  <2>2. P[r] = Slice(d, a, from, part)
    OBVIOUS
  <2>. HIDE DEF from
  <2>3. /\ P[r] \in Domain /\ Inside(P[r], d)
        /\ P[r].at[a] = d.at[a] + from /\ P[r].size[a] = part
    BY <2>1, <2>2, SliceFacts
  <2>4. Volume(P[r]) = part * Face(d, a)
    <3>1. part \in Int
      OBVIOUS
    <3>2. Volume(Slice(d, a, from, part)) = part * Face(d, a)
      BY <2>1, <3>1, SliceVolume
    <3>. QED BY <2>2, <3>2
  <2>. QED BY <2>3, <2>4 DEF from
<1>3. ASSUME NEW i \in 1 .. v, NEW j \in 1 .. v, i < j
      PROVE  Disjoint(P[i], P[j]) /\ Disjoint(P[j], P[i])
  <2>1. (i - 1) * part + part <= (j - 1) * part
    <3>1. \A x, y, z \in Nat : x <= y => x * z <= y * z
      OBVIOUS
    <3>2. i \in Nat /\ j - 1 \in Nat /\ i <= j - 1 /\ (i - 1) * part + part = i * part
      BY <1>3
    <3>3. i * part <= (j - 1) * part
      BY <3>1, <3>2
    <3>. QED BY <3>2, <3>3
  <2>2. /\ P[i].at[a] = d.at[a] + (i - 1) * part /\ P[i].size[a] = part
        /\ P[j].at[a] = d.at[a] + (j - 1) * part
    BY <1>2
  <2>3. (i - 1) * part \in Int /\ (j - 1) * part \in Int
    OBVIOUS
  <2>4. P[i].at[a] + P[i].size[a] <= P[j].at[a]
    BY <1>1, <2>1, <2>2, <2>3
  <2>. QED BY <2>4 DEF Disjoint
<1>4. ASSUME NEW i \in 1 .. v, NEW j \in 1 .. v, i # j
      PROVE  Disjoint(P[i], P[j])
  <2>1. i < j \/ j < i
    BY <1>4
  <2>. QED BY <1>3, <2>1
<1>5. Sum(Volumes(P, v), 1 .. v) = Volume(d)
  <2>1. Face(d, a) \in Int /\ Volume(d) = d.size[a] * Face(d, a)
    BY <1>1, SliceVolume
  <2>. DEFINE c == part * Face(d, a)
  <2>2. c \in Int
    BY <2>1
  <2>3. \A i \in 1 .. v : Volumes(P, v)[i] = c
    BY <1>2 DEF Volumes
  <2>. HIDE DEF c
  <2>4. Sum(Volumes(P, v), 1 .. v) = v * c
    BY <2>2, <2>3, SumOfConstant
  <2>5. v * c = (v * part) * Face(d, a)
    <3>1. \A x, y, z \in Int : x * (y * z) = (x * y) * z
      OBVIOUS
    <3>. QED BY <2>1, <3>1 DEF c
  <2>. QED BY <2>1, <2>4, <2>5
<1>. QED BY <1>2, <1>4, <1>5 DEF Partition

\* What a node divides it divides into parts, one at least.
LEMMA PartsFacts ==
    ASSUME NEW d \in Domain, NEW node \in Node, Divides(d, node)
    PROVE  /\ Parts(d, node) \in Seq(Domain) /\ Len(Parts(d, node)) >= 1
           /\ Cuts(node) => Len(Parts(d, node)) = 2
           /\ Partition(Parts(d, node), Len(Parts(d, node)), d)
<1>. DEFINE a == AxisOf(node)
            v == node.value
<1>1. a \in Axes /\ v \in Int
  <2>1. node.tag \in 0 .. 8 /\ v \in Int
    BY DEF Node, LeafTag
  <2>2. \A x \in 0 .. 8 : x % 4 \in 0 .. 3
    OBVIOUS
  <2>. QED BY <2>1, <2>2 DEF AxisOf, Axes
<1>2. d.size[a] \in Int
  BY <1>1 DEF Domain
<1>3. CASE Cuts(node)
  <2>1. 0 < v /\ v < d.size[a]
    BY <1>1, <1>2, <1>3 DEF Divides
  <2>. DEFINE Q == << Slice(d, a, 0, v), Slice(d, a, v, d.size[a] - v) >>
  <2>2. Q = Parts(d, node)
    BY <1>3 DEF Parts
  <2>3. Q[1] = Slice(d, a, 0, v) /\ Q[2] = Slice(d, a, v, d.size[a] - v) /\ Len(Q) = 2
    OBVIOUS
  <2>4. Q \in Seq({Q[1], Q[2]})
    OBVIOUS
  <2>. HIDE DEF a, v, Q
  <2>5. (\A i \in 1 .. 2 : Q[i] \in Domain) /\ Partition(Q, 2, d)
    BY <1>1, <2>1, <2>3, CutParts
  <2>6. Q \in Seq(Domain)
    <3>1. Q[1] \in Domain /\ Q[2] \in Domain
      BY <2>5
    <3>. QED BY <2>4, <3>1
  <2>. QED BY <2>2, <2>3, <2>5, <2>6
<1>4. CASE ~ Cuts(node)
  <2>. DEFINE part == d.size[a] \div v
              Q == [r \in 1 .. v |-> Slice(d, a, (r - 1) * part, part)]
  <2>1. v >= 2 /\ d.size[a] % v = 0 /\ d.size[a] \div v > 0
    BY <1>4 DEF Divides
  <2>2. part \in Nat /\ d.size[a] = v * part /\ v \in Nat
    <3>1. v \in Nat \ {0}
      BY <1>1, <2>1
    <3>2. \A x \in Int, y \in Nat \ {0} : x = y * (x \div y) + (x % y) /\ x \div y \in Int
      OBVIOUS
    <3>3. d.size[a] = v * part + (d.size[a] % v) /\ part \in Int
      BY <1>2, <3>1, <3>2
    <3>. HIDE DEF a, v
    <3>4. v * part \in Int
      BY <3>1, <3>3
    <3>. HIDE DEF part
    <3>. QED BY <2>1, <3>1, <3>3, <3>4 DEF part
  <2>3. Q = Parts(d, node)
    BY <1>4 DEF Parts
  <2>. HIDE DEF a, v, part
  <2>4. \A r \in 1 .. v : Q[r] = Slice(d, a, (r - 1) * part, part)
    OBVIOUS
  <2>5. DOMAIN Q = 1 .. v /\ Q = [r \in 1 .. v |-> Q[r]]
    OBVIOUS
  <2>. HIDE DEF Q
  <2>6. (\A i \in 1 .. v : Q[i] \in Domain) /\ Partition(Q, v, d)
    BY <1>1, <2>2, <2>4, RepeatParts
  <2>7. Q \in Seq(Domain) /\ Len(Q) = v
    <3>1. Q \in [1 .. v -> Domain]
      BY <2>5, <2>6
    <3>. QED BY <2>2, <3>1
  <2>8. v >= 1
    BY <2>1, <2>2 DEF v
  <2>. QED BY <1>4, <2>3, <2>6, <2>7, <2>8
<1>. QED BY <1>3, <1>4

-----------------------------------------------------------------------------
(* Jobs.                                                                   *)

Job(n) == [d : Domain, node : 1 .. n]

\* In a whole tree a node that is not a leaf has one after it, and a cut a second
\* subtree after its first.
LEMMA WholeTreeFacts ==
    ASSUME NEW s \in Seq(Node), WholeTree(s), NEW i \in 1 .. Len(s)
    PROVE  /\ Ends(s)[i] = End(s, Ends(s), i) /\ Ends(s)[i] # 0
           /\ s[i].tag = LeafTag => Ends(s)[i] = i + 1
           /\ s[i].tag # LeafTag => i + 1 \in 1 .. Len(s)
           /\ s[i].tag # LeafTag /\ ~ Cuts(s[i]) => Ends(s)[i] = Ends(s)[i + 1]
           /\ s[i].tag # LeafTag /\ Cuts(s[i]) =>
                 Ends(s)[i + 1] \in 1 .. Len(s) /\ Ends(s)[i] = Ends(s)[Ends(s)[i + 1]]
<1>1. Len(s) \in Nat /\ DOMAIN s = 1 .. Len(s)
  OBVIOUS
<1>. DEFINE e == Ends(s)
<1>2. Ends(s) = [k \in 1 .. Len(s) |-> End(s, Ends(s), k)]
  BY <1>1, EndsUnfold
<1>3. e[i] # 0
  BY <1>1 DEF WholeTree
<1>4. e[i] = End(s, e, i)
  <2>. DEFINE b(k) == End(s, Ends(s), k)
  <2>1. e = [k \in 1 .. Len(s) |-> b(k)]
    BY <1>2
  <2>. HIDE DEF b, e
  <2>2. e[i] = b(i)
    BY <2>1
  <2>. QED BY <2>2 DEF b, e
<1>. HIDE DEF e
<1>5. s[i].tag = LeafTag => e[i] = i + 1
  BY <1>4 DEF End
<1>6. CASE s[i].tag = LeafTag
  BY <1>3, <1>4, <1>5, <1>6 DEF e
<1>7. CASE s[i].tag # LeafTag
  <2>1. i # Len(s)
    BY <1>3, <1>4, <1>7 DEF End
  <2>2. i + 1 \in 1 .. Len(s)
    <3>1. Len(s) \in Nat /\ i \in Nat /\ 1 <= i /\ i <= Len(s)
      BY <1>1
    <3>. QED BY <2>1, <3>1
  <2>3. ~ Cuts(s[i]) => e[i] = e[i + 1]
    BY <1>4, <1>7, <2>1 DEF End
  <2>4. Cuts(s[i]) => e[i + 1] \in 1 .. Len(s) /\ e[i] = e[e[i + 1]]
    BY <1>3, <1>4, <1>7, <2>1 DEF End
  <2>. QED BY <1>3, <1>4, <1>7, <2>2, <2>3, <2>4 DEF e
<1>. QED BY <1>6, <1>7

\* The jobs of a node that divides: one per part, each at a node of the tree.
LEMMA JobsFacts ==
    ASSUME NEW s \in Seq(Node), WholeTree(s), NEW i \in 1 .. Len(s), s[i].tag # LeafTag,
           NEW d \in Domain, Divides(d, s[i])
    PROVE  /\ Jobs(d, i, s) \in Seq(Job(Len(s)))
           /\ Len(Jobs(d, i, s)) = Len(Parts(d, s[i]))
           /\ \A r \in 1 .. Len(Parts(d, s[i])) : Jobs(d, i, s)[r].d = Parts(d, s[i])[r]
<1>. DEFINE P == Parts(d, s[i])
            Where(r) == IF Cuts(s[i]) /\ r = 2 THEN Ends(s)[i + 1] ELSE i + 1
            J == [r \in DOMAIN P |-> [d |-> P[r], node |-> Where(r)]]
<1>1. s[i] \in Node
  OBVIOUS
<1>2. P \in Seq(Domain)
  BY <1>1, PartsFacts
<1>3. J = Jobs(d, i, s)
  BY DEF Jobs
<1>4. \A r \in DOMAIN P : Where(r) \in 1 .. Len(s)
  BY WholeTreeFacts
<1>. HIDE DEF P, Where
<1>5. DOMAIN P = 1 .. Len(P) /\ Len(P) \in Nat /\ \A r \in 1 .. Len(P) : P[r] \in Domain
  BY <1>2
<1>6. \A r \in 1 .. Len(P) : J[r] = [d |-> P[r], node |-> Where(r)] /\ J[r] \in Job(Len(s))
  BY <1>4, <1>5 DEF Job
<1>7. J \in [1 .. Len(P) -> Job(Len(s))]
  <2>1. J = [r \in 1 .. Len(P) |-> J[r]]
    BY <1>5
  <2>. HIDE DEF J
  <2>. QED BY <1>6, <2>1
<1>8. \A r \in 1 .. Len(P) : J[r].d = P[r]
  BY <1>6
<1>. HIDE DEF J
<1>9. J \in Seq(Job(Len(s))) /\ Len(J) = Len(P)
  BY <1>5, <1>7
<1>. QED BY <1>3, <1>8, <1>9 DEF P

Pending(st) == [i \in DOMAIN st |-> st[i].d]

\* Where the parcels of a list and a stack are.
LEMMA ParcelsFacts ==
    ASSUME NEW n \in Nat, NEW list \in Seq(Domain), NEW st \in Seq(Job(n))
    PROVE  /\ list \o Pending(st) \in Seq(Domain)
           /\ Len(list \o Pending(st)) = Len(list) + Len(st)
           /\ \A i \in 1 .. Len(list) : (list \o Pending(st))[i] = list[i]
           /\ \A i \in 1 .. Len(st) : (list \o Pending(st))[Len(list) + i] = st[i].d
<1>1. DOMAIN st = 1 .. Len(st) /\ Len(st) \in Nat /\ \A i \in 1 .. Len(st) : st[i] \in Job(n)
  OBVIOUS
<1>2. \A i \in 1 .. Len(st) : Pending(st)[i] = st[i].d /\ st[i].d \in Domain
  BY <1>1 DEF Pending, Job
<1>3. Pending(st) = [i \in 1 .. Len(st) |-> Pending(st)[i]]
  BY <1>1 DEF Pending
<1>4. Pending(st) \in [1 .. Len(st) -> Domain]
  BY <1>2, <1>3
<1>5. Pending(st) \in Seq(Domain) /\ Len(Pending(st)) = Len(st)
  BY <1>1, <1>4
<1>. DEFINE q == Pending(st)
<1>6. q \in Seq(Domain) /\ Len(q) = Len(st) /\ \A i \in 1 .. Len(st) : q[i] = st[i].d
  BY <1>2, <1>5
<1>. HIDE DEF q
<1>7. list \o q \in Seq(Domain) /\ Len(list \o q) = Len(list) + Len(st)
  BY <1>6, SMTT(30)
<1>8. \A i \in 1 .. Len(list) : (list \o q)[i] = list[i]
  BY <1>6
<1>9. ASSUME NEW i \in 1 .. Len(st)
      PROVE  (list \o q)[Len(list) + i] = st[i].d
  BY <1>6
<1>. QED BY <1>7, <1>8, <1>9 DEF q

\* Listing what is pending first leaves the parcels as they are.
LEMMA ListKeepsParcels ==
    ASSUME NEW n \in Nat, NEW list \in Seq(Domain), NEW st \in Seq(Job(n)), st # <<>>
    PROVE  Append(list, Head(st).d) \o Pending(Tail(st)) = list \o Pending(st)
<1>. DEFINE new == Append(list, Head(st).d)
            A == new \o Pending(Tail(st))
            B == list \o Pending(st)
<1>1. /\ Head(st) = st[1] /\ st[1] \in Job(n) /\ Len(st) \in Nat /\ 1 <= Len(st)
      /\ Tail(st) \in Seq(Job(n)) /\ Len(Tail(st)) = Len(st) - 1
      /\ \A i \in 1 .. Len(st) - 1 : Tail(st)[i] = st[i + 1]
  OBVIOUS
<1>2. Head(st).d \in Domain
  BY <1>1 DEF Job
<1>3. /\ new \in Seq(Domain) /\ Len(new) = Len(list) + 1 /\ Len(list) \in Nat
      /\ \A i \in 1 .. Len(list) : new[i] = list[i]
      /\ new[Len(list) + 1] = st[1].d
  BY <1>1, <1>2
<1>. DEFINE tl == Tail(st)
<1>4. tl \in Seq(Job(n)) /\ Len(tl) = Len(st) - 1
  BY <1>1
<1>. HIDE DEF new
<1>5. /\ B \in Seq(Domain) /\ Len(B) = Len(list) + Len(st)
      /\ \A i \in 1 .. Len(list) : B[i] = list[i]
      /\ \A i \in 1 .. Len(st) : B[Len(list) + i] = st[i].d
  BY ParcelsFacts
<1>. HIDE DEF tl
<1>6. /\ new \o Pending(tl) \in Seq(Domain)
      /\ Len(new \o Pending(tl)) = Len(new) + Len(tl)
      /\ \A i \in 1 .. Len(new) : (new \o Pending(tl))[i] = new[i]
      /\ \A i \in 1 .. Len(tl) : (new \o Pending(tl))[Len(new) + i] = tl[i].d
  BY <1>3, <1>4, ParcelsFacts
<1>7. A = new \o Pending(tl)
  BY DEF tl
<1>. HIDE DEF A, B
<1>8. Len(A) = Len(B)
  <2>1. Len(A) = Len(new) + Len(tl) /\ Len(B) = Len(list) + Len(st)
    BY <1>5, <1>6, <1>7
  <2>2. Len(new) = Len(list) + 1 /\ Len(tl) = Len(st) - 1
    BY <1>3, <1>4
  <2>3. Len(list) \in Nat /\ Len(st) \in Nat
    OBVIOUS
  <2>. QED BY <2>1, <2>2, <2>3
<1>9. ASSUME NEW i \in 1 .. Len(B)
      PROVE  A[i] = B[i]
  <2>1. CASE i <= Len(list)
    <3>1. i \in 1 .. Len(list) /\ i \in 1 .. Len(new)
      BY <1>3, <2>1
    <3>. QED BY <1>3, <1>5, <1>6, <1>7, <3>1
  <2>2. CASE i = Len(list) + 1
    <3>1. Len(list) + 1 \in 1 .. Len(new) /\ 1 \in 1 .. Len(st)
      BY <1>1, <1>3
    <3>. QED BY <1>3, <1>5, <1>6, <1>7, <2>2, <3>1
  <2>3. CASE i > Len(list) + 1
    <3>. DEFINE k == i - (Len(list) + 1)
    <3>1. /\ k \in 1 .. Len(st) - 1 /\ k \in 1 .. Len(tl) /\ Len(new) + k = i
          /\ k + 1 \in 1 .. Len(st) /\ Len(list) + (k + 1) = i
      BY <1>1, <1>3, <1>4, <1>5, <2>3
    <3>. HIDE DEF k
    <3>2. A[i] = tl[k].d
      BY <1>6, <1>7, <3>1
    <3>3. tl[k] = st[k + 1]
      BY <1>1, <3>1 DEF tl
    <3>4. B[i] = st[k + 1].d
      BY <1>5, <3>1
    <3>. QED BY <3>2, <3>3, <3>4
  <2>. QED BY <1>3, <1>5, <2>1, <2>2, <2>3
<1>10. A = B
  <2>1. A \in Seq(Domain)
    BY <1>6, <1>7
  <2>2. A = [i \in 1 .. Len(B) |-> A[i]] /\ B = [i \in 1 .. Len(B) |-> B[i]]
    BY <1>5, <1>8, <2>1
  <2>. QED BY <1>9, <2>2
<1>. QED BY <1>10 DEF A, B, new

\* The root alone divides the root.
LEMMA RootAlone ==
    ASSUME NEW n \in Nat \ {0}, NEW r \in Domain
    PROVE  LET st == <<[d |-> r, node |-> 1]>>
               P == <<>> \o Pending(st)
           IN  st \in Seq(Job(n)) /\ Len(st) = 1 /\ Partition(P, Len(P), r)
<1>. DEFINE st == <<[d |-> r, node |-> 1]>>
            none == <<>>
            P == none \o Pending(st)
<1>1. [d |-> r, node |-> 1] \in Job(n)
  <2>1. 1 \in 1 .. n
    OBVIOUS
  <2>. QED BY <2>1 DEF Job
<1>2. st \in Seq(Job(n)) /\ Len(st) = 1 /\ st[1].d = r
  <2>. HIDE DEF Job
  <2>. QED BY <1>1
<1>3. none \in Seq(Domain) /\ Len(none) = 0
  OBVIOUS
<1>. HIDE DEF st, none
<1>4. Len(P) = 1 /\ P[1] = r
  <2>1. /\ Len(P) = Len(none) + Len(st)
        /\ \A i \in 1 .. Len(st) : P[Len(none) + i] = st[i].d
    BY <1>2, <1>3, ParcelsFacts, ZenonT(30)
  <2>2. Len(P) = 1
    BY <1>2, <1>3, <2>1
  <2>3. P[0 + 1] = st[1].d
    BY <1>2, <1>3, <2>1, SMTT(30)
  <2>4. 0 + 1 = 1
    OBVIOUS
  <2>. QED BY <1>2, <2>2, <2>3, <2>4
<1>. HIDE DEF P
<1>5. ASSUME NEW m \in Nat, m = 1
      PROVE  Partition(P, m, r)
  <2>1. \A i \in 1 .. m : i = 1
    BY <1>5
  <2>2. Volume(r) \in Int /\ Inside(r, r)
    BY VolumeIsInt, InsideFacts
  <2>3. \A i \in 1 .. m : Volumes(P, m)[i] = Volume(r)
    BY <1>4, <2>1 DEF Volumes
  <2>4. Sum(Volumes(P, m), 1 .. m) = m * Volume(r)
    BY <2>2, <2>3, SumOfConstant
  <2>5. m * Volume(r) = Volume(r)
    BY <1>5, <2>2
  <2>. QED BY <1>4, <2>1, <2>2, <2>4, <2>5 DEF Partition
<1>6. Partition(P, Len(P), r)
  BY <1>4, <1>5
<1>. QED BY <1>2, <1>6 DEF P, st, none

\* Jobs for the parts of what is pending first keep the partition.
LEMMA ExpandKeepsPartition ==
    ASSUME NEW n \in Nat, NEW list \in Seq(Domain), NEW st \in Seq(Job(n)), st # <<>>,
           NEW js \in Seq(Job(n)), NEW parts \in Seq(Domain), NEW r \in Domain,
           Len(js) = Len(parts), \A i \in 1 .. Len(parts) : js[i].d = parts[i],
           Partition(parts, Len(parts), Head(st).d),
           Partition(list \o Pending(st), Len(list \o Pending(st)), r)
    PROVE  LET Q == list \o Pending(js \o Tail(st)) IN Partition(Q, Len(Q), r)
<1>. DEFINE tl == Tail(st)
            both == js \o tl
            P == list \o Pending(st)
            Q == list \o Pending(both)
            l == Len(list)
            w == Len(js)
            k == Len(tl)
<1>1. /\ Head(st) = st[1] /\ st[1] \in Job(n) /\ Len(st) = 1 + k /\ k \in Nat
      /\ tl \in Seq(Job(n)) /\ \A i \in 1 .. k : tl[i] = st[1 + i]
  OBVIOUS
<1>2. l \in Nat /\ w \in Nat
  OBVIOUS
<1>. HIDE DEF tl
<1>3. /\ both \in Seq(Job(n)) /\ Len(both) = w + k
      /\ \A i \in 1 .. w : both[i] = js[i]
      /\ \A i \in 1 .. k : both[w + i] = tl[i]
  <2>1. tl \in Seq(Job(n))
    BY <1>1
  <2>2. both \in Seq(Job(n)) /\ Len(both) = w + k
    BY <2>1
  <2>3. \A i \in 1 .. w : both[i] = js[i]
    BY <2>1
  <2>4. \A i \in 1 .. k : both[w + i] = tl[i]
    BY <2>1
  <2>. QED BY <2>2, <2>3, <2>4
<1>. HIDE DEF both
<1>4. /\ P \in Seq(Domain) /\ Len(P) = l + Len(st)
      /\ \A i \in 1 .. l : P[i] = list[i]
      /\ \A i \in 1 .. Len(st) : P[l + i] = st[i].d
  BY ParcelsFacts
<1>5. /\ Q \in Seq(Domain) /\ Len(Q) = l + Len(both)
      /\ \A i \in 1 .. l : Q[i] = list[i]
      /\ \A i \in 1 .. Len(both) : Q[l + i] = both[i].d
  BY <1>3, ParcelsFacts
<1>. HIDE DEF P, Q, l, w, k
<1>6. Len(P) = l + (1 + k) /\ Len(Q) = l + (w + k)
  <2>1. Len(P) = l + Len(st) /\ Len(Q) = l + Len(both)
    BY <1>4, <1>5
  <2>2. Len(st) = 1 + k /\ Len(both) = w + k
    BY <1>1, <1>3
  <2>. QED BY <2>1, <2>2
<1>7. \A i \in 1 .. l + (1 + k) : P[i] \in Domain
  BY <1>4, <1>6
<1>8. \A i \in 1 .. w : parts[i] \in Domain
  BY DEF w
<1>9. Partition(P, l + (1 + k), r)
  BY <1>6 DEF P
<1>10. P[l + 1] = Head(st).d
  <2>1. 1 \in 1 .. Len(st)
    BY <1>1
  <2>. QED BY <1>1, <1>4, <2>1
<1>11. Partition(parts, w, P[l + 1])
  BY <1>10 DEF w
<1>12. \A i \in 1 .. l : Q[i] = P[i]
  BY <1>4, <1>5
<1>13. \A i \in 1 .. w : Q[l + i] = parts[i]
  <2>. SUFFICES ASSUME NEW i \in 1 .. w
                PROVE  Q[l + i] = parts[i]
    OBVIOUS
  <2>1. i \in 1 .. Len(both) /\ i \in 1 .. Len(parts)
    BY <1>1, <1>2, <1>3 DEF w
  <2>. QED BY <1>3, <1>5, <2>1
<1>14. \A i \in 1 .. k : Q[l + (w + i)] = P[l + (1 + i)]
  <2>. SUFFICES ASSUME NEW i \in 1 .. k
                PROVE  Q[l + (w + i)] = P[l + (1 + i)]
    OBVIOUS
  <2>1. w + i \in 1 .. Len(both) /\ 1 + i \in 1 .. Len(st)
    BY <1>1, <1>2, <1>3
  <2>2. Q[l + (w + i)] = both[w + i].d /\ P[l + (1 + i)] = st[1 + i].d
    BY <1>4, <1>5, <2>1
  <2>3. both[w + i] = tl[i] /\ tl[i] = st[1 + i]
    BY <1>1, <1>3
  <2>. QED BY <2>2, <2>3
<1>15. Partition(Q, l + (w + k), r)
  <2>1. l \in Nat /\ w \in Nat /\ k \in Nat
    BY <1>1, <1>2
  <2>. HIDE DEF Partition
  <2>. QED BY <1>7, <1>8, <1>9, <1>11, <1>12, <1>13, <1>14, <2>1, PartitionReplaced, ZenonT(30)
<1>. QED BY <1>6, <1>15 DEF Q, both, tl

-----------------------------------------------------------------------------
(* Reading a tree.                                                         *)

\* From a node on, n subtrees of s one after the other, the last of them the last
\* of s.
Chain(s, c, n, from) ==
    /\ c \in [0 .. n -> 1 .. Len(s) + 1]
    /\ c[0] = from /\ c[n] = Len(s) + 1
    /\ \A k \in 0 .. n - 1 : c[k] \in 1 .. Len(s) /\ c[k + 1] = Ends(s)[c[k]]

\* A node read from a whole tree takes one subtree away and asks for as many as it
\* has.
LEMMA ChainStep ==
    ASSUME NEW s \in Seq(Node), WholeTree(s), NEW n \in Nat, n > 0, NEW i,
           NEW c, Chain(s, c, n, i),
           NEW m, m = n - 1 + (IF s[i].tag = LeafTag THEN 0
                               ELSE IF Cuts(s[i]) THEN 2 ELSE 1)
    PROVE  i \in 1 .. Len(s) /\ m \in Nat /\ \E e : Chain(s, e, m, i + 1)
<1>. DEFINE l == Len(s)
            E == Ends(s)
<1>1. l \in Nat
  OBVIOUS
<1>. HIDE DEF l
<1>2. /\ c \in [0 .. n -> 1 .. l + 1] /\ c[0] = i /\ c[n] = l + 1
      /\ \A k \in 0 .. n - 1 : c[k] \in 1 .. l /\ c[k + 1] = E[c[k]]
  BY DEF Chain, l
<1>3. i \in 1 .. l /\ c[1] = E[i]
  <2>1. 0 \in 0 .. n - 1 /\ 0 + 1 = 1
    OBVIOUS
  <2>2. c[0] \in 1 .. l /\ c[0 + 1] = E[c[0]]
    BY <1>2, <2>1
  <2>. QED BY <1>2, <2>1, <2>2
<1>4. /\ s[i].tag = LeafTag => E[i] = i + 1
      /\ s[i].tag # LeafTag => i + 1 \in 1 .. l
      /\ s[i].tag # LeafTag /\ ~ Cuts(s[i]) => E[i] = E[i + 1]
      /\ s[i].tag # LeafTag /\ Cuts(s[i]) =>
            E[i + 1] \in 1 .. l /\ E[i] = E[E[i + 1]]
  <2>1. i \in 1 .. Len(s)
    BY <1>3 DEF l
  <2>. QED BY <2>1, WholeTreeFacts DEF l
<1>. HIDE DEF E
<1>5. CASE s[i].tag = LeafTag
  <2>. DEFINE e == [k \in 0 .. m |-> c[k + 1]]
  <2>1. m = n - 1 /\ m \in Nat
    BY <1>5
  <2>2. e \in [0 .. m -> 1 .. l + 1]
    BY <1>2, <2>1
  <2>3. e[0] = i + 1 /\ e[m] = l + 1
    BY <1>2, <1>3, <1>4, <1>5, <2>1
  <2>4. \A k \in 0 .. m - 1 : e[k] \in 1 .. l /\ e[k + 1] = E[e[k]]
    BY <1>2, <2>1
  <2>. HIDE DEF e
  <2>5. Chain(s, e, m, i + 1)
    BY <2>2, <2>3, <2>4 DEF Chain, l, E
  <2>. QED BY <1>3, <2>1, <2>5 DEF l
<1>6. CASE s[i].tag # LeafTag /\ ~ Cuts(s[i])
  <2>. DEFINE e == [k \in 0 .. m |-> IF k = 0 THEN i + 1 ELSE c[k]]
  <2>1. m = n /\ m \in Nat
    BY <1>6
  <2>2. i + 1 \in 1 .. l /\ i + 1 \in 1 .. l + 1
    BY <1>1, <1>4, <1>6
  <2>3. e \in [0 .. m -> 1 .. l + 1]
    BY <1>2, <2>1, <2>2
  <2>4. e[0] = i + 1 /\ e[m] = l + 1
    BY <1>2, <2>1
  <2>5. ASSUME NEW k \in 0 .. m - 1
        PROVE  e[k] \in 1 .. l /\ e[k + 1] = E[e[k]]
    <3>1. CASE k = 0
      <4>1. e[1] = c[1]
        BY <2>1
      <4>. QED BY <1>3, <1>4, <1>6, <2>2, <2>4, <3>1, <4>1
    <3>2. CASE k # 0
      <4>1. e[k] = c[k] /\ e[k + 1] = c[k + 1]
        BY <2>1, <3>2
      <4>. QED BY <1>2, <2>1, <4>1
    <3>. QED BY <3>1, <3>2
  <2>. HIDE DEF e
  <2>6. Chain(s, e, m, i + 1)
    BY <2>3, <2>4, <2>5 DEF Chain, l, E
  <2>. QED BY <1>3, <2>1, <2>6 DEF l
<1>7. CASE s[i].tag # LeafTag /\ Cuts(s[i])
  <2>. DEFINE e == [k \in 0 .. m |-> IF k = 0 THEN i + 1
                                     ELSE IF k = 1 THEN E[i + 1] ELSE c[k - 1]]
  <2>1. m = n + 1 /\ m \in Nat
    BY <1>7
  <2>2. i + 1 \in 1 .. l /\ i + 1 \in 1 .. l + 1 /\ E[i + 1] \in 1 .. l
        /\ E[i + 1] \in 1 .. l + 1
    BY <1>1, <1>4, <1>7
  <2>3. e \in [0 .. m -> 1 .. l + 1]
    BY <1>2, <2>1, <2>2
  <2>4. e[0] = i + 1 /\ e[m] = l + 1
    BY <1>2, <2>1
  <2>5. ASSUME NEW k \in 0 .. m - 1
        PROVE  e[k] \in 1 .. l /\ e[k + 1] = E[e[k]]
    <3>1. CASE k = 0
      <4>1. e[1] = E[i + 1]
        BY <2>1
      <4>. QED BY <2>2, <2>4, <3>1, <4>1
    <3>2. CASE k = 1
      <4>1. e[1] = E[i + 1] /\ e[2] = c[1]
        BY <2>1, <3>2
      <4>. QED BY <1>3, <1>4, <1>7, <2>2, <3>2, <4>1
    <3>3. CASE k # 0 /\ k # 1
      <4>1. e[k] = c[k - 1] /\ e[k + 1] = c[(k - 1) + 1] /\ k - 1 \in 0 .. n - 1
        BY <2>1, <3>3
      <4>. QED BY <1>2, <4>1
    <3>. QED BY <3>1, <3>2, <3>3
  <2>. HIDE DEF e
  <2>6. Chain(s, e, m, i + 1)
    BY <2>3, <2>4, <2>5 DEF Chain, l, E
  <2>. QED BY <1>3, <2>1, <2>6 DEF l
<1>. QED BY <1>5, <1>6, <1>7

\* A whole tree is one subtree.
LEMMA ChainStarts ==
    ASSUME NEW s \in Seq(Node), WholeTree(s)
    PROVE  \E c : Chain(s, c, 1, 1)
<1>. DEFINE c == [k \in 0 .. 1 |-> IF k = 0 THEN 1 ELSE Len(s) + 1]
<1>1. Len(s) \in Nat /\ Len(s) >= 1 /\ Ends(s)[1] = Len(s) + 1
  BY DEF WholeTree
<1>2. c \in [0 .. 1 -> 1 .. Len(s) + 1] /\ c[0] = 1 /\ c[1] = Len(s) + 1
  BY <1>1
<1>3. \A k \in 0 .. 1 - 1 : k = 0 /\ k + 1 = 1
  OBVIOUS
<1>. HIDE DEF c
<1>4. 1 \in 1 .. Len(s)
  BY <1>1
<1>5. Chain(s, c, 1, 1)
  BY <1>1, <1>2, <1>3, <1>4 DEF Chain
<1>. QED BY <1>5

-----------------------------------------------------------------------------
(* The inductive invariant.                                                *)

\* The encoder's and the decoder's tree and leaves.
TreesTyped ==
    /\ root \in Roots /\ t \in Seq(Node) /\ rt \in Seq(Node)
    /\ leaves \in Seq(Domain) /\ index \in Seq(Domain)

\* The plan is made from nothing; a finished one is a whole tree.
PlanKnown ==
    /\ phase = "plan" => leaves = <<>> /\ stack \in Seq(Domain)
    /\ phase \in {"expand", "encode", "read"} => WholeTree(t)

\* The reader has nothing before there is a file to read.
ReaderFresh ==
    /\ phase \in {"plan", "expand", "encode"} => rt = <<>> /\ needed = 1
    /\ phase \in {"plan", "expand", "encode", "read"} => index = <<>>

FileType ==
    [wide : BOOLEAN, header : Int, layout : {file.layout}, shape : [Axes -> Int],
     nodes : Seq(Node), lengths : {file.lengths}, object : {file.object}]

FileKnown ==
    phase \in {"read", "reexpand"} => p \in Int /\ file \in FileType

\* The file has the planned tree, whatever became of its values; the nodes still to
\* read are the subtrees still needed.
SubtreesNeeded ==
    phase = "read" =>
        /\ Len(file.nodes) = Len(t)
        /\ \A i \in 1 .. Len(t) : file.nodes[i].tag = t[i].tag
        /\ needed \in Nat
        /\ \E c : Chain(t, c, needed, Len(rt) + 1)

Whole == IF phase = "expand" THEN root ELSE ReadRoot

\* What is listed and what is pending divide the root and fit the limit.
Dividing ==
    Expanding =>
        /\ WholeTree(Template)
        /\ stack \in Seq(Job(Len(Template)))
        /\ Partition(Parcels, Len(Parcels), Whole)
        /\ Limit \in Int /\ Len(Listed) + Len(stack) <= Limit

IndexInv ==
    TreesTyped /\ PlanKnown /\ ReaderFresh /\ FileKnown /\ SubtreesNeeded /\ Dividing

\* A root is a domain of a unit cube at least.
LEMMA RootFacts ==
    ASSUME NEW r \in Roots
    PROVE  /\ r \in Domain
           /\ Volume(r) \div (Unit * Unit * Unit) \in Int
           /\ Volume(r) \div (Unit * Unit * Unit) >= 1
<1>1. r \in [at : [Axes -> {0}], size : [Axes -> Nat]] /\ \A a \in Axes : r.size[a] >= Grain(a)
  BY RootsAssumption
<1>2. r \in Domain
  <2>1. r.at \in [Axes -> Int] /\ r.size \in [Axes -> Int] /\ r = [at |-> r.at, size |-> r.size]
    BY <1>1
  <2>. QED BY <2>1 DEF Domain
<1>3. Unit \in Nat /\ Unit >= 1
  BY UnitAssumption
<1>. DEFINE x == r.size[0]
            y == r.size[1]
            z == r.size[2]
            c == r.size[3]
<1>4. x \in Nat /\ y \in Nat /\ z \in Nat /\ c \in Nat
  BY <1>1 DEF Axes
<1>5. x >= Unit /\ y >= Unit /\ z >= Unit /\ c >= 1
  BY <1>1 DEF Axes, Grain
<1>6. Volume(r) = x * y * z * c
  BY DEF Volume
<1>. HIDE DEF x, y, z, c
<1>7. \A i, j, k, l \in Nat : i <= j /\ k <= l => i * k <= j * l
  OBVIOUS
<1>8. Unit * Unit <= x * y /\ Unit * Unit \in Nat /\ x * y \in Nat
  BY <1>3, <1>4, <1>5, <1>7
<1>9. (Unit * Unit) * Unit <= (x * y) * z /\ (Unit * Unit) * Unit \in Nat /\ (x * y) * z \in Nat
  BY <1>3, <1>4, <1>5, <1>7, <1>8
<1>10. ((x * y) * z) * c >= (x * y) * z /\ ((x * y) * z) * c \in Nat
  <2>1. \A i, k \in Nat : k >= 1 => i * k >= i /\ i * k \in Nat
    OBVIOUS
  <2>. QED BY <1>4, <1>5, <1>9, <2>1
<1>11. (Unit * Unit) * Unit >= 1
  <2>1. \A i, k \in Nat : i >= 1 /\ k >= 1 => i * k >= 1 /\ i * k \in Nat
    OBVIOUS
  <2>. QED BY <1>3, <2>1
<1>. DEFINE cube == Unit * Unit * Unit
<1>12. cube \in Nat \ {0} /\ Volume(r) \in Nat /\ Volume(r) >= cube
  BY <1>6, <1>9, <1>10, <1>11
<1>. HIDE DEF cube
<1>13. \A v \in Nat, k \in Nat \ {0} :
          v >= k => v \div k \in Int /\ v \div k >= 1
  OBVIOUS
<1>14. Volume(r) \div cube \in Int /\ Volume(r) \div cube >= 1
  BY <1>12, <1>13
<1>. QED BY <1>2, <1>14 DEF cube

\* The invariant holds before anything is planned.
LEMMA InitIndex == Init => IndexInv
<1>. SUFFICES ASSUME Init PROVE IndexInv
  OBVIOUS
<1>1. root \in Domain
  BY RootFacts DEF Init
<1>2. stack = <<root>> /\ phase = "plan" /\ root \in Roots /\ needed = 1
      /\ t = <<>> /\ rt = <<>> /\ leaves = <<>> /\ index = <<>>
  BY DEF Init
<1>3. stack \in Seq(Domain)
  <2>. HIDE DEF Domain
  <2>. QED BY <1>1, <1>2
<1>4. TreesTyped
  BY <1>2 DEF TreesTyped
<1>. QED BY <1>2, <1>3, <1>4
     DEF IndexInv, PlanKnown, ReaderFresh, FileKnown, SubtreesNeeded, Dividing, Expanding

\* Whoever gives up leaves nothing to keep but types.
LEMMA GivesUp ==
    ASSUME TreesTyped', phase' \in {"unplanned", "refused", "rejected", "decode", "done"}
    PROVE  IndexInv'
BY DEF IndexInv, PlanKnown, ReaderFresh, FileKnown, SubtreesNeeded, Dividing, Expanding

\* The longest axis, where there is one.
LEMMA LongestFacts ==
    ASSUME NEW d \in Domain
    PROVE  Longest(d) \in 0 .. 2 /\ \A c \in 0 .. 2 : d.size[c] <= d.size[Longest(d)]
<1>1. \A a \in Axes : d.size[a] \in Int
  BY DEF Domain
<1>2. \E a \in 0 .. 2 : /\ \A c \in 0 .. 2 : d.size[c] <= d.size[a]
                        /\ \A c \in 0 .. a - 1 : d.size[c] < d.size[a]
  <2>1. d.size[0] \in Int /\ d.size[1] \in Int /\ d.size[2] \in Int
    BY <1>1 DEF Axes
  <2>2. /\ \A c \in 0 .. 2 : c = 0 \/ c = 1 \/ c = 2
        /\ \A c \in 0 .. 0 - 1 : FALSE
        /\ \A c \in 0 .. 1 - 1 : c = 0
        /\ \A c \in 0 .. 2 - 1 : c = 0 \/ c = 1
        /\ 0 \in 0 .. 2 /\ 1 \in 0 .. 2 /\ 2 \in 0 .. 2
    OBVIOUS
  <2>3. CASE d.size[1] <= d.size[0] /\ d.size[2] <= d.size[0]
    BY <2>1, <2>2, <2>3
  <2>4. CASE d.size[0] < d.size[1] /\ d.size[2] <= d.size[1]
    BY <2>1, <2>2, <2>4
  <2>5. CASE d.size[0] < d.size[2] /\ d.size[1] < d.size[2]
    BY <2>1, <2>2, <2>5
  <2>. QED BY <2>1, <2>3, <2>4, <2>5
<1>. QED BY <1>2 DEF Longest

\* A node the encoder chooses without a plan is a node.
LEMMA AutoNodeIsNode ==
    ASSUME NEW d \in Domain
    PROVE  AutoNode(d) \in Node
<1>1. \A a \in Axes : d.size[a] \in Int
  BY DEF Domain
<1>2. Longest(d) \in 0 .. 2
  BY LongestFacts
<1>3. d.size[3] \in Int /\ d.size[Longest(d)] \in Int
  BY <1>1, <1>2 DEF Axes
<1>4. (d.size[Longest(d)] \div (2 * Unit)) * Unit \in Int
  <2>. DEFINE u == 2 * Unit
              x == d.size[Longest(d)]
  <2>1. u \in Nat \ {0} /\ Unit \in Int
    BY UnitAssumption
  <2>. HIDE DEF u
  <2>2. x \div u \in Int
    BY <1>3, <2>1
  <2>. QED BY <2>1, <2>2 DEF u
<1>. DEFINE v == (d.size[Longest(d)] \div (2 * Unit)) * Unit
            a == Longest(d)
<1>5. /\ [tag |-> 7, value |-> d.size[3]] \in Node
      /\ LeafNode \in Node
      /\ [tag |-> a, value |-> v] \in Node
  <2>1. v \in Int
    BY <1>4
  <2>2. a \in 0 .. 2
    BY <1>2
  <2>. HIDE DEF v, a
  <2>. QED BY <1>3, <2>1, <2>2 DEF Node, LeafNode, LeafTag
<1>. QED BY <1>5 DEF AutoNode

\* What a planned node leaves to plan: the parts of what it divides.
LEMMA PlanNodeIndex == IndexInv /\ PlanNode => IndexInv'
<1>. SUFFICES ASSUME IndexInv, PlanNode PROVE IndexInv'
  OBVIOUS
<1>1. /\ phase = "plan" /\ stack # <<>> /\ rt' = rt /\ leaves' = leaves /\ index' = index
      /\ root' = root /\ needed' = needed
  BY DEF PlanNode
<1>2. /\ root \in Roots /\ t \in Seq(Node) /\ rt \in Seq(Node) /\ leaves \in Seq(Domain)
      /\ index \in Seq(Domain) /\ stack \in Seq(Domain) /\ leaves = <<>> /\ rt = <<>>
      /\ index = <<>> /\ needed = 1
  BY <1>1 DEF IndexInv, TreesTyped, PlanKnown, ReaderFresh
<1>. DEFINE d == Head(stack)
<1>3. d \in Domain /\ Tail(stack) \in Seq(Domain)
  BY <1>1, <1>2
<1>. HIDE DEF d
<1>4. PICK node \in IF auto THEN {AutoNode(d)} ELSE PlanNodes :
          IF Plannable(d, node)
          THEN /\ t' = Append(t, node)
               /\ stack' = ToPlan(d, node) \o Tail(stack)
               /\ UNCHANGED phase
          ELSE phase' = "unplanned" /\ UNCHANGED <<t, stack>>
  BY DEF PlanNode, d
<1>5. node \in Node
  <2>1. CASE auto
    BY <1>3, <1>4, <2>1, AutoNodeIsNode
  <2>2. CASE ~ auto
    <3>1. node \in [tag : 0 .. LeafTag, value : Nat]
      BY <1>4, <2>2, PlanAssumption
    <3>. QED BY <3>1 DEF Node
  <2>. QED BY <2>1, <2>2
<1>6. CASE Plannable(d, node)
  <2>1. t' = Append(t, node) /\ stack' = ToPlan(d, node) \o Tail(stack) /\ phase' = "plan"
    BY <1>1, <1>4, <1>6
  <2>2. ToPlan(d, node) \in Seq(Domain)
    <3>1. CASE node.tag = LeafTag
      BY <3>1 DEF ToPlan
    <3>2. CASE node.tag # LeafTag
      <4>. DEFINE P == Parts(d, node)
      <4>1. P \in Seq(Domain) /\ Len(P) >= 1
        <5>1. Divides(d, node)
          BY <1>6, <3>2 DEF Plannable
        <5>. QED BY <1>3, <1>5, <5>1, PartsFacts
      <4>. HIDE DEF P
      <4>2. Head(P) \in Domain
        BY <4>1
      <4>. HIDE DEF Domain
      <4>3. <<Head(P)>> \in Seq(Domain)
        BY <4>2
      <4>. QED BY <3>2, <4>1, <4>3 DEF ToPlan, P
    <3>. QED BY <3>1, <3>2
  <2>3. stack' \in Seq(Domain)
    BY <1>3, <2>1, <2>2
  <2>4. t' \in Seq(Node)
    BY <1>2, <1>5, <2>1
  <2>5. TreesTyped'
    BY <1>1, <1>2, <2>4 DEF TreesTyped
  <2>. QED BY <1>1, <1>2, <2>1, <2>3, <2>5
       DEF IndexInv, PlanKnown, ReaderFresh, FileKnown, SubtreesNeeded, Dividing, Expanding
<1>7. CASE ~ Plannable(d, node)
  <2>1. phase' = "unplanned" /\ t' = t
    BY <1>4, <1>7
  <2>2. TreesTyped'
    BY <1>1, <1>2, <2>1 DEF TreesTyped
  <2>. QED BY <2>1, <2>2, GivesUp
<1>. QED BY <1>6, <1>7

\* Expansion starts from the root and the tree's first node.
LEMMA StartDividing ==
    ASSUME Expanding', Listed' = <<>>, WholeTree(Template)', Template' \in Seq(Node),
           Whole' \in Domain, stack' = <<[d |-> Whole', node |-> 1]>>,
           Limit' \in Int, Limit' >= 1
    PROVE  Dividing'
<1>. DEFINE n == Len(Template')
            r == Whole'
            st == <<[d |-> r, node |-> 1]>>
            P == <<>> \o Pending(st)
<1>1. n \in Nat \ {0}
  BY DEF WholeTree
<1>2. st \in Seq(Job(n)) /\ Len(st) = 1 /\ Partition(P, Len(P), r)
  <2>. HIDE DEF n, r
  <2>1. r \in Domain
    BY DEF r
  <2>. QED BY <1>1, <2>1, RootAlone
<1>3. Parcels' = P
  BY DEF Parcels, Pending
<1>4. Len(Listed') + Len(stack') <= Limit'
  BY <1>2
<1>5. Partition(Parcels', Len(Parcels'), Whole')
  <2>. HIDE DEF P
  <2>. QED BY <1>2, <1>3
<1>6. stack' \in Seq(Job(Len(Template')))
  BY <1>2
<1>. QED BY <1>4, <1>5, <1>6 DEF Dividing

\* A plan that is complete and matches the template is expanded.
LEMMA FinishPlanIndex == IndexInv /\ FinishPlan => IndexInv'
<1>. SUFFICES ASSUME IndexInv, FinishPlan PROVE IndexInv'
  OBVIOUS
<1>1. /\ phase = "plan" /\ rt' = rt /\ leaves' = leaves /\ index' = index
      /\ root' = root /\ needed' = needed /\ t' = t
  BY DEF FinishPlan
<1>2. TreesTyped' /\ leaves = <<>> /\ rt = <<>> /\ index = <<>> /\ needed = 1
      /\ t \in Seq(Node) /\ root \in Roots
  BY <1>1 DEF IndexInv, TreesTyped, PlanKnown, ReaderFresh
<1>3. CASE WholeTree(t)
  <2>1. phase' = "expand" /\ stack' = <<[d |-> root, node |-> 1]>>
    BY <1>3 DEF FinishPlan
  <2>2. /\ Expanding' /\ Listed' = <<>> /\ WholeTree(Template)' /\ Template' \in Seq(Node)
        /\ Whole' = root
    BY <1>1, <1>2, <1>3, <2>1 DEF Expanding, Listed, Template, Whole
  <2>3. Limit' \in Int /\ Limit' >= 1 /\ root \in Domain
    <3>1. Limit' = Volume(root) \div (Unit * Unit * Unit)
      BY <1>1, <2>1 DEF Limit
    <3>. QED BY <1>2, <3>1, RootFacts
  <2>4. Dividing'
    BY <2>1, <2>2, <2>3, StartDividing
  <2>. QED BY <1>1, <1>2, <1>3, <2>1, <2>4
       DEF IndexInv, PlanKnown, ReaderFresh, FileKnown, SubtreesNeeded
<1>4. CASE ~ WholeTree(t)
  <2>1. phase' = "refused"
    BY <1>4 DEF FinishPlan
  <2>. QED BY <1>2, <2>1, GivesUp
<1>. QED BY <1>3, <1>4

\* One that is not is given up.
LEMMA PlanMiscountsIndex == IndexInv /\ PlanMiscounts => IndexInv'
<1>. SUFFICES ASSUME IndexInv, PlanMiscounts PROVE IndexInv'
  OBVIOUS
<1>1. TreesTyped' /\ phase' = "unplanned"
  BY DEF IndexInv, TreesTyped, PlanMiscounts
<1>. QED BY <1>1, GivesUp

\* What either side knows while it expands.
LEMMA WhileExpanding ==
    ASSUME IndexInv, Expanding
    PROVE  /\ Template \in Seq(Node) /\ Listed \in Seq(Domain) /\ Whole \in Domain
           /\ WholeTree(Template) /\ stack \in Seq(Job(Len(Template)))
           /\ Len(Template) \in Nat
           /\ Partition(Listed \o Pending(stack), Len(Listed \o Pending(stack)), Whole)
           /\ Limit \in Int /\ Len(Listed) + Len(stack) <= Limit
<1>1. Template \in Seq(Node) /\ Listed \in Seq(Domain)
  BY DEF IndexInv, TreesTyped, Template, Listed
<1>2. Whole \in Domain
  <2>1. CASE phase = "expand"
    BY <2>1, RootFacts DEF IndexInv, TreesTyped, Whole
  <2>2. CASE phase = "reexpand"
    <3>1. file.shape \in [Axes -> Int]
      BY <2>2 DEF IndexInv, FileKnown, FileType
    <3>2. Unit \in Int /\ \A a \in Axes : Grain(a) \in Int
      BY UnitAssumption DEF Grain
    <3>3. ReadRoot \in Domain
      <4>1. \A a \in Axes : (file.shape[a] + 1) * Grain(a) \in Int
        BY <3>1, <3>2
      <4>. QED BY <4>1 DEF ReadRoot, Domain
    <3>. QED BY <2>2, <3>3 DEF Whole
  <2>. QED BY <2>1, <2>2 DEF Expanding
<1>3. Dividing
  BY DEF IndexInv
<1>. QED BY <1>1, <1>2, <1>3 DEF Dividing, Parcels, Pending

\* What goes on for the next domain when the expansion goes on.
LEMMA ExpansionGoesOn ==
    ASSUME IndexInv, Expanding, phase' = phase, Dividing', TreesTyped',
           UNCHANGED <<root, t, rt, needed, file, p>>,
           phase = "expand" => index' = index
    PROVE  IndexInv'
<1>1. CASE phase = "expand"
  BY <1>1 DEF IndexInv, PlanKnown, ReaderFresh, FileKnown, SubtreesNeeded
<1>2. CASE phase = "reexpand"
  BY <1>2 DEF IndexInv, PlanKnown, ReaderFresh, FileKnown, SubtreesNeeded, FileType
<1>. QED BY <1>1, <1>2 DEF Expanding

\* Listing the domain on top of the stack moves it from pending to listed.
LEMMA ExpandLeafIndex == IndexInv /\ ExpandLeaf => IndexInv'
<1>. SUFFICES ASSUME IndexInv, ExpandLeaf PROVE IndexInv'
  OBVIOUS
<1>1. /\ Expanding /\ stack # <<>> /\ root' = root /\ t' = t /\ rt' = rt /\ file' = file
      /\ p' = p /\ needed' = needed
  BY DEF ExpandLeaf
<1>. DEFINE d == Head(stack).d
            n == Len(Template)
<1>2. /\ Template \in Seq(Node) /\ Listed \in Seq(Domain) /\ Whole \in Domain
      /\ WholeTree(Template) /\ stack \in Seq(Job(n)) /\ n \in Nat
      /\ Partition(Listed \o Pending(stack), Len(Listed \o Pending(stack)), Whole)
      /\ Limit \in Int /\ Len(Listed) + Len(stack) <= Limit
  BY <1>1, WhileExpanding
<1>3. TreesTyped
  BY DEF IndexInv
<1>4. CASE d.size[3] = 1 /\ LeafShape(d) /\ Len(Listed) < Limit
  <2>1. List(d) /\ stack' = Tail(stack) /\ phase' = phase
    BY <1>4 DEF ExpandLeaf
  <2>2. d \in Domain
    <3>1. Head(stack) \in Job(n)
      BY <1>1, <1>2
    <3>. QED BY <3>1 DEF Job
  <2>. HIDE DEF d
  <2>3. /\ Listed' = Append(Listed, d) /\ Template' = Template /\ Whole' = Whole
        /\ Limit' = Limit /\ Expanding'
        /\ phase = "expand" => index' = index
    <3>1. CASE phase = "expand"
      BY <1>1, <2>1, <3>1 DEF List, Listed, Template, Whole, Limit, Expanding
    <3>2. CASE phase = "reexpand"
      BY <1>1, <2>1, <3>2
         DEF List, Listed, Template, Whole, ReadRoot, Limit, LengthsThere, Expanding
    <3>. QED BY <1>1, <3>1, <3>2 DEF Expanding
  <2>4. TreesTyped'
    <3>1. Append(leaves, d) \in Seq(Domain) /\ Append(index, d) \in Seq(Domain)
          /\ leaves \in Seq(Domain) /\ index \in Seq(Domain)
      BY <1>3, <2>2 DEF TreesTyped
    <3>2. leaves' \in Seq(Domain) /\ index' \in Seq(Domain)
      BY <2>1, <3>1 DEF List
    <3>. QED BY <1>1, <1>3, <3>2 DEF TreesTyped
  <2>5. Append(Listed, d) \o Pending(Tail(stack)) = Listed \o Pending(stack)
    BY <1>1, <1>2, ListKeepsParcels DEF d
  <2>6. Parcels' = Listed \o Pending(stack)
    <3>1. Parcels' = Listed' \o Pending(stack')
      BY DEF Parcels, Pending
    <3>. QED BY <2>1, <2>3, <2>5, <3>1
  <2>7. Len(Listed') + Len(stack') <= Limit'
    <3>1. Len(Append(Listed, d)) = Len(Listed) + 1 /\ Len(Listed) \in Nat
      BY <1>2, <2>2
    <3>2. Len(Tail(stack)) = Len(stack) - 1 /\ Len(stack) \in Nat
      BY <1>1, <1>2
    <3>3. Len(Listed') = Len(Listed) + 1 /\ Len(stack') = Len(stack) - 1
      BY <2>1, <2>3, <3>1, <3>2
    <3>. QED BY <1>2, <2>3, <3>1, <3>2, <3>3
  <2>8. stack' \in Seq(Job(Len(Template')))
    <3>1. Tail(stack) \in Seq(Job(n))
      BY <1>1, <1>2
    <3>. QED BY <2>1, <2>3, <3>1
  <2>9. Dividing'
    <3>1. WholeTree(Template)' /\ Limit' \in Int
      BY <1>2, <2>3
    <3>2. Partition(Parcels', Len(Parcels'), Whole')
      BY <1>2, <2>3, <2>6
    <3>. QED BY <2>7, <2>8, <3>1, <3>2 DEF Dividing
  <2>. QED BY <1>1, <2>1, <2>3, <2>4, <2>9, ExpansionGoesOn
<1>5. CASE ~ (d.size[3] = 1 /\ LeafShape(d) /\ Len(Listed) < Limit)
  <2>1. ExpandFails
    BY <1>5 DEF ExpandLeaf
  <2>2. TreesTyped' /\ phase' \in {"refused", "rejected"}
    BY <1>1, <1>3, <2>1 DEF TreesTyped, ExpandFails
  <2>. QED BY <2>2, GivesUp
<1>. QED BY <1>4, <1>5

\* Dividing the domain on top of the stack keeps the partition and counts the parts as pending.
LEMMA ExpandNodeIndex == IndexInv /\ ExpandNode => IndexInv'
<1>. SUFFICES ASSUME IndexInv, ExpandNode PROVE IndexInv'
  OBVIOUS
<1>1. /\ Expanding /\ stack # <<>> /\ root' = root /\ t' = t /\ rt' = rt /\ file' = file
      /\ p' = p /\ needed' = needed
  BY DEF ExpandNode
<1>. DEFINE d == Head(stack).d
            i == Head(stack).node
            node == Template[i]
            n == Len(Template)
            parts == Parts(d, node)
            js == Jobs(d, i, Template)
<1>2. /\ Template \in Seq(Node) /\ Listed \in Seq(Domain) /\ Whole \in Domain
      /\ WholeTree(Template) /\ stack \in Seq(Job(n)) /\ n \in Nat
      /\ Partition(Listed \o Pending(stack), Len(Listed \o Pending(stack)), Whole)
      /\ Limit \in Int /\ Len(Listed) + Len(stack) <= Limit
  BY <1>1, WhileExpanding
<1>3. TreesTyped
  BY DEF IndexInv
<1>4. d \in Domain /\ i \in 1 .. n /\ node \in Node
  <2>1. Head(stack) \in Job(n)
    BY <1>1, <1>2
  <2>2. d \in Domain /\ i \in 1 .. n
    BY <2>1 DEF Job
  <2>. QED BY <1>2, <2>2
<1>5. node.tag # LeafTag
  BY DEF ExpandNode
<1>6. CASE Divides(d, node) /\ Fits(Len(parts))
  <2>1. /\ stack' = js \o Tail(stack) /\ phase' = phase /\ leaves' = leaves /\ index' = index
    BY <1>6 DEF ExpandNode
  <2>2. /\ js \in Seq(Job(n)) /\ Len(js) = Len(parts)
        /\ \A r \in 1 .. Len(parts) : js[r].d = parts[r]
    BY <1>2, <1>4, <1>5, <1>6, JobsFacts
  <2>3. parts \in Seq(Domain) /\ Partition(parts, Len(parts), d)
    BY <1>4, <1>6, PartsFacts
  <2>4. /\ Listed' = Listed /\ Template' = Template /\ Whole' = Whole
        /\ Limit' = Limit /\ Expanding'
    BY <1>1, <2>1
       DEF Listed, Template, Whole, ReadRoot, Limit, LengthsThere, Expanding
  <2>5. TreesTyped'
    BY <1>1, <1>3, <2>1 DEF TreesTyped
  <2>. HIDE DEF i, node, js, parts
  <2>6. LET Q == Listed \o Pending(js \o Tail(stack)) IN Partition(Q, Len(Q), Whole)
    <3>. HIDE DEF n
    <3>. QED BY <1>1, <1>2, <2>2, <2>3, ExpandKeepsPartition
  <2>7. Parcels' = Listed \o Pending(js \o Tail(stack))
    <3>1. Parcels' = Listed' \o Pending(stack')
      BY DEF Parcels, Pending
    <3>. QED BY <2>1, <2>4, <3>1
  <2>8. /\ js \o Tail(stack) \in Seq(Job(n))
        /\ Len(js \o Tail(stack)) = Len(js) + Len(Tail(stack))
    <3>. HIDE DEF n
    <3>1. Tail(stack) \in Seq(Job(n))
      BY <1>1, <1>2
    <3>. QED BY <2>2, <3>1
  <2>9. Len(Listed') + Len(stack') <= Limit'
    <3>1. Len(Listed) + Len(Tail(stack)) + Len(parts) <= Limit
      BY <1>6 DEF Fits
    <3>2. Len(Listed) \in Nat /\ Len(Tail(stack)) \in Nat /\ Len(js) \in Nat
      BY <1>1, <1>2, <2>2
    <3>3. Len(stack') = Len(js) + Len(Tail(stack)) /\ Len(Listed') = Len(Listed)
      BY <2>1, <2>4, <2>8
    <3>. QED BY <1>2, <2>2, <2>4, <3>1, <3>2, <3>3
  <2>10. stack' \in Seq(Job(Len(Template')))
    BY <2>1, <2>4, <2>8
  <2>11. Dividing'
    <3>1. WholeTree(Template)' /\ Limit' \in Int
      BY <1>2, <2>4
    <3>2. Partition(Parcels', Len(Parcels'), Whole')
      BY <2>4, <2>6, <2>7
    <3>. QED BY <2>9, <2>10, <3>1, <3>2 DEF Dividing
  <2>. QED BY <1>1, <2>1, <2>4, <2>5, <2>11, ExpansionGoesOn
<1>7. CASE ~ (Divides(d, node) /\ Fits(Len(parts)))
  <2>1. ExpandFails
    BY <1>7 DEF ExpandNode
  <2>2. TreesTyped' /\ phase' \in {"refused", "rejected"}
    BY <1>1, <1>3, <2>1 DEF TreesTyped, ExpandFails
  <2>. QED BY <2>2, GivesUp
<1>. QED BY <1>6, <1>7

\* The end of an expansion changes no list.
LEMMA FinishExpandIndex == IndexInv /\ FinishExpand => IndexInv'
BY DEF FinishExpand, IndexInv, TreesTyped, PlanKnown, ReaderFresh, FileKnown, SubtreesNeeded,
       Dividing, Expanding, Template

\* Encoding a leaf adds a length and moves no domain.
LEMMA EncodeLeafIndex == IndexInv /\ EncodeLeaf => IndexInv'
BY DEF EncodeLeaf, IndexInv, TreesTyped, PlanKnown, ReaderFresh, FileKnown, SubtreesNeeded,
       Dividing, Expanding

\* A header is as long as some integer says.
LEMMA HeaderIsInt ==
    ASSUME t \in Seq(Node), Len(lengths) \in Int, NEW wide \in BOOLEAN
    PROVE  HeaderBytes(wide) \in Int
<1>. DEFINE f == [i \in DOMAIN t |-> NodeBytes(wide, t[i])]
<1>1. DOMAIN f = 1 .. Len(t) /\ IsFiniteSet(1 .. Len(t))
  <2>1. Len(t) \in Nat /\ DOMAIN t = 1 .. Len(t)
    OBVIOUS
  <2>2. IsFiniteSet(1 .. Len(t))
    BY <2>1, FS_Interval
  <2>. QED BY <2>1, <2>2
<1>2. \A i \in 1 .. Len(t) : f[i] \in Int
  BY <1>1 DEF NodeBytes, ValueBytes
<1>3. SumFunction(f) = Sum(f, 1 .. Len(t))
  BY <1>1 DEF SumFunction, Sum
<1>. HIDE DEF f
<1>4. Sum(f, 1 .. Len(t)) \in Int
  BY <1>1, <1>2, SumIsNumber
<1>5. PrefixBytes(wide) \in Int /\ LengthBytes(wide) * Len(lengths) \in Int
  BY DEF PrefixBytes, LengthBytes
<1>6. HeaderBytes(wide) = PrefixBytes(wide) + SumFunction(f) + LengthBytes(wide) * Len(lengths)
  BY DEF HeaderBytes, f
<1>. QED BY <1>3, <1>4, <1>5, <1>6

\* A remainder and a stored value are integers.
LEMMA StoredIsInt ==
    ASSUME NEW wide \in BOOLEAN, NEW v \in Int
    PROVE  Stored(wide, v) \in Int /\ v % (NarrowHeader + 1) \in Int
<1>1. NarrowField \in Nat \ {0} /\ NarrowHeader + 1 \in Nat \ {0}
  BY NarrowAssumption
<1>2. \A x \in Int, k \in Nat \ {0} : x % k \in Int
  OBVIOUS
<1>3. v - 1 \in Int
  OBVIOUS
<1>4. (v - 1) % NarrowField \in Int
  BY <1>1, <1>2, <1>3
<1>5. v % (NarrowHeader + 1) \in Int
  <2>. DEFINE k == NarrowHeader + 1
  <2>1. k \in Nat \ {0}
    BY <1>1
  <2>. HIDE DEF k
  <2>2. v % k \in Int
    BY <1>2, <2>1
  <2>. QED BY <2>2 DEF k
<1>. QED BY <1>3, <1>4, <1>5 DEF Stored

\* The file holds the template and the lengths, in narrow fields only if all of them fit.
LEMMA WriteFileIndex == IndexInv /\ WriteFile => IndexInv'
<1>. SUFFICES ASSUME IndexInv, WriteFile PROVE IndexInv'
  OBVIOUS
<1>. DEFINE wide == ChosenWidth
            header == HeaderBytes(wide)
            head == IF wide THEN header ELSE header % (NarrowHeader + 1)
            Extent(a) == Stored(wide, root.size[a] \div Grain(a))
            shape == [a \in Axes |-> Extent(a)]
            Kept(i) == IF t[i].tag = LeafTag THEN t[i]
                       ELSE [tag |-> t[i].tag,
                             value |-> Stored(wide, t[i].value \div Scale(t[i].tag))]
            nodes == [i \in DOMAIN t |-> Kept(i)]
            stored == [i \in DOMAIN lengths |-> StoredLength(wide, lengths[i])]
            object == header + SumFunction(lengths)
<1>1. /\ phase = "encode" /\ Len(lengths) = Len(leaves) /\ phase' = "read"
      /\ p' = PrefixBytes(wide) /\ root' = root /\ t' = t /\ rt' = rt
      /\ leaves' = leaves /\ index' = index /\ needed' = needed
      /\ file' = [wide |-> wide, header |-> head, layout |-> layout, shape |-> shape,
                  nodes |-> nodes, lengths |-> stored, object |-> object]
  BY DEF WriteFile
<1>2. /\ TreesTyped /\ WholeTree(t) /\ rt = <<>> /\ index = <<>> /\ needed = 1
      /\ t \in Seq(Node) /\ root \in Roots /\ leaves \in Seq(Domain)
  BY <1>1 DEF IndexInv, TreesTyped, PlanKnown, ReaderFresh
<1>3. wide \in BOOLEAN
  BY DEF ChosenWidth, NeedsWide
<1>. HIDE DEF wide
<1>4. header \in Int
  <2>1. Len(lengths) \in Int
    BY <1>1, <1>2
  <2>. QED BY <1>2, <1>3, <2>1, HeaderIsInt
<1>. HIDE DEF header
<1>5. head \in Int
  BY <1>3, <1>4, StoredIsInt
<1>6. shape \in [Axes -> Int]
  <2>1. ASSUME NEW a \in Axes
        PROVE  Extent(a) \in Int
    <3>1. root.size[a] \in Int
      BY <1>2, RootFacts DEF Domain
    <3>2. Grain(a) \in Nat \ {0}
      BY UnitAssumption DEF Grain
    <3>3. \A x \in Int, k \in Nat \ {0} : x \div k \in Int
      OBVIOUS
    <3>4. root.size[a] \div Grain(a) \in Int
      BY <3>1, <3>2, <3>3
    <3>. QED BY <1>3, <3>4, StoredIsInt
  <2>. HIDE DEF Extent
  <2>. QED BY <2>1
<1>7. /\ nodes \in Seq(Node) /\ Len(nodes) = Len(t)
      /\ \A i \in 1 .. Len(t) : nodes[i].tag = t[i].tag
  <2>1. ASSUME NEW i \in 1 .. Len(t)
        PROVE  Kept(i) \in Node /\ Kept(i).tag = t[i].tag
    <3>1. t[i] \in Node /\ t[i].value \in Int /\ t[i].tag \in 0 .. LeafTag
      <4>1. t[i] \in Node
        BY <1>2
      <4>. QED BY <4>1 DEF Node
    <3>2. Scale(t[i].tag) \in Nat \ {0}
      BY UnitAssumption DEF Scale
    <3>3. \A x \in Int, k \in Nat \ {0} : x \div k \in Int
      OBVIOUS
    <3>. DEFINE v == t[i].value \div Scale(t[i].tag)
    <3>4. v \in Int
      BY <3>1, <3>2, <3>3
    <3>. HIDE DEF v
    <3>5. Stored(wide, v) \in Int
      BY <1>3, <3>4, StoredIsInt
    <3>6. Kept(i) = IF t[i].tag = LeafTag THEN t[i]
                    ELSE [tag |-> t[i].tag, value |-> Stored(wide, v)]
      BY DEF v
    <3>. HIDE DEF Kept
    <3>. QED BY <3>1, <3>5, <3>6 DEF Node
  <2>2. DOMAIN t = 1 .. Len(t) /\ Len(t) \in Nat
    BY <1>2
  <2>. HIDE DEF Kept
  <2>3. nodes \in [1 .. Len(t) -> Node] /\ \A i \in 1 .. Len(t) : nodes[i] = Kept(i)
    BY <2>1, <2>2
  <2>. HIDE DEF nodes
  <2>. QED BY <2>1, <2>2, <2>3
<1>. HIDE DEF head, shape, nodes, stored, object, Kept, Extent
<1>8. FileKnown'
  <2>1. p' \in Int
    BY <1>1 DEF PrefixBytes
  <2>2. file' \in [wide : BOOLEAN, header : Int, layout : {layout}, shape : [Axes -> Int],
                   nodes : Seq(Node), lengths : {stored}, object : {object}]
    BY <1>1, <1>3, <1>5, <1>6, <1>7
  <2>3. file'.layout = layout /\ file'.lengths = stored /\ file'.object = object
    BY <1>1
  <2>4. FileType' = [wide : BOOLEAN, header : Int, layout : {layout}, shape : [Axes -> Int],
                     nodes : Seq(Node), lengths : {stored}, object : {object}]
    BY <2>3 DEF FileType
  <2>. QED BY <2>1, <2>2, <2>4 DEF FileKnown
<1>9. SubtreesNeeded'
  <2>1. file'.nodes = nodes
    BY <1>1
  <2>2. \E c : Chain(t, c, 1, 1)
    BY <1>2, ChainStarts
  <2>3. Len(rt') + 1 = 1
    BY <1>1, <1>2
  <2>. QED BY <1>1, <1>2, <1>7, <2>1, <2>2, <2>3 DEF SubtreesNeeded
<1>. QED BY <1>1, <1>2, <1>8, <1>9
     DEF IndexInv, TreesTyped, PlanKnown, ReaderFresh, Dividing, Expanding

\* A damaged file still has its fields, and the tags of its nodes.
LEMMA DamageFileIndex == IndexInv /\ DamageFile => IndexInv'
<1>. SUFFICES ASSUME IndexInv, DamageFile PROVE IndexInv'
  OBVIOUS
<1>. DEFINE bytes == LengthBytes(file.wide)
            shorter == [file EXCEPT !.lengths = Tail(@), !.header = @ - bytes,
                                    !.object = @ - bytes]
            Other(i, v) == [file EXCEPT !.nodes[i].value = v]
<1>1. /\ phase = "read" /\ phase' = phase /\ root' = root /\ t' = t /\ rt' = rt
      /\ leaves' = leaves /\ index' = index /\ needed' = needed /\ p' = p
      /\ \/ file' = shorter
         \/ \E i \in DOMAIN file.nodes, v \in 0 .. NarrowField - 1 : file' = Other(i, v)
  BY DEF DamageFile
<1>2. /\ TreesTyped /\ WholeTree(t) /\ index = <<>> /\ p \in Int /\ file \in FileType
      /\ Len(file.nodes) = Len(t) /\ \A i \in 1 .. Len(t) : file.nodes[i].tag = t[i].tag
      /\ needed \in Nat /\ \E c : Chain(t, c, needed, Len(rt) + 1)
  BY <1>1 DEF IndexInv, TreesTyped, PlanKnown, ReaderFresh, FileKnown, SubtreesNeeded
<1>3. /\ file.wide \in BOOLEAN /\ file.header \in Int /\ file.shape \in [Axes -> Int]
      /\ file.nodes \in Seq(Node)
  BY <1>2 DEF FileType
<1>4. /\ file' \in FileType' /\ Len(file'.nodes) = Len(t)
      /\ \A i \in 1 .. Len(t) : file'.nodes[i].tag = t[i].tag
  <2>1. CASE file' = shorter
    <3>1. bytes \in Int
      BY DEF LengthBytes
    <3>. HIDE DEF bytes
    <3>2. file' = [wide |-> file.wide, header |-> file.header - bytes,
                   layout |-> file.layout, shape |-> file.shape, nodes |-> file.nodes,
                   lengths |-> Tail(file.lengths), object |-> file.object - bytes]
      BY <1>2, <2>1 DEF FileType
    <3>3. file.header - bytes \in Int
      BY <1>3, <3>1
    <3>4. file' \in FileType'
      BY <1>3, <3>2, <3>3 DEF FileType
    <3>. QED BY <1>2, <3>2, <3>4
  <2>2. CASE \E i \in DOMAIN file.nodes, v \in 0 .. NarrowField - 1 : file' = Other(i, v)
    <3>1. PICK i \in DOMAIN file.nodes, v \in 0 .. NarrowField - 1 : file' = Other(i, v)
      BY <2>2
    <3>. DEFINE nodes == [file.nodes EXCEPT ![i].value = v]
    <3>2. file' = [wide |-> file.wide, header |-> file.header, layout |-> file.layout,
                   shape |-> file.shape, nodes |-> nodes, lengths |-> file.lengths,
                   object |-> file.object]
      BY <1>2, <3>1 DEF FileType
    <3>3. /\ nodes \in Seq(Node) /\ Len(nodes) = Len(file.nodes)
          /\ \A k \in 1 .. Len(file.nodes) : nodes[k].tag = file.nodes[k].tag
      <4>. DEFINE l == Len(file.nodes)
                  new == [file.nodes[i] EXCEPT !.value = v]
      <4>1. l \in Nat /\ DOMAIN file.nodes = 1 .. l /\ v \in Int
        BY <1>3, NarrowAssumption
      <4>2. file.nodes[i] \in Node
        BY <1>3
      <4>3. new \in Node /\ new.tag = file.nodes[i].tag
        BY <4>1, <4>2 DEF Node
      <4>4. nodes = [file.nodes EXCEPT ![i] = new]
        OBVIOUS
      <4>. HIDE DEF nodes, new, l
      <4>5. nodes = [k \in 1 .. l |-> IF k = i THEN new ELSE file.nodes[k]]
        BY <4>1, <4>4
      <4>6. \A k \in 1 .. l : file.nodes[k] \in Node
        BY <1>3 DEF l
      <4>7. nodes \in [1 .. l -> Node] /\ \A k \in 1 .. l : nodes[k].tag = file.nodes[k].tag
        BY <4>1, <4>3, <4>5, <4>6
      <4>8. nodes \in Seq(Node) /\ Len(nodes) = l
        BY <4>1, <4>7
      <4>. QED BY <4>7, <4>8 DEF l
    <3>. HIDE DEF nodes
    <3>4. file' \in FileType'
      BY <1>3, <3>2, <3>3 DEF FileType
    <3>5. file'.nodes = nodes
      BY <3>2
    <3>. QED BY <1>2, <3>3, <3>4, <3>5
  <2>. QED BY <1>1, <2>1, <2>2
<1>. QED BY <1>1, <1>2, <1>4
     DEF IndexInv, TreesTyped, PlanKnown, ReaderFresh, FileKnown, SubtreesNeeded, Dividing,
         Expanding

\* The next node is one of the first subtree still needed.
LEMMA ReadNodeIndex == IndexInv /\ ReadNode => IndexInv'
<1>. SUFFICES ASSUME IndexInv, ReadNode PROVE IndexInv'
  OBVIOUS
<1>. DEFINE i == Len(rt) + 1
            node == file.nodes[i]
            more == needed - 1 + (IF node.tag = LeafTag THEN 0
                                  ELSE IF Cuts(node) THEN 2 ELSE 1)
            next == p + NodeBytes(file.wide, node)
            new == IF node.tag = LeafTag THEN node
                   ELSE [tag |-> node.tag, value |-> (node.value + 1) * Scale(node.tag)]
            fine == HeaderThere /\ next <= file.header /\ more <= file.header - next
<1>1. /\ phase = "read" /\ needed > 0 /\ root' = root /\ t' = t /\ file' = file
      /\ leaves' = leaves /\ index' = index
      /\ IF fine THEN rt' = Append(rt, new) /\ p' = next /\ needed' = more /\ phase' = phase
                 ELSE phase' = "rejected" /\ rt' = rt /\ p' = p /\ needed' = needed
  BY DEF ReadNode
<1>2. /\ TreesTyped /\ WholeTree(t) /\ index = <<>> /\ p \in Int /\ file \in FileType
      /\ Len(file.nodes) = Len(t) /\ \A k \in 1 .. Len(t) : file.nodes[k].tag = t[k].tag
      /\ needed \in Nat /\ \E c : Chain(t, c, needed, Len(rt) + 1)
      /\ t \in Seq(Node) /\ rt \in Seq(Node)
  BY <1>1 DEF IndexInv, TreesTyped, PlanKnown, ReaderFresh, FileKnown, SubtreesNeeded
<1>3. /\ file.wide \in BOOLEAN /\ file.header \in Int /\ file.nodes \in Seq(Node)
  BY <1>2 DEF FileType
<1>4. PICK c : Chain(t, c, needed, i)
  BY <1>2
<1>5. i \in 1 .. Len(t)
  <2>1. PICK m : m = needed - 1 + (IF t[i].tag = LeafTag THEN 0
                                   ELSE IF Cuts(t[i]) THEN 2 ELSE 1)
    OBVIOUS
  <2>. HIDE DEF i
  <2>. QED BY <1>1, <1>2, <1>4, <2>1, ChainStep
<1>6. node.tag = t[i].tag /\ node \in Node
  <2>. HIDE DEF i
  <2>. QED BY <1>2, <1>3, <1>5
<1>7. more \in Nat /\ \E c2 : Chain(t, c2, more, i + 1)
  <2>1. Cuts(node) <=> Cuts(t[i])
    BY <1>6 DEF Cuts
  <2>2. more = needed - 1 + (IF t[i].tag = LeafTag THEN 0
                             ELSE IF Cuts(t[i]) THEN 2 ELSE 1)
    BY <1>6, <2>1
  <2>. HIDE DEF i, more
  <2>. QED BY <1>1, <1>2, <1>4, <2>2, ChainStep
<1>8. new \in Node
  <2>. HIDE DEF node
  <2>1. node.value \in Int /\ node.tag \in 0 .. LeafTag
    BY <1>6 DEF Node
  <2>2. Scale(node.tag) \in Int
    BY UnitAssumption DEF Scale
  <2>. DEFINE v == (node.value + 1) * Scale(node.tag)
  <2>3. v \in Int
    BY <2>1, <2>2
  <2>. HIDE DEF v
  <2>. QED BY <1>6, <2>1, <2>3 DEF Node, v
<1>9. next \in Int
  <2>1. NodeBytes(file.wide, node) \in Int
    BY DEF NodeBytes, ValueBytes
  <2>. QED BY <1>2, <2>1
<1>. HIDE DEF node, more, next, new, fine
<1>10. CASE fine
  <2>1. rt' = Append(rt, new) /\ p' = next /\ needed' = more /\ phase' = "read"
    BY <1>1, <1>10
  <2>2. rt' \in Seq(Node) /\ Len(rt') = i
    BY <1>2, <1>8, <2>1
  <2>3. TreesTyped'
    BY <1>1, <1>2, <2>2 DEF TreesTyped
  <2>4. FileType' = FileType
    BY <1>1 DEF FileType
  <2>5. FileKnown'
    BY <1>1, <1>2, <1>9, <2>1, <2>4 DEF FileKnown
  <2>6. SubtreesNeeded'
    BY <1>1, <1>2, <1>7, <2>1, <2>2 DEF SubtreesNeeded
  <2>. QED BY <1>1, <1>2, <2>1, <2>3, <2>5, <2>6
       DEF IndexInv, PlanKnown, ReaderFresh, Dividing, Expanding
<1>11. CASE ~ fine
  <2>1. phase' = "rejected" /\ TreesTyped'
    BY <1>1, <1>2, <1>11 DEF TreesTyped
  <2>. QED BY <2>1, GivesUp
<1>. QED BY <1>10, <1>11

\* The reader expands what it has read from the root of the file.
LEMMA FinishReadIndex == IndexInv /\ FinishRead => IndexInv'
<1>. SUFFICES ASSUME IndexInv, FinishRead PROVE IndexInv'
  OBVIOUS
<1>1. /\ phase = "read" /\ rt' = rt /\ leaves' = leaves /\ index' = index
      /\ root' = root /\ t' = t /\ file' = file /\ p' = p
  BY DEF FinishRead
<1>2. /\ TreesTyped' /\ index = <<>> /\ rt \in Seq(Node) /\ p \in Int /\ file \in FileType
  BY <1>1 DEF IndexInv, TreesTyped, ReaderFresh, FileKnown
<1>. DEFINE there == /\ WholeTree(rt)
                     /\ (file.header - p) % LengthBytes(file.wide) = 0 /\ LengthsThere > 0
<1>3. CASE there
  <2>1. phase' = "reexpand" /\ stack' = <<[d |-> ReadRoot, node |-> 1]>>
    BY <1>3 DEF FinishRead
  <2>2. /\ Expanding' /\ Listed' = <<>> /\ WholeTree(Template)' /\ Template' \in Seq(Node)
        /\ Whole' = ReadRoot
    <3>1. WholeTree(rt)
      BY <1>3
    <3>. HIDE DEF there
    <3>. QED BY <1>1, <1>2, <2>1, <3>1 DEF Expanding, Listed, Template, Whole, ReadRoot
  <2>3. ReadRoot \in Domain
    <3>1. file.shape \in [Axes -> Int]
      BY <1>2 DEF FileType
    <3>2. \A a \in Axes : Grain(a) \in Int
      BY UnitAssumption DEF Grain
    <3>3. \A a \in Axes : (file.shape[a] + 1) * Grain(a) \in Int
      BY <3>1, <3>2
    <3>. QED BY <3>3 DEF ReadRoot, Domain
  <2>4. Limit' \in Int /\ Limit' >= 1
    <3>1. Limit' = LengthsThere
      BY <1>1, <2>1 DEF Limit, LengthsThere
    <3>2. file.header - p \in Int /\ LengthBytes(file.wide) \in Nat \ {0}
      BY <1>2 DEF FileType, LengthBytes
    <3>3. \A x \in Int, k \in Nat \ {0} : x \div k \in Int
      OBVIOUS
    <3>4. LengthsThere \in Int
      BY <3>2, <3>3 DEF LengthsThere
    <3>5. LengthsThere > 0
      BY <1>3
    <3>. QED BY <3>1, <3>4, <3>5
  <2>5. Dividing'
    <3>. HIDE DEF there
    <3>. QED BY <2>1, <2>2, <2>3, <2>4, StartDividing
  <2>6. FileKnown'
    BY <1>1, <1>2 DEF FileKnown, FileType
  <2>. QED BY <1>2, <2>1, <2>5, <2>6
       DEF IndexInv, PlanKnown, ReaderFresh, SubtreesNeeded
<1>4. CASE ~ there
  <2>1. phase' = "rejected"
    BY <1>4 DEF FinishRead
  <2>. QED BY <1>2, <2>1, GivesUp
<1>. QED BY <1>3, <1>4

\* The index is accepted or the file is given up.
LEMMA FinishIndexIndex == IndexInv /\ FinishIndex => IndexInv'
<1>. SUFFICES ASSUME IndexInv, FinishIndex PROVE IndexInv'
  OBVIOUS
<1>1. TreesTyped' /\ phase' \in {"decode", "rejected"}
  BY DEF FinishIndex, IndexInv, TreesTyped
<1>. QED BY <1>1, GivesUp

\* Decoding a leaf touches the output only.
LEMMA DecodeLeafIndex == IndexInv /\ DecodeLeaf => IndexInv'
<1>. SUFFICES ASSUME IndexInv, DecodeLeaf PROVE IndexInv'
  OBVIOUS
<1>1. TreesTyped' /\ phase' \in {"decode", "done", "rejected"}
  BY DEF DecodeLeaf, IndexInv, TreesTyped
<1>. QED BY <1>1, GivesUp

\* A step that changes nothing keeps everything.
LEMMA StutterIndex == IndexInv /\ UNCHANGED vars => IndexInv'
BY DEF vars, IndexInv, TreesTyped, PlanKnown, ReaderFresh, FileKnown, FileType, SubtreesNeeded,
       Dividing, Expanding, Template, Listed, Parcels, Whole, ReadRoot, Limit, LengthsThere

\* Every step keeps the invariant.
LEMMA NextIndex == IndexInv /\ [Next]_vars => IndexInv'
<1>. SUFFICES ASSUME IndexInv, [Next]_vars PROVE IndexInv'
  OBVIOUS
<1>. QED
  BY PlanNodeIndex, PlanMiscountsIndex, FinishPlanIndex, ExpandLeafIndex, ExpandNodeIndex,
     FinishExpandIndex, EncodeLeafIndex, WriteFileIndex, DamageFileIndex, ReadNodeIndex,
     FinishReadIndex, FinishIndexIndex, DecodeLeafIndex, StutterIndex, ZenonT(60)
  DEF Next

-----------------------------------------------------------------------------
\* Trees, leaves and file are what they should be at every step of either side, and
\* an expansion's parcels divide its root within its limit (plan_tree, finish_tree,
\* expand, vc_index_read).
THEOREM IndexInvariant == Spec => []IndexInv
BY InitIndex, NextIndex, PTL DEF Spec

\* Whatever the caller's template asks for, and whatever a damaged file does, the
\* leaves listed so far and the domains still to expand are disjoint, lie in the root
\* and add up to its volume: expand loses no voxel and codes none twice.
THEOREM ExpansionAlwaysPartitions == Spec => []ExpansionPartitions
<1>1. IndexInv => ExpansionPartitions
  <2>. SUFFICES ASSUME IndexInv, Expanding
                PROVE  /\ \A i, j \in DOMAIN Parcels : i # j => Disjoint(Parcels[i], Parcels[j])
                       /\ \A i \in DOMAIN Parcels : Inside(Parcels[i], Whole)
                       /\ SumFunction([i \in DOMAIN Parcels |-> Volume(Parcels[i])])
                          = Volume(Whole)
    BY DEF ExpansionPartitions, Whole
  <2>1. Partition(Parcels, Len(Parcels), Whole)
    BY DEF IndexInv, Dividing
  <2>2. DOMAIN Parcels = 1 .. Len(Parcels)
    <3>1. Parcels = Listed \o Pending(stack)
      BY DEF Parcels, Pending
    <3>2. Parcels \in Seq(Domain)
      BY <3>1, WhileExpanding, ParcelsFacts
    <3>. QED BY <3>2
  <2>. DEFINE f == [i \in DOMAIN Parcels |-> Volume(Parcels[i])]
  <2>3. SumFunction(f) = Sum(f, DOMAIN Parcels)
    BY DEF SumFunction, Sum
  <2>4. f = Volumes(Parcels, Len(Parcels))
    BY <2>2 DEF Volumes
  <2>. QED BY <2>1, <2>2, <2>3, <2>4 DEF Partition
<1>. QED BY <1>1, IndexInvariant, PTL

\* Leaves and pending domains never outnumber the limit: the unit cubes of the root
\* for the writer, the lengths in the header for the reader.
THEOREM ExpansionStaysBounded == Spec => []ExpansionBounded
<1>1. IndexInv => ExpansionBounded
  BY DEF IndexInv, Dividing, ExpansionBounded
<1>. QED BY <1>1, IndexInvariant, PTL

-----------------------------------------------------------------------------
(* Numbers in mixed radix.                                                 *)

\* What quotient and remainder are.
LEMMA DivisionFacts ==
    ASSUME NEW v \in Nat, NEW d \in Nat \ {0}
    PROVE  /\ v \div d \in Nat /\ v % d \in Nat /\ v % d < d
           /\ v = d * (v \div d) + (v % d)
<1>1. \A u \in Int, k \in Nat \ {0} :
          u = k * (u \div k) + (u % k) /\ u % k \in 0 .. k - 1 /\ u \div k \in Int
  OBVIOUS
<1>2. v = d * (v \div d) + (v % d) /\ v % d \in 0 .. d - 1 /\ v \div d \in Int
  BY <1>1
<1>. DEFINE q == v \div d
            r == v % d
<1>3. q \in Int /\ r \in 0 .. d - 1 /\ v = d * q + r
  BY <1>2
<1>. HIDE DEF q, r
<1>4. q >= 0
  <2>. SUFFICES ASSUME q < 0 PROVE FALSE
    BY <1>3
  <2>1. PICK c \in Nat : q = - 1 - c
    <3>1. - 1 - q \in Nat /\ q = - 1 - (- 1 - q)
      BY <1>3
    <3>. QED BY <3>1
  <2>2. d * q = - d - d * c /\ d * c \in Nat
    BY <2>1
  <2>. QED BY <1>3, <2>2
<1>. QED BY <1>3, <1>4 DEF q, r

\* The quotient is the one number between whose multiples the dividend lies.
LEMMA DivisionUnique ==
    ASSUME NEW v \in Nat, NEW d \in Nat \ {0}, NEW q \in Nat, d * q <= v, v < d * q + d
    PROVE  v \div d = q /\ v % d = v - d * q
<1>. DEFINE m == v \div d
            r == v % d
<1>1. m \in Nat /\ r \in Nat /\ r < d /\ v = d * m + r
  BY DivisionFacts
<1>. HIDE DEF m, r
<1>2. CASE m < q
  <2>1. m + 1 <= q
    BY <1>1, <1>2
  <2>2. PICK c \in Nat : q = m + 1 + c
    <3>1. q - (m + 1) \in Nat /\ q = m + 1 + (q - (m + 1))
      BY <1>1, <2>1
    <3>. QED BY <3>1
  <2>3. d * q = d * m + d + d * c /\ d * c \in Nat
    BY <1>1, <2>2
  <2>. QED BY <1>1, <2>3
<1>3. CASE m > q
  <2>1. PICK c \in Nat : m = q + 1 + c
    <3>1. m - (q + 1) \in Nat /\ m = q + 1 + (m - (q + 1))
      BY <1>1, <1>3
    <3>. QED BY <3>1
  <2>2. d * m = d * q + d + d * c /\ d * c \in Nat
    BY <1>1, <2>1
  <2>. QED BY <1>1, <2>2
<1>4. m = q => r = v - d * q
  BY <1>1
<1>. QED BY <1>1, <1>2, <1>3, <1>4 DEF m, r

\* A number below m * n, and its two digits.
Below(v, m, n) == v < m * n
TwoDigits(v, m, n) == \E h \in Nat, l \in Nat : h < m /\ l < n /\ v = h * n + l

\* Two digits make up each number below the product of their bounds.
LEMMA Digits ==
    ASSUME NEW m \in Nat, NEW n \in Nat \ {0}, NEW v \in Nat, Below(v, m, n)
    PROVE  TwoDigits(v, m, n)
<1>. USE DEF Below, TwoDigits
<1>. DEFINE h == v \div n
            l == v % n
<1>1. h \in Nat /\ l \in Nat /\ l < n /\ v = n * h + l
  BY DivisionFacts
<1>. HIDE DEF h, l
<1>2. n * h = h * n /\ n * h \in Nat
  BY <1>1
<1>3. h < m
  <2>. SUFFICES ASSUME h >= m PROVE FALSE
    BY <1>1
  <2>1. PICK c \in Nat : h = m + c
    <3>1. h - m \in Nat /\ h = m + (h - m)
      BY <1>1
    <3>. QED BY <3>1
  <2>2. n * h = m * n + n * c /\ n * c \in Nat
    BY <2>1
  <2>. QED BY <1>1, <2>2
<1>. QED BY <1>1, <1>2, <1>3

\* Rows of sx, planes of sy rows: voxel <<z, y, w>> of a box is its i-th.
Counts(i, z, y, w, sy, sx) == i = (z * sy + y) * sx + w

\* The i-th voxel of a box of such rows and planes is voxel <<z, y, w>>.
Finds(i, z, y, w, sy, sx) ==
    i \div (sy * sx) = z /\ (i \div sx) % sy = y /\ i % sx = w

\* Counting voxels and finding them again.
LEMMA CountedIsFound ==
    ASSUME NEW sz \in Nat, NEW sy \in Nat \ {0}, NEW sx \in Nat \ {0},
           NEW z \in Nat, NEW y \in Nat, NEW w \in Nat, z < sz, y < sy, w < sx,
           NEW i, Counts(i, z, y, w, sy, sx)
    PROVE  i \in Nat /\ i < sz * sy * sx /\ Finds(i, z, y, w, sy, sx)
<1>. DEFINE h == z * sy + y
            plane == sy * sx
<1>1. i = h * sx + w /\ h \in Nat
  BY DEF Counts
<1>2. plane \in Nat \ {0}
  <2>1. PICK u, v \in Nat : sy = u + 1 /\ sx = v + 1
    <3>1. sy - 1 \in Nat /\ sx - 1 \in Nat /\ sy = (sy - 1) + 1 /\ sx = (sx - 1) + 1
      OBVIOUS
    <3>. QED BY <3>1
  <2>2. sy * sx = u * v + u + v + 1 /\ u * v \in Nat
    BY <2>1
  <2>. QED BY <2>1, <2>2
<1>3. h \div sy = z /\ h % sy = y
  <2>1. sy * z = z * sy /\ z * sy \in Nat
    OBVIOUS
  <2>2. sy * z <= h /\ h < sy * z + sy /\ h - sy * z = y
    BY <2>1
  <2>. HIDE DEF h
  <2>3. h \div sy = z /\ h % sy = h - sy * z
    BY <1>1, <2>2, DivisionUnique
  <2>. QED BY <2>2, <2>3
<1>4. i \in Nat
  <2>1. h * sx \in Nat
    BY <1>1
  <2>. QED BY <1>1, <2>1
<1>5. i \div sx = h /\ i % sx = w
  <2>. HIDE DEF h
  <2>1. sx * h = h * sx /\ h * sx \in Nat
    BY <1>1
  <2>2. sx * h <= i /\ i < sx * h + sx /\ i - sx * h = w
    BY <1>1, <2>1
  <2>3. i \div sx = h /\ i % sx = i - sx * h
    BY <1>1, <1>4, <2>2, DivisionUnique
  <2>. QED BY <2>2, <2>3
<1>6. y * sx + w \in Nat /\ y * sx + w < plane
  <2>1. PICK u \in Nat : sy = y + 1 + u
    <3>1. sy - (y + 1) \in Nat /\ sy = y + 1 + (sy - (y + 1))
      OBVIOUS
    <3>. QED BY <3>1
  <2>2. sy * sx = y * sx + sx + u * sx /\ u * sx \in Nat /\ y * sx \in Nat
    BY <2>1
  <2>. QED BY <2>2
<1>7. i = plane * z + (y * sx + w) /\ plane * z \in Nat
  <2>1. h * sx = plane * z + y * sx /\ plane * z \in Nat /\ y * sx \in Nat
    OBVIOUS
  <2>. HIDE DEF h, plane
  <2>. QED BY <1>1, <2>1
<1>8. i \div plane = z
  <2>. HIDE DEF plane, h
  <2>1. plane * z <= i /\ i < plane * z + plane
    BY <1>2, <1>6, <1>7
  <2>. QED BY <1>2, <1>4, <2>1, DivisionUnique
<1>9. i < sz * sy * sx
  <2>1. PICK u \in Nat : sz = z + 1 + u
    <3>1. sz - (z + 1) \in Nat /\ sz = z + 1 + (sz - (z + 1))
      OBVIOUS
    <3>. QED BY <3>1
  <2>2. sz * sy * sx = plane * z + plane + plane * u
    BY <2>1
  <2>. HIDE DEF plane, h
  <2>3. plane * u \in Nat
    BY <1>2
  <2>4. sz * sy * sx \in Nat
    OBVIOUS
  <2>. QED BY <1>2, <1>6, <1>7, <2>2, <2>3, <2>4
<1>. HIDE DEF h
<1>. QED BY <1>3, <1>4, <1>5, <1>8, <1>9 DEF Finds, plane

-----------------------------------------------------------------------------
(* Places.                                                                 *)

\* A point of a domain, and its address in a volume r of the given layout.
Holds(d, q) == \A a \in Axes : d.at[a] <= q[a] /\ q[a] < d.at[a] + d.size[a]

Address(lay, r, q) ==
    LET n == (q[0] * r.size[1] + q[1]) * r.size[2] + q[2]
        field == r.size[0] * r.size[1] * r.size[2]
    IN IF lay = 0 THEN n + q[3] * field ELSE n * r.size[3] + q[3]

\* A volume: it begins at 0 and is not empty.
Volumetric(r) == r \in Domain /\ \A a \in Axes : r.at[a] = 0 /\ r.size[a] >= 1

\* Every address in a volume is the address of a point.
LEMMA AddressReached ==
    ASSUME NEW lay, NEW r, Volumetric(r), NEW x \in 0 .. Volume(r) - 1
    PROVE  \E q \in [Axes -> Int] : Holds(r, q) /\ Address(lay, r, q) = x
<1>. DEFINE sz == r.size[0]
            sy == r.size[1]
            sx == r.size[2]
            sc == r.size[3]
            field == sz * sy * sx
<1>1. sz \in Nat \ {0} /\ sy \in Nat \ {0} /\ sx \in Nat \ {0} /\ sc \in Nat \ {0}
  BY DEF Volumetric, Domain, Axes
<1>2. /\ x \in Nat /\ x < sz * sy * sx * sc
      /\ sz * sy * sx * sc = sc * (sz * sy * sx)
  <2>1. Volume(r) = sz * sy * sx * sc
    BY DEF Volume
  <2>. HIDE DEF sz, sy, sx, sc
  <2>2. sz * sy * sx * sc = sc * (sz * sy * sx) /\ sz * sy * sx * sc \in Nat
    BY <1>1
  <2>. QED BY <2>1, <2>2
<1>3. \E c \in Nat, n \in Nat :
          c < sc /\ n < field /\ x = IF lay = 0 THEN n + c * field ELSE n * sc + c
  <2>. HIDE DEF sz, sy, sx, sc
  <2>1. sz * sy \in Nat \ {0}
    <3>1. PICK u, v \in Nat : sz = u + 1 /\ sy = v + 1
      <4>1. sz - 1 \in Nat /\ sy - 1 \in Nat /\ sz = (sz - 1) + 1 /\ sy = (sy - 1) + 1
        BY <1>1
      <4>. QED BY <4>1
    <3>2. sz * sy = u * v + u + v + 1 /\ u * v \in Nat
      BY <3>1
    <3>. QED BY <3>1, <3>2
  <2>2. field \in Nat \ {0}
    <3>1. PICK u, v \in Nat : sz * sy = u + 1 /\ sx = v + 1
      <4>1. sz * sy - 1 \in Nat /\ sx - 1 \in Nat /\ sz * sy = (sz * sy - 1) + 1
            /\ sx = (sx - 1) + 1
        BY <1>1, <2>1
      <4>. QED BY <4>1
    <3>2. (u + 1) * (v + 1) = u * v + u + v + 1 /\ u * v \in Nat
      OBVIOUS
    <3>. QED BY <3>1, <3>2
  <2>. HIDE DEF field
  <2>3. x < sc * field
    BY <1>2 DEF field
  <2>4. CASE lay = 0
    <3>. HIDE DEF field
    <3>1. Below(x, sc, field)
      BY <2>3 DEF Below
    <3>2. TwoDigits(x, sc, field)
      BY <1>1, <1>2, <2>2, <3>1, Digits
    <3>3. PICK c \in Nat, n \in Nat : c < sc /\ n < field /\ x = c * field + n
      BY <3>2 DEF TwoDigits
    <3>4. x = n + c * field
      <4>1. c * field \in Nat
        BY <2>2
      <4>. QED BY <3>3, <4>1
    <3>. QED BY <2>4, <3>3, <3>4
  <2>5. CASE lay # 0
    <3>1. x < field * sc
      <4>1. field * sc = sc * field
        BY <1>1, <2>2
      <4>. QED BY <2>3, <4>1
    <3>2. Below(x, field, sc)
      BY <3>1 DEF Below
    <3>3. TwoDigits(x, field, sc)
      BY <1>1, <1>2, <2>2, <3>2, Digits
    <3>4. PICK n \in Nat, c \in Nat : n < field /\ c < sc /\ x = n * sc + c
      BY <3>3 DEF TwoDigits
    <3>. QED BY <2>5, <3>4
  <2>. QED BY <2>4, <2>5
<1>4. PICK c \in Nat, n \in Nat :
          c < sc /\ n < field /\ x = IF lay = 0 THEN n + c * field ELSE n * sc + c
  BY <1>3
<1>5. PICK h \in Nat, w \in Nat : h < sz * sy /\ w < sx /\ n = h * sx + w
  <2>. HIDE DEF sz, sy, sx, sc
  <2>1. sz * sy \in Nat /\ n < (sz * sy) * sx
    BY <1>1, <1>4
  <2>2. PICK k \in Nat : k = sz * sy
    BY <2>1
  <2>3. Below(n, k, sx)
    BY <2>1, <2>2 DEF Below
  <2>4. TwoDigits(n, k, sx)
    BY <1>1, <2>2, <2>3, Digits
  <2>. QED BY <2>2, <2>4 DEF TwoDigits
<1>6. PICK z \in Nat, y \in Nat : z < sz /\ y < sy /\ h = z * sy + y
  <2>. HIDE DEF sz, sy, sx, sc
  <2>1. Below(h, sz, sy)
    BY <1>5 DEF Below
  <2>2. TwoDigits(h, sz, sy)
    BY <1>1, <2>1, Digits
  <2>. QED BY <2>2 DEF TwoDigits
<1>. DEFINE q == [a \in Axes |-> CASE a = 0 -> z [] a = 1 -> y [] a = 2 -> w [] OTHER -> c]
<1>7. q \in [Axes -> Int] /\ q[0] = z /\ q[1] = y /\ q[2] = w /\ q[3] = c
  BY DEF Axes
<1>. HIDE DEF q
<1>8. Holds(r, q)
  <2>1. \A a \in Axes : a = 0 \/ a = 1 \/ a = 2 \/ a = 3
    BY DEF Axes
  <2>2. \A a \in Axes : r.at[a] = 0 /\ r.size[a] \in Int
    BY DEF Volumetric, Domain
  <2>3. \A a \in Axes : 0 <= q[a] /\ q[a] < r.size[a]
    BY <1>1, <1>4, <1>5, <1>6, <1>7, <2>1
  <2>. QED BY <2>2, <2>3 DEF Holds
<1>9. Address(lay, r, q) = x
  <2>1. (q[0] * r.size[1] + q[1]) * r.size[2] + q[2] = n
    BY <1>5, <1>6, <1>7
  <2>. HIDE DEF sz, sy, sx
  <2>. QED BY <1>4, <1>7, <2>1 DEF Address, sz, sy, sx
<1>. QED BY <1>7, <1>8, <1>9

\* A leaf that holds a point of the volume puts a voxel at its address.
LEMMA PlaceReached ==
    ASSUME NEW lay, NEW r \in Domain, NEW d \in Domain, d.size[3] = 1,
           NEW q \in [Axes -> Int], Holds(d, q)
    PROVE  \E i \in 0 .. Volume(d) - 1 : Place(lay, r, d, i) = Address(lay, r, q)
<1>. DEFINE z == q[0] - d.at[0]
            y == q[1] - d.at[1]
            w == q[2] - d.at[2]
            sz == d.size[0]
            sy == d.size[1]
            sx == d.size[2]
            field == r.size[0] * r.size[1] * r.size[2]
<1>1. /\ \A a \in Axes :
            d.at[a] \in Int /\ d.size[a] \in Int /\ q[a] \in Int /\ r.size[a] \in Int
      /\ 0 \in Axes /\ 1 \in Axes /\ 2 \in Axes /\ 3 \in Axes
  BY DEF Domain, Axes
<1>2. /\ z \in Nat /\ y \in Nat /\ w \in Nat /\ z < sz /\ y < sy /\ w < sx
      /\ sz \in Nat /\ sy \in Nat \ {0} /\ sx \in Nat \ {0}
      /\ q[3] = d.at[3]
  BY <1>1 DEF Holds
<1>3. q[0] = d.at[0] + z /\ q[1] = d.at[1] + y /\ q[2] = d.at[2] + w
  BY <1>1
<1>. HIDE DEF z, y, w
<1>4. PICK i : i = (z * sy + y) * sx + w
  OBVIOUS
<1>5. i \in Nat /\ i < sz * sy * sx /\ Finds(i, z, y, w, sy, sx)
  <2>1. Counts(i, z, y, w, sy, sx)
    BY <1>4 DEF Counts
  <2>. HIDE DEF sz, sy, sx
  <2>. QED BY <1>2, <2>1, CountedIsFound
<1>6. i \in 0 .. Volume(d) - 1
  <2>1. Volume(d) = sz * sy * sx * 1
    BY DEF Volume
  <2>. HIDE DEF sz, sy, sx
  <2>2. Volume(d) = sz * sy * sx /\ sz * sy * sx \in Nat
    BY <1>2, <2>1
  <2>. QED BY <1>5, <2>2
<1>7. /\ i \div (d.size[1] * d.size[2]) = z
      /\ (i \div d.size[2]) % d.size[1] = y
      /\ i % d.size[2] = w
  BY <1>5 DEF Finds
<1>. DEFINE p0 == (q[0] * r.size[1] + q[1]) * r.size[2] + q[2]
            whole == \A a \in 0 .. 2 : d.at[a] = 0 /\ d.size[a] = r.size[a]
<1>8. Place(lay, r, d, i) =
          IF lay = 0 /\ whole THEN d.at[3] * field + i
          ELSE IF lay = 0 THEN p0 + d.at[3] * field
          ELSE p0 * r.size[3] + d.at[3]
  <2>. HIDE DEF z, y, w
  <2>. QED BY <1>3, <1>7 DEF Place
<1>9. Address(lay, r, q) =
          IF lay = 0 THEN p0 + d.at[3] * field ELSE p0 * r.size[3] + d.at[3]
  BY <1>2 DEF Address
<1>10. whole => i = p0
  <2>. SUFFICES ASSUME whole PROVE i = p0
    OBVIOUS
  <2>1. q[0] = z /\ q[1] = y /\ q[2] = w /\ sy = r.size[1] /\ sx = r.size[2]
    <3>1. \A a \in 0 .. 2 : a \in Axes
      BY DEF Axes
    <3>2. d.at[0] = 0 /\ d.at[1] = 0 /\ d.at[2] = 0 /\ sy = r.size[1] /\ sx = r.size[2]
      OBVIOUS
    <3>. QED BY <1>2, <1>3, <3>2
  <2>. QED BY <1>4, <2>1
<1>11. p0 + d.at[3] * field = d.at[3] * field + p0
  <2>1. p0 \in Int
    BY <1>1
  <2>2. d.at[3] * field \in Int
    BY <1>1
  <2>. HIDE DEF p0, field
  <2>. QED BY <2>1, <2>2
<1>. HIDE DEF p0, whole, field
<1>. QED BY <1>6, <1>8, <1>9, <1>10, <1>11

\* Some domain of P holds the point; all points of r; a domain of r has one channel
\* and puts a voxel at x.
Reaches(P, q) == \E i \in 1 .. Len(P) : Holds(P[i], q)
Covers(P, r) == \A q \in [Axes -> Int] : Holds(r, q) => Reaches(P, q)
Single(P) == \A i \in 1 .. Len(P) : P[i].size[3] = 1
Puts(lay, r, d, x) == \E i \in 0 .. Volume(d) - 1 : Place(lay, r, d, i) = x

\* Leaves that hold all points of a volume between them reach all its addresses.
LEMMA AllReached ==
    ASSUME NEW lay, NEW r, Volumetric(r), NEW s \in Seq(Domain), Single(s), Covers(s, r),
           NEW x \in 0 .. Volume(r) - 1
    PROVE  \E k \in 1 .. Len(s) : Puts(lay, r, s[k], x)
<1>1. PICK q \in [Axes -> Int] : Holds(r, q) /\ Address(lay, r, q) = x
  BY AddressReached
<1>2. PICK k \in 1 .. Len(s) : Holds(s[k], q)
  BY <1>1 DEF Covers, Reaches
<1>3. PICK d \in Domain : d = s[k]
  OBVIOUS
<1>4. r \in Domain /\ d.size[3] = 1 /\ Holds(d, q)
  BY <1>2, <1>3 DEF Volumetric, Single
<1>5. \E i \in 0 .. Volume(d) - 1 : Place(lay, r, d, i) = Address(lay, r, q)
  BY <1>4, PlaceReached
<1>. QED BY <1>1, <1>3, <1>5 DEF Puts

-----------------------------------------------------------------------------
(* What the file says of an undamaged plan.                                *)

\* The value of a node is at least one whole unit of what it is counted in.
Exact(node) ==
    node.tag # LeafTag =>
        node.value \in Nat /\ node.value >= 1 /\ node.value % Scale(node.tag) = 0

PlanExact == \A i \in 1 .. Len(t) : Exact(t[i])

\* What divides a domain is exact.
LEMMA PlannableIsExact ==
    ASSUME NEW d \in Domain, NEW node \in Node, Plannable(d, node)
    PROVE  Exact(node)
<1>. SUFFICES ASSUME node.tag # LeafTag
              PROVE  node.value \in Nat /\ node.value >= 1 /\ node.value % Scale(node.tag) = 0
  BY DEF Exact
<1>1. node.tag \in 0 .. 7 /\ node.value \in Int /\ Divides(d, node)
  BY DEF Node, LeafTag, Plannable
<1>2. CASE Cuts(node)
  <2>1. node.tag \in 0 .. 3
    BY <1>1, <1>2 DEF Cuts
  <2>2. AxisOf(node) = node.tag
    <3>1. \A x \in 0 .. 3 : x % 4 = x
      OBVIOUS
    <3>. QED BY <2>1, <3>1 DEF AxisOf
  <2>3. Grain(node.tag) = Scale(node.tag)
    BY <2>1 DEF Grain, Scale
  <2>4. node.value > 0 /\ node.value % Grain(AxisOf(node)) = 0
    BY <1>1, <1>2 DEF Divides
  <2>5. node.value % Scale(node.tag) = 0
    BY <2>2, <2>3, <2>4
  <2>. QED BY <1>1, <2>4, <2>5
<1>3. CASE ~ Cuts(node)
  <2>1. node.value >= 2 /\ Scale(node.tag) = 1
    BY <1>1, <1>3 DEF Cuts, Divides, Scale
  <2>2. \A x \in Int : x % 1 = 0
    OBVIOUS
  <2>. QED BY <1>1, <2>1, <2>2
<1>. QED BY <1>2, <1>3

\* Only planning changes the tree, and no step the root or its layout.
LEMMA WhoPlans ==
    ASSUME [Next]_vars
    PROVE  /\ UNCHANGED <<root, layout>>
           /\ PlanNode \/ t' = t
<1>1. CASE PlanNode
  BY <1>1 DEF PlanNode
<1>2. CASE PlanMiscounts \/ FinishPlan
  BY <1>2 DEF PlanMiscounts, FinishPlan
<1>3. CASE ExpandLeaf \/ ExpandNode \/ FinishExpand
  BY <1>3 DEF ExpandLeaf, ExpandNode, FinishExpand
<1>4. CASE EncodeLeaf \/ WriteFile \/ DamageFile
  BY <1>4 DEF EncodeLeaf, WriteFile, DamageFile
<1>5. CASE ReadNode \/ FinishRead \/ FinishIndex \/ DecodeLeaf
  BY <1>5 DEF ReadNode, FinishRead, FinishIndex, DecodeLeaf
<1>6. CASE UNCHANGED vars
  BY <1>6 DEF vars
<1>. QED BY <1>1, <1>2, <1>3, <1>4, <1>5, <1>6 DEF Next

\* Every planned node is exact.
LEMMA PlanIsExact == Spec => []PlanExact
<1>1. Init => PlanExact
  BY DEF Init, PlanExact
<1>2. IndexInv /\ PlanExact /\ [Next]_vars => PlanExact'
  <2>. SUFFICES ASSUME IndexInv, PlanExact, [Next]_vars PROVE PlanExact'
    OBVIOUS
  <2>1. CASE PlanNode
    <3>. DEFINE d == Head(stack)
    <3>1. d \in Domain /\ t \in Seq(Node)
      BY <2>1 DEF PlanNode, IndexInv, PlanKnown, TreesTyped
    <3>. HIDE DEF d
    <3>2. PICK node \in IF auto THEN {AutoNode(d)} ELSE PlanNodes :
              IF Plannable(d, node) THEN t' = Append(t, node) ELSE t' = t
      BY <2>1 DEF PlanNode, d
    <3>3. node \in Node
      <4>1. CASE auto
        BY <3>1, <3>2, <4>1, AutoNodeIsNode
      <4>2. CASE ~ auto
        <5>1. node \in [tag : 0 .. LeafTag, value : Nat]
          BY <3>2, <4>2, PlanAssumption
        <5>. QED BY <5>1 DEF Node
      <4>. QED BY <4>1, <4>2
    <3>4. CASE Plannable(d, node)
      <4>1. Exact(node)
        BY <3>1, <3>3, <3>4, PlannableIsExact
      <4>2. /\ Len(t') = Len(t) + 1 /\ t'[Len(t) + 1] = node
            /\ \A i \in 1 .. Len(t) : t'[i] = t[i]
        BY <3>1, <3>2, <3>3, <3>4
      <4>3. \A i \in 1 .. Len(t') : i \in 1 .. Len(t) \/ i = Len(t) + 1
        BY <3>1, <4>2
      <4>. QED BY <4>1, <4>2, <4>3 DEF PlanExact
    <3>. QED BY <3>2, <3>4 DEF PlanExact
  <2>2. CASE t' = t
    BY <2>2 DEF PlanExact
  <2>. QED BY <2>1, <2>2, WhoPlans
<1>. QED BY <1>1, <1>2, IndexInvariant, PTL DEF Spec

\* What a field stores of a multiple comes back, if the field is wide enough.
LEMMA StoredBack ==
    ASSUME NEW wide \in BOOLEAN, NEW v \in Nat, v >= 1, NEW g \in Nat \ {0}, v % g = 0,
           ~ wide => ~ (v \div g > NarrowField)
    PROVE  (Stored(wide, v \div g) + 1) * g = v
<1>. DEFINE w == v \div g
<1>1. w \in Nat /\ v = g * w
  BY DivisionFacts
<1>. HIDE DEF w
<1>2. w >= 1
  <2>1. w = 0 => g * w = 0
    OBVIOUS
  <2>. QED BY <1>1, <2>1
<1>3. Stored(wide, w) = w - 1
  <2>1. CASE wide
    BY <2>1 DEF Stored
  <2>2. CASE ~ wide
    <3>1. NarrowField \in Nat \ {0} /\ w - 1 \in 0 .. NarrowField - 1
      BY <1>1, <1>2, <2>2, NarrowAssumption DEF w
    <3>2. \A k \in Nat \ {0} : \A x \in 0 .. k - 1 : x % k = x
      OBVIOUS
    <3>3. (w - 1) % NarrowField = w - 1
      BY <3>1, <3>2
    <3>. QED BY <2>2, <3>3 DEF Stored
  <2>. QED BY <2>1, <2>2
<1>4. (w - 1 + 1) * g = g * w
  BY <1>1
<1>. QED BY <1>1, <1>3, <1>4 DEF w

\* A node of the file as the reader takes it.
Restored(node) ==
    IF node.tag = LeafTag THEN node
    ELSE [tag |-> node.tag, value |-> (node.value + 1) * Scale(node.tag)]

\* An undamaged file tells root, layout and tree.
FileTells ==
    phase \in {"read", "reexpand", "decode", "done"} /\ ~ damaged =>
        /\ file.layout = layout /\ ReadRoot = root
        /\ \A i \in 1 .. Len(t) : Restored(file.nodes[i]) = t[i]

\* The reader's tree is the writer's, as far as read.
TreeRetold ==
    /\ phase = "read" /\ ~ damaged => \A i \in 1 .. Len(rt) : rt[i] = t[i]
    /\ phase = "reexpand" /\ ~ damaged => rt = t

\* Writing stores what comes back.
LEMMA WriteFileTells == IndexInv /\ PlanExact /\ WriteFile => FileTells'
<1>. SUFFICES ASSUME IndexInv, PlanExact, WriteFile PROVE FileTells'
  OBVIOUS
<1>. DEFINE wide == ChosenWidth
            shape == [a \in Axes |-> Stored(wide, root.size[a] \div Grain(a))]
            Kept(i) == IF t[i].tag = LeafTag THEN t[i]
                       ELSE [tag |-> t[i].tag,
                             value |-> Stored(wide, t[i].value \div Scale(t[i].tag))]
            nodes == [i \in DOMAIN t |-> Kept(i)]
<1>1. /\ file'.layout = layout /\ file'.shape = shape /\ file'.nodes = nodes
      /\ layout' = layout /\ root' = root /\ t' = t
  BY DEF WriteFile
<1>2. root \in [at : [Axes -> {0}], size : [Axes -> Nat]] /\ t \in Seq(Node)
      /\ \A a \in Axes : root.size[a] >= Grain(a) /\ root.size[a] % Grain(a) = 0
  BY RootsAssumption DEF IndexInv, TreesTyped
<1>3. wide \in BOOLEAN
  BY DEF ChosenWidth, NeedsWide
<1>4. ASSUME NEW a \in Axes
      PROVE  (Stored(wide, root.size[a] \div Grain(a)) + 1) * Grain(a) = root.size[a]
  <2>. DEFINE v == root.size[a]
              g == Grain(a)
  <2>1. g \in Nat \ {0} /\ v \in Nat /\ v % g = 0 /\ v >= 1
    BY <1>2, UnitAssumption DEF Grain
  <2>2. ~ wide => ~ (v \div g > NarrowField)
    <3>. SUFFICES ASSUME ~ wide PROVE ~ (v \div g > NarrowField)
      OBVIOUS
    <3>1. ~ (root.size[3] > NarrowField)
          /\ \A b \in 0 .. 2 : ~ (root.size[b] \div Unit > NarrowField)
      BY DEF ChosenWidth, NeedsWide
    <3>2. CASE a = 3
      <4>1. \A x \in Nat : x \div 1 = x
        OBVIOUS
      <4>2. v \div g = v
        BY <2>1, <3>2, <4>1 DEF Grain
      <4>. QED BY <3>1, <3>2, <4>2
    <3>3. CASE a # 3
      <4>1. a \in 0 .. 2 /\ g = Unit
        BY <3>3 DEF Axes, Grain
      <4>. QED BY <3>1, <4>1
    <3>. QED BY <3>2, <3>3
  <2>. HIDE DEF wide, v, g
  <2>3. (Stored(wide, v \div g) + 1) * g = v
    BY <1>3, <2>1, <2>2, StoredBack
  <2>. QED BY <2>3 DEF v, g
<1>5. ReadRoot' = root
  <2>. DEFINE size == [a \in Axes |-> (shape[a] + 1) * Grain(a)]
              at == [a \in Axes |-> 0]
  <2>1. ReadRoot' = [at |-> at, size |-> size]
    BY <1>1 DEF ReadRoot
  <2>2. \A a \in Axes : shape[a] = Stored(wide, root.size[a] \div Grain(a))
    OBVIOUS
  <2>3. root.at = at /\ root.size \in [Axes -> Nat]
        /\ root = [at |-> root.at, size |-> root.size]
    BY <1>2
  <2>. HIDE DEF wide, shape, at
  <2>4. \A a \in Axes : (shape[a] + 1) * Grain(a) = root.size[a]
    BY <1>4, <2>2
  <2>5. size = root.size
    BY <2>3, <2>4
  <2>. QED BY <2>1, <2>3, <2>5
<1>6. ASSUME NEW i \in 1 .. Len(t)
      PROVE  Restored(nodes[i]) = t[i]
  <2>1. t[i] \in Node /\ Exact(t[i]) /\ i \in DOMAIN t
    BY <1>2 DEF PlanExact
  <2>2. nodes[i] = Kept(i)
    BY <2>1
  <2>3. CASE t[i].tag = LeafTag
    BY <2>2, <2>3 DEF Restored
  <2>4. CASE t[i].tag # LeafTag
    <3>. DEFINE v == t[i].value
                g == Scale(t[i].tag)
    <3>1. g \in Nat \ {0} /\ v \in Nat /\ v >= 1 /\ v % g = 0
      BY <2>1, <2>4, UnitAssumption DEF Exact, Scale
    <3>2. ~ wide => ~ (v \div g > NarrowField)
      BY <2>1 DEF ChosenWidth, NeedsWide
    <3>3. nodes[i] = [tag |-> t[i].tag, value |-> Stored(wide, v \div g)]
      BY <2>2, <2>4
    <3>4. t[i] = [tag |-> t[i].tag, value |-> v]
      BY <2>1 DEF Node
    <3>. HIDE DEF wide, nodes
    <3>5. Restored(nodes[i]) = [tag |-> t[i].tag, value |-> (Stored(wide, v \div g) + 1) * g]
      BY <2>4, <3>3 DEF Restored
    <3>. HIDE DEF v, g
    <3>6. (Stored(wide, v \div g) + 1) * g = v
      BY <1>3, <3>1, <3>2, StoredBack
    <3>. QED BY <3>4, <3>5, <3>6
  <2>. QED BY <2>3, <2>4
<1>. HIDE DEF nodes, shape
<1>. QED BY <1>1, <1>5, <1>6 DEF FileTells

\* A reader of an undamaged file has all of the tree once no subtree is needed.
LEMMA TreeIsRead ==
    ASSUME IndexInv, TreeRetold, phase = "read", needed = 0, ~ damaged
    PROVE  rt = t
<1>1. PICK c : Chain(t, c, 0, Len(rt) + 1)
  BY DEF IndexInv, SubtreesNeeded
<1>2. rt \in Seq(Node) /\ t \in Seq(Node)
  BY DEF IndexInv, TreesTyped
<1>3. Len(rt) = Len(t)
  <2>1. Len(rt) + 1 = Len(t) + 1
    BY <1>1 DEF Chain
  <2>. QED BY <1>2, <2>1
<1>. QED BY <1>2, <1>3 DEF TreeRetold

\* The writer is done with the file, and the reader with its parts, when it is expanded.
LEMMA FileIsTold == Spec => [](FileTells /\ TreeRetold)
<1>. DEFINE I == FileTells /\ TreeRetold
<1>1. Init => I
  BY DEF Init, FileTells, TreeRetold
<1>2. IndexInv /\ PlanExact /\ I /\ [Next]_vars => I'
  <2>. SUFFICES ASSUME IndexInv, PlanExact, FileTells, TreeRetold, [Next]_vars
                PROVE  FileTells' /\ TreeRetold'
    OBVIOUS
  <2>1. CASE PlanNode \/ PlanMiscounts \/ FinishPlan
    <3>1. phase' \in {"plan", "unplanned", "expand", "refused"}
      BY <2>1 DEF PlanNode, PlanMiscounts, FinishPlan
    <3>. QED BY <3>1 DEF FileTells, TreeRetold
  <2>2. CASE FinishExpand \/ EncodeLeaf
    <3>1. phase' = "encode"
      BY <2>2 DEF FinishExpand, EncodeLeaf
    <3>. QED BY <3>1 DEF FileTells, TreeRetold
  <2>3. CASE ExpandLeaf \/ ExpandNode
    <3>1. /\ Expanding /\ (phase' = phase \/ phase' \in {"refused", "rejected"})
          /\ UNCHANGED <<file, damaged, t, rt, root, layout>>
      BY <2>3 DEF ExpandLeaf, ExpandNode, ExpandFails
    <3>. QED BY <3>1 DEF Expanding, FileTells, TreeRetold, ReadRoot
  <2>4. CASE WriteFile
    <3>1. rt = <<>> /\ rt' = rt /\ phase' = "read"
      BY <2>4 DEF WriteFile, IndexInv, ReaderFresh
    <3>2. TreeRetold'
      BY <3>1 DEF TreeRetold
    <3>. QED BY <2>4, <3>2, WriteFileTells
  <2>5. CASE DamageFile
    BY <2>5 DEF DamageFile, FileTells, TreeRetold
  <2>6. CASE ReadNode
    <3>1. /\ phase = "read" /\ needed > 0 /\ phase' \in {"read", "rejected"}
          /\ UNCHANGED <<file, damaged, t, root, layout>>
          /\ rt' = rt \/ rt' = Append(rt, Restored(file.nodes[Len(rt) + 1]))
      BY <2>6 DEF ReadNode, Restored
    <3>2. FileTells'
      BY <3>1 DEF FileTells, ReadRoot
    <3>3. TreeRetold'
      <4>. SUFFICES ASSUME phase' = "read", ~ damaged', rt' # rt
                    PROVE  \A i \in 1 .. Len(rt') : rt'[i] = t'[i]
        BY <3>1 DEF TreeRetold
      <4>. DEFINE n == Len(rt) + 1
      <4>1. /\ rt' = Append(rt, Restored(file.nodes[n])) /\ ~ damaged /\ t' = t
            /\ rt \in Seq(Node) /\ t \in Seq(Node) /\ WholeTree(t) /\ needed \in Nat
            /\ \E c : Chain(t, c, needed, n)
        BY <3>1 DEF IndexInv, TreesTyped, PlanKnown, SubtreesNeeded
      <4>2. n \in 1 .. Len(t)
        <5>1. PICK c : Chain(t, c, needed, n)
          BY <4>1
        <5>2. PICK m : m = needed - 1 + (IF t[n].tag = LeafTag THEN 0
                                         ELSE IF Cuts(t[n]) THEN 2 ELSE 1)
          OBVIOUS
        <5>. HIDE DEF n
        <5>. QED BY <3>1, <4>1, <5>1, <5>2, ChainStep
      <4>3. Restored(file.nodes[n]) = t[n]
        BY <3>1, <4>1, <4>2 DEF FileTells
      <4>4. \A i \in 1 .. Len(rt) : rt[i] = t[i]
        BY <3>1, <4>1 DEF TreeRetold
      <4>5. rt' = Append(rt, t[n]) /\ t[n] \in Node
        BY <4>1, <4>2, <4>3
      <4>6. Len(rt') = Len(rt) + 1 /\ rt'[Len(rt) + 1] = t[n]
            /\ \A i \in 1 .. Len(rt) : rt'[i] = rt[i]
        BY <4>1, <4>5
      <4>7. \A i \in 1 .. Len(rt') : i \in 1 .. Len(rt) \/ i = n
        BY <4>1, <4>6
      <4>. QED BY <4>1, <4>4, <4>6, <4>7
    <3>. QED BY <3>2, <3>3
  <2>7. CASE FinishRead
    <3>1. /\ phase = "read" /\ needed = 0 /\ phase' \in {"reexpand", "rejected"}
          /\ UNCHANGED <<file, damaged, t, rt, root, layout>>
      BY <2>7 DEF FinishRead
    <3>2. FileTells'
      BY <3>1 DEF FileTells, ReadRoot
    <3>3. ~ damaged => rt = t
      BY <3>1, TreeIsRead
    <3>4. TreeRetold'
      BY <3>1, <3>3 DEF TreeRetold
    <3>. QED BY <3>2, <3>4
  <2>8. CASE FinishIndex \/ DecodeLeaf
    <3>1. /\ phase \in {"reexpand", "decode"} /\ phase' \in {"decode", "done", "rejected"}
          /\ UNCHANGED <<file, damaged, t, rt, root, layout>>
      BY <2>8 DEF FinishIndex, DecodeLeaf
    <3>. QED BY <3>1 DEF FileTells, TreeRetold, ReadRoot
  <2>9. CASE UNCHANGED vars
    BY <2>9 DEF vars, FileTells, TreeRetold, ReadRoot
  <2>. QED BY <2>1, <2>2, <2>3, <2>4, <2>5, <2>6, <2>7, <2>8, <2>9 DEF Next
<1>. QED BY <1>1, <1>2, IndexInvariant, PlanIsExact, PTL DEF Spec

-----------------------------------------------------------------------------
(* The reader's expansion goes the writer's way.                           *)

\* What one step of an expansion of s makes of a stack and a list.
ExpansionStep(s, st, li, st2, li2) ==
    /\ st # <<>>
    /\ IF s[Head(st).node].tag = LeafTag
       THEN st2 = Tail(st) /\ li2 = Append(li, Head(st).d)
       ELSE st2 = Jobs(Head(st).d, Head(st).node, s) \o Tail(st) /\ li2 = li

\* The first n steps of the expansion of s from the domain r.
Trace(s, r, n, S, I) ==
    /\ n \in Nat
    /\ S[0] = <<[d |-> r, node |-> 1]>> /\ I[0] = <<>>
    /\ \A k \in 0 .. n - 1 : ExpansionStep(s, S[k], I[k], S[k + 1], I[k + 1])

\* A stack and a list that the trace passes.
Passes(S, I, n, st, li) == \E k \in 0 .. n : st = S[k] /\ li = I[k]

\* The expansion that lists the writer's leaves, with the reader somewhere along it.
Retraced ==
    /\ phase = "expand" =>
          \E n, S, I : Trace(t, root, n, S, I) /\ stack = S[n] /\ leaves = I[n]
    /\ phase \in {"encode", "read"} =>
          \E n, S, I : Trace(t, root, n, S, I) /\ S[n] = <<>> /\ leaves = I[n]
    /\ phase = "reexpand" /\ ~ damaged =>
          \E n, S, I : /\ Trace(t, root, n, S, I) /\ S[n] = <<>> /\ leaves = I[n]
                       /\ Passes(S, I, n, stack, index)
    /\ phase \in {"decode", "done"} /\ ~ damaged => index = leaves

\* A trace goes on by a step.
LEMMA TraceGoesOn ==
    ASSUME NEW s, NEW r, NEW n, NEW S, NEW I, Trace(s, r, n, S, I),
           NEW st, NEW li, ExpansionStep(s, S[n], I[n], st, li)
    PROVE  \E S2, I2 : Trace(s, r, n + 1, S2, I2) /\ S2[n + 1] = st /\ I2[n + 1] = li
<1>. DEFINE S2 == [k \in 0 .. n + 1 |-> IF k = n + 1 THEN st ELSE S[k]]
            I2 == [k \in 0 .. n + 1 |-> IF k = n + 1 THEN li ELSE I[k]]
<1>1. n \in Nat
  BY DEF Trace
<1>2. /\ S2[n + 1] = st /\ I2[n + 1] = li
      /\ \A k \in 0 .. n : S2[k] = S[k] /\ I2[k] = I[k]
  BY <1>1
<1>. HIDE DEF S2, I2
<1>3. ASSUME NEW k \in 0 .. (n + 1) - 1
      PROVE  ExpansionStep(s, S2[k], I2[k], S2[k + 1], I2[k + 1])
  <2>1. CASE k = n
    <3>1. S2[k] = S[n] /\ I2[k] = I[n] /\ S2[k + 1] = st /\ I2[k + 1] = li
      BY <1>1, <1>2, <2>1
    <3>. QED BY <3>1
  <2>2. CASE k # n
    <3>1. k \in 0 .. n - 1 /\ k \in 0 .. n /\ k + 1 \in 0 .. n
      BY <1>1, <2>2
    <3>2. S2[k] = S[k] /\ I2[k] = I[k] /\ S2[k + 1] = S[k + 1] /\ I2[k + 1] = I[k + 1]
      BY <1>2, <3>1
    <3>3. ExpansionStep(s, S[k], I[k], S[k + 1], I[k + 1])
      BY <3>1 DEF Trace
    <3>. QED BY <3>2, <3>3
  <2>. QED BY <2>1, <2>2
<1>4. S2[0] = S[0] /\ I2[0] = I[0]
  BY <1>1, <1>2
<1>5. Trace(s, r, n + 1, S2, I2)
  BY <1>1, <1>3, <1>4 DEF Trace
<1>. QED BY <1>2, <1>5

\* Whoever is on the way of a trace that has ended has not arrived, and a step takes
\* them on along it.
LEMMA TraceLeads ==
    ASSUME NEW s, NEW r, NEW n, NEW S, NEW I, Trace(s, r, n, S, I), S[n] = <<>>,
           NEW st, NEW li, Passes(S, I, n, st, li),
           NEW st2, NEW li2, ExpansionStep(s, st, li, st2, li2)
    PROVE  Passes(S, I, n, st2, li2)
<1>1. PICK k \in 0 .. n : st = S[k] /\ li = I[k]
  BY DEF Passes
<1>2. n \in Nat /\ S[k] # <<>>
  BY <1>1 DEF Trace, ExpansionStep
<1>3. k \in 0 .. n - 1 /\ k + 1 \in 0 .. n
  BY <1>2
<1>4. ExpansionStep(s, S[k], I[k], S[k + 1], I[k + 1])
  BY <1>3 DEF Trace
<1>5. st2 = S[k + 1] /\ li2 = I[k + 1]
  BY <1>1, <1>4 DEF ExpansionStep
<1>. QED BY <1>3, <1>5 DEF Passes

\* Both expansions step alike, each with its own template and list.
LEMMA HowExpansionsStep ==
    ASSUME ExpandLeaf \/ ExpandNode
    PROVE  /\ Expanding /\ UNCHANGED <<root, layout, t, rt, file, damaged, found, out>>
           /\ \/ phase' \in {"refused", "rejected"}
              \/ /\ phase = "expand" /\ phase' = phase /\ index' = index
                 /\ ExpansionStep(t, stack, leaves, stack', leaves')
              \/ /\ phase = "reexpand" /\ phase' = phase /\ leaves' = leaves
                 /\ ExpansionStep(rt, stack, index, stack', index')
<1>1. CASE ExpandLeaf
  <2>1. Expanding /\ UNCHANGED <<root, layout, t, rt, file, damaged, found, out>>
        /\ stack # <<>> /\ Template[Head(stack).node].tag = LeafTag
    BY <1>1 DEF ExpandLeaf
  <2>2. CASE ExpandFails
    BY <2>1, <2>2 DEF ExpandFails
  <2>3. CASE List(Head(stack).d) /\ stack' = Tail(stack) /\ UNCHANGED phase
    <3>1. CASE phase = "expand"
      BY <2>1, <2>3, <3>1 DEF List, Template, ExpansionStep
    <3>2. CASE phase = "reexpand"
      BY <2>1, <2>3, <3>2 DEF List, Template, ExpansionStep
    <3>. QED BY <2>1, <3>1, <3>2 DEF Expanding
  <2>. QED BY <1>1, <2>2, <2>3 DEF ExpandLeaf
<1>2. CASE ExpandNode
  <2>1. Expanding /\ UNCHANGED <<root, layout, t, rt, file, damaged, found, out>>
        /\ stack # <<>> /\ Template[Head(stack).node].tag # LeafTag
    BY <1>2 DEF ExpandNode
  <2>2. CASE ExpandFails
    BY <2>1, <2>2 DEF ExpandFails
  <2>3. CASE /\ stack' = Jobs(Head(stack).d, Head(stack).node, Template) \o Tail(stack)
             /\ UNCHANGED <<phase, leaves, index>>
    <3>1. CASE phase = "expand"
      BY <2>1, <2>3, <3>1 DEF Template, ExpansionStep
    <3>2. CASE phase = "reexpand"
      BY <2>1, <2>3, <3>2 DEF Template, ExpansionStep
    <3>. QED BY <2>1, <3>1, <3>2 DEF Expanding
  <2>. QED BY <1>2, <2>2, <2>3 DEF ExpandNode
<1>. QED BY <1>1, <1>2

\* Once expanded, an undamaged file's leaves are the writer's.
LEMMA IndexIsListed ==
    ASSUME Retraced, phase = "reexpand", stack = <<>>, ~ damaged
    PROVE  index = leaves
<1>1. PICK n, S, I : /\ Trace(t, root, n, S, I) /\ S[n] = <<>> /\ leaves = I[n]
                     /\ Passes(S, I, n, stack, index)
  BY DEF Retraced
<1>2. PICK k \in 0 .. n : stack = S[k] /\ index = I[k]
  BY <1>1 DEF Passes
<1>3. n \in Nat /\ \A m \in 0 .. n - 1 : S[m] # <<>>
  BY <1>1 DEF Trace, ExpansionStep
<1>4. k = n
  BY <1>2, <1>3
<1>. QED BY <1>1, <1>2, <1>4

\* The reader lists what the writer listed.
LEMMA ReaderRetraces == Spec => []Retraced
<1>1. Init => Retraced
  BY DEF Init, Retraced
<1>2. IndexInv /\ FileTells /\ TreeRetold /\ Retraced /\ [Next]_vars => Retraced'
  <2>. SUFFICES ASSUME IndexInv, FileTells, TreeRetold, Retraced, [Next]_vars
                PROVE  Retraced'
    OBVIOUS
  <2>1. CASE PlanNode \/ PlanMiscounts
    <3>1. phase' \in {"plan", "unplanned"}
      BY <2>1 DEF PlanNode, PlanMiscounts
    <3>. QED BY <3>1 DEF Retraced
  <2>2. CASE FinishPlan
    <3>1. /\ leaves = <<>> /\ leaves' = leaves /\ t' = t /\ root' = root
          /\ \/ phase' = "expand" /\ stack' = <<[d |-> root, node |-> 1]>>
             \/ phase' = "refused"
      BY <2>2 DEF FinishPlan, IndexInv, PlanKnown
    <3>. DEFINE S == [k \in {0} |-> <<[d |-> root, node |-> 1]>>]
                I == [k \in {0} |-> <<>>]
    <3>2. S[0] = <<[d |-> root, node |-> 1]>> /\ I[0] = <<>>
      OBVIOUS
    <3>. HIDE DEF S, I
    <3>3. \A k \in 0 .. 0 - 1 : FALSE
      OBVIOUS
    <3>4. Trace(t, root, 0, S, I)
      BY <3>2, <3>3 DEF Trace
    <3>. QED BY <3>1, <3>2, <3>4 DEF Retraced
  <2>3. CASE ExpandLeaf \/ ExpandNode
    <3>1. CASE phase' \in {"refused", "rejected"}
      BY <3>1 DEF Retraced
    <3>2. CASE /\ phase = "expand" /\ phase' = phase
               /\ ExpansionStep(t, stack, leaves, stack', leaves')
      <4>1. PICK n, S, I : Trace(t, root, n, S, I) /\ stack = S[n] /\ leaves = I[n]
        BY <3>2 DEF Retraced
      <4>2. ExpansionStep(t, S[n], I[n], stack', leaves')
        BY <3>2, <4>1
      <4>3. PICK S2, I2 : Trace(t, root, n + 1, S2, I2) /\ S2[n + 1] = stack'
                          /\ I2[n + 1] = leaves'
        BY <4>1, <4>2, TraceGoesOn
      <4>4. t' = t /\ root' = root
        BY <2>3, HowExpansionsStep
      <4>. QED BY <3>2, <4>3, <4>4 DEF Retraced
    <3>3. CASE /\ phase = "reexpand" /\ phase' = phase /\ leaves' = leaves
               /\ ExpansionStep(rt, stack, index, stack', index')
      <4>. SUFFICES ASSUME ~ damaged'
                    PROVE  \E n, S, I :
                              /\ Trace(t', root', n, S, I) /\ S[n] = <<>> /\ leaves' = I[n]
                              /\ Passes(S, I, n, stack', index')
        BY <3>3 DEF Retraced
      <4>1. t' = t /\ root' = root /\ ~ damaged
        BY <2>3, HowExpansionsStep
      <4>2. rt = t
        BY <3>3, <4>1 DEF TreeRetold
      <4>3. PICK n, S, I : /\ Trace(t, root, n, S, I) /\ S[n] = <<>> /\ leaves = I[n]
                           /\ Passes(S, I, n, stack, index)
        BY <3>3, <4>1 DEF Retraced
      <4>4. ExpansionStep(t, stack, index, stack', index')
        BY <3>3, <4>2
      <4>5. Passes(S, I, n, stack', index')
        BY <4>3, <4>4, TraceLeads
      <4>6. Trace(t', root', n, S, I) /\ S[n] = <<>> /\ leaves' = I[n]
        <5>. HIDE DEF Trace
        <5>1. Trace(t', root', n, S, I) = Trace(t, root, n, S, I)
          BY <4>1
        <5>. QED BY <3>3, <4>3, <5>1
      <4>. QED BY <4>5, <4>6
    <3>. QED BY <2>3, <3>1, <3>2, <3>3, HowExpansionsStep
  <2>4. CASE FinishExpand
    BY <2>4 DEF FinishExpand, Retraced
  <2>5. CASE EncodeLeaf \/ WriteFile \/ DamageFile \/ ReadNode
    <3>1. /\ phase \in {"encode", "read"} /\ phase' \in {"encode", "read", "rejected"}
          /\ UNCHANGED <<t, root, leaves>>
      BY <2>5 DEF EncodeLeaf, WriteFile, DamageFile, ReadNode
    <3>. QED BY <3>1 DEF Retraced
  <2>6. CASE FinishRead
    <3>1. /\ phase = "read" /\ UNCHANGED <<t, root, leaves, index, damaged>> /\ index = <<>>
          /\ \/ phase' = "reexpand" /\ stack' = <<[d |-> ReadRoot, node |-> 1]>>
             \/ phase' = "rejected"
      BY <2>6 DEF FinishRead, IndexInv, ReaderFresh
    <3>2. CASE phase' = "reexpand" /\ ~ damaged
      <4>1. ReadRoot = root
        BY <3>1, <3>2 DEF FileTells
      <4>2. PICK n, S, I : Trace(t, root, n, S, I) /\ S[n] = <<>> /\ leaves = I[n]
        BY <3>1 DEF Retraced
      <4>3. n \in Nat /\ S[0] = <<[d |-> root, node |-> 1]>> /\ I[0] = <<>>
        BY <4>2 DEF Trace
      <4>4. Passes(S, I, n, stack', index')
        <5>1. 0 \in 0 .. n /\ stack' = S[0] /\ index' = I[0]
          BY <3>1, <3>2, <4>1, <4>3
        <5>. QED BY <5>1 DEF Passes
      <4>. QED BY <3>1, <3>2, <4>2, <4>4 DEF Retraced
    <3>3. CASE phase' = "rejected" \/ damaged
      BY <3>1, <3>3 DEF Retraced
    <3>. QED BY <3>1, <3>2, <3>3
  <2>7. CASE FinishIndex
    <3>1. /\ phase = "reexpand" /\ stack = <<>> /\ UNCHANGED <<leaves, index, damaged>>
          /\ phase' \in {"decode", "rejected"}
      BY <2>7 DEF FinishIndex
    <3>2. ~ damaged => index = leaves
      BY <3>1, IndexIsListed
    <3>. QED BY <3>1, <3>2 DEF Retraced
  <2>8. CASE DecodeLeaf
    <3>1. /\ phase = "decode" /\ UNCHANGED <<leaves, index, damaged>>
          /\ phase' \in {"decode", "done", "rejected"}
      BY <2>8 DEF DecodeLeaf
    <3>. QED BY <3>1 DEF Retraced
  <2>9. CASE UNCHANGED vars
    BY <2>9 DEF vars, Retraced
  <2>. QED BY <2>1, <2>2, <2>3, <2>4, <2>5, <2>6, <2>7, <2>8, <2>9 DEF Next
<1>. QED BY <1>1, <1>2, IndexInvariant, FileIsTold, PTL DEF Spec

-----------------------------------------------------------------------------
(* No point is lost.                                                       *)

\* The parts of a domain hold each of its points.
LEMMA PartsHold ==
    ASSUME NEW d \in Domain, NEW node \in Node, Divides(d, node),
           NEW q \in [Axes -> Int], Holds(d, q)
    PROVE  Reaches(Parts(d, node), q)
<1>. DEFINE a == AxisOf(node)
            v == node.value
            P == Parts(d, node)
<1>1. a \in Axes /\ v \in Int
  <2>1. node.tag \in 0 .. 8 /\ v \in Int
    BY DEF Node, LeafTag
  <2>2. \A x \in 0 .. 8 : x % 4 \in 0 .. 3
    OBVIOUS
  <2>. QED BY <2>1, <2>2 DEF AxisOf, Axes
<1>2. /\ \A b \in Axes : d.at[b] \in Int /\ d.size[b] \in Int /\ q[b] \in Int
      /\ \A b \in Axes : d.at[b] <= q[b] /\ q[b] < d.at[b] + d.size[b]
  BY DEF Domain, Holds
<1>3. ASSUME NEW from \in Int, NEW extent \in Int,
             d.at[a] + from <= q[a], q[a] < d.at[a] + from + extent
      PROVE  Holds(Slice(d, a, from, extent), q)
  <2>. DEFINE s == Slice(d, a, from, extent)
  <2>. HIDE DEF a, v, P
  <2>1. /\ s.at[a] = d.at[a] + from /\ s.size[a] = extent
        /\ \A b \in Axes \ {a} : s.at[b] = d.at[b] /\ s.size[b] = d.size[b]
    BY <1>1, SliceFacts
  <2>. HIDE DEF s
  <2>2. ASSUME NEW b \in Axes
        PROVE  s.at[b] <= q[b] /\ q[b] < s.at[b] + s.size[b]
    <3>1. CASE b = a
      BY <1>3, <2>1, <3>1
    <3>2. CASE b # a
      BY <1>2, <2>1, <3>2
    <3>. QED BY <3>1, <3>2
  <2>. QED BY <2>2 DEF Holds, s
<1>4. CASE Cuts(node)
  <2>1. 0 < v /\ v < d.size[a]
    BY <1>4 DEF Divides
  <2>2. P = << Slice(d, a, 0, v), Slice(d, a, v, d.size[a] - v) >>
    BY <1>4 DEF Parts
  <2>3. Len(P) = 2 /\ P[1] = Slice(d, a, 0, v) /\ P[2] = Slice(d, a, v, d.size[a] - v)
    BY <2>2
  <2>. HIDE DEF a, v, P
  <2>4. CASE q[a] < d.at[a] + v
    <3>1. Holds(P[1], q)
      <4>1. 0 \in Int /\ d.at[a] + 0 <= q[a] /\ q[a] < d.at[a] + 0 + v
        BY <1>1, <1>2, <2>4
      <4>. QED BY <1>1, <1>3, <2>3, <4>1
    <3>. QED BY <2>3, <3>1 DEF Reaches, P, v, a
  <2>5. CASE ~ (q[a] < d.at[a] + v)
    <3>1. PICK rest \in Int : rest = d.size[a] - v
      BY <1>1, <1>2
    <3>2. d.at[a] + v <= q[a] /\ q[a] < d.at[a] + v + rest
      BY <1>1, <1>2, <2>5, <3>1
    <3>3. Holds(Slice(d, a, v, rest), q)
      BY <1>1, <1>3, <3>1, <3>2
    <3>4. Holds(P[2], q)
      BY <2>3, <3>1, <3>3
    <3>. QED BY <2>3, <3>4 DEF Reaches, P, v, a
  <2>. QED BY <2>4, <2>5
<1>5. CASE ~ Cuts(node)
  <2>. DEFINE part == d.size[a] \div v
              Nth(r) == Slice(d, a, (r - 1) * part, part)
  <2>1. v >= 2 /\ d.size[a] % v = 0 /\ part > 0
    BY <1>5 DEF Divides
  <2>2. P = [r \in 1 .. v |-> Nth(r)]
    BY <1>5 DEF Parts
  <2>3. v \in Nat \ {0}
    BY <1>1, <2>1
  <2>4. \A x \in Int, y \in Nat \ {0} : x = y * (x \div y) + (x % y) /\ x \div y \in Int
    OBVIOUS
  <2>5. d.size[a] = v * part + (d.size[a] % v) /\ part \in Int
    BY <1>1, <1>2, <2>3, <2>4
  <2>. HIDE DEF a, v, part, Nth, P
  <2>6. v * part \in Int
    BY <2>3, <2>5
  <2>7. d.size[a] = v * part /\ part \in Nat \ {0}
    BY <2>1, <2>5, <2>6
  <2>8. PICK u : u = q[a] - d.at[a]
    OBVIOUS
  <2>9. u \in Nat /\ Below(u, v, part)
    BY <1>1, <1>2, <2>7, <2>8 DEF Below
  <2>10. TwoDigits(u, v, part)
    BY <2>3, <2>7, <2>9, Digits
  <2>11. PICK h \in Nat, l \in Nat : h < v /\ l < part /\ u = h * part + l
    BY <2>10 DEF TwoDigits
  <2>12. PICK from \in Int : from = h * part
    BY <2>7, <2>11
  <2>13. d.at[a] + from <= q[a] /\ q[a] < d.at[a] + from + part
    BY <1>1, <1>2, <2>7, <2>8, <2>11, <2>12
  <2>14. Holds(Slice(d, a, from, part), q)
    BY <1>1, <1>3, <2>7, <2>13
  <2>15. PICK r \in 1 .. v : r = h + 1
    BY <2>3, <2>11
  <2>16. r - 1 = h
    BY <2>11, <2>15
  <2>17. Holds(P[r], q)
    <3>1. Nth(r) = Slice(d, a, from, part)
      BY <2>12, <2>16 DEF Nth
    <3>. QED BY <2>2, <2>14, <3>1
  <2>18. Len(P) = v
    BY <2>2, <2>3
  <2>. QED BY <2>17, <2>18 DEF Reaches, P
<1>. QED BY <1>4, <1>5

\* A point on the way: a leaf or a pending domain holds it.
Waits(li, st, q) ==
    \/ \E i \in 1 .. Len(li) : Holds(li[i], q)
    \/ \E i \in 1 .. Len(st) : Holds(st[i].d, q)

\* Each point of the root is in a leaf or waits for one; a leaf has one channel.
Covered ==
    /\ Single(leaves)
    /\ phase = "expand" =>
          \A q \in [Axes -> Int] : Holds(root, q) => Waits(leaves, stack, q)
    /\ phase \in {"encode", "read", "reexpand", "decode", "done"} => Covers(leaves, root)

\* A step of the writer's expansion keeps each point waiting.
LEMMA ExpansionStepHolds ==
    ASSUME IndexInv, phase = "expand", ExpandLeaf \/ ExpandNode, phase' = phase,
           NEW q \in [Axes -> Int], Waits(leaves, stack, q)
    PROVE  Waits(leaves', stack', q)
<1>. DEFINE j == Head(stack)
            n == Len(t)
<1>1. /\ t \in Seq(Node) /\ leaves \in Seq(Domain) /\ WholeTree(t)
      /\ stack \in Seq(Job(n)) /\ n \in Nat
  <2>1. Expanding /\ Template = t /\ Listed = leaves
    BY DEF Expanding, Template, Listed
  <2>. QED BY <2>1, WhileExpanding
<1>2. stack # <<>> /\ ExpansionStep(t, stack, leaves, stack', leaves')
  BY HowExpansionsStep DEF ExpansionStep
<1>3. j \in Job(n) /\ Tail(stack) \in Seq(Job(n)) /\ Len(Tail(stack)) = Len(stack) - 1
      /\ Len(stack) \in Nat /\ j = stack[1]
      /\ \A i \in 1 .. Len(Tail(stack)) : Tail(stack)[i] = stack[i + 1]
  BY <1>1, <1>2
<1>4. j.d \in Domain /\ j.node \in 1 .. n
  BY <1>3 DEF Job
<1>. HIDE DEF n
<1>5. CASE t[j.node].tag = LeafTag
  <2>1. stack' = Tail(stack) /\ leaves' = Append(leaves, j.d)
    BY <1>2, <1>5 DEF ExpansionStep
  <2>. HIDE DEF j
  <2>2. /\ Len(leaves') = Len(leaves) + 1 /\ leaves'[Len(leaves) + 1] = j.d
        /\ \A i \in 1 .. Len(leaves) : leaves'[i] = leaves[i]
        /\ Len(leaves) \in Nat
    BY <1>1, <1>4, <2>1
  <2>3. CASE \E i \in 1 .. Len(leaves) : Holds(leaves[i], q)
    <3>1. PICK i \in 1 .. Len(leaves) : Holds(leaves[i], q)
      BY <2>3
    <3>2. i \in 1 .. Len(leaves') /\ leaves'[i] = leaves[i]
      BY <2>2
    <3>. QED BY <3>1, <3>2 DEF Waits
  <2>4. CASE \E i \in 1 .. Len(stack) : Holds(stack[i].d, q)
    <3>1. PICK i \in 1 .. Len(stack) : Holds(stack[i].d, q)
      BY <2>4
    <3>2. CASE i = 1
      <4>1. Len(leaves) + 1 \in 1 .. Len(leaves') /\ Holds(leaves'[Len(leaves) + 1], q)
        BY <1>3, <2>2, <3>1, <3>2
      <4>. QED BY <4>1 DEF Waits
    <3>3. CASE i # 1
      <4>1. PICK k \in 1 .. Len(Tail(stack)) : i = k + 1
        <5>1. i - 1 \in 1 .. Len(Tail(stack)) /\ i = (i - 1) + 1
          BY <1>3, <3>3
        <5>. QED BY <5>1
      <4>2. Tail(stack)[k] = stack[i]
        BY <1>3, <4>1
      <4>3. k \in 1 .. Len(stack') /\ Holds(stack'[k].d, q)
        BY <2>1, <3>1, <4>2
      <4>. QED BY <4>3 DEF Waits
    <3>. QED BY <3>2, <3>3
  <2>. QED BY <2>3, <2>4 DEF Waits
<1>6. CASE t[j.node].tag # LeafTag
  <2>. DEFINE node == t[j.node]
              js == Jobs(j.d, j.node, t)
              P == Parts(j.d, node)
  <2>1. stack' = js \o Tail(stack) /\ leaves' = leaves
    BY <1>2, <1>6 DEF ExpansionStep
  <2>2. node \in Node
    BY <1>1, <1>4 DEF n
  <2>3. Divides(j.d, node)
    <3>1. Template = t
      BY DEF Template
    <3>2. ~ ExpandLeaf
      BY <1>6, <3>1 DEF ExpandLeaf
    <3>3. ~ ExpandFails
      BY DEF ExpandFails
    <3>. QED BY <3>1, <3>2, <3>3 DEF ExpandNode
  <2>4. /\ js \in Seq(Job(n)) /\ Len(js) = Len(P)
        /\ \A r \in 1 .. Len(P) : js[r].d = P[r]
    BY <1>1, <1>4, <1>6, <2>3, JobsFacts DEF n
  <2>. HIDE DEF js, P, node, j
  <2>5. /\ Len(js \o Tail(stack)) = Len(js) + Len(Tail(stack))
        /\ \A i \in 1 .. Len(js) : (js \o Tail(stack))[i] = js[i]
        /\ \A i \in 1 .. Len(Tail(stack)) : (js \o Tail(stack))[Len(js) + i] = Tail(stack)[i]
        /\ Len(js) \in Nat /\ Len(Tail(stack)) \in Nat
    <3>. DEFINE J == Job(n)
                rest == Tail(stack)
    <3>1. js \in Seq(J) /\ rest \in Seq(J)
      BY <1>3, <2>4
    <3>. HIDE DEF J, rest
    <3>. QED BY <3>1 DEF rest
  <2>6. CASE \E i \in 1 .. Len(leaves) : Holds(leaves[i], q)
    BY <2>1, <2>6 DEF Waits
  <2>7. CASE \E i \in 1 .. Len(stack) : Holds(stack[i].d, q)
    <3>1. PICK i \in 1 .. Len(stack) : Holds(stack[i].d, q)
      BY <2>7
    <3>2. CASE i = 1
      <4>1. Holds(j.d, q)
        BY <1>3, <3>1, <3>2
      <4>2. Reaches(P, q)
        BY <1>4, <2>2, <2>3, <4>1, PartsHold DEF P
      <4>3. PICK r \in 1 .. Len(P) : Holds(P[r], q)
        BY <4>2 DEF Reaches
      <4>4. r \in 1 .. Len(stack') /\ Holds(stack'[r].d, q)
        BY <2>1, <2>4, <2>5, <4>3
      <4>. QED BY <4>4 DEF Waits
    <3>3. CASE i # 1
      <4>1. PICK k \in 1 .. Len(Tail(stack)) : i = k + 1
        <5>1. i - 1 \in 1 .. Len(Tail(stack)) /\ i = (i - 1) + 1
          BY <1>3, <3>3
        <5>. QED BY <5>1
      <4>2. Tail(stack)[k] = stack[i]
        BY <1>3, <4>1
      <4>3. Len(js) + k \in 1 .. Len(stack') /\ Holds(stack'[Len(js) + k].d, q)
        BY <2>1, <2>5, <3>1, <4>2
      <4>. QED BY <4>3 DEF Waits
    <3>. QED BY <3>2, <3>3
  <2>. QED BY <2>6, <2>7 DEF Waits
<1>. QED BY <1>5, <1>6

\* The leaves leave out no point of the root.
LEMMA LeavesCover == Spec => []Covered
<1>1. Init => Covered
  BY DEF Init, Covered, Single
<1>2. IndexInv /\ Covered /\ [Next]_vars => Covered'
  <2>. SUFFICES ASSUME IndexInv, Covered, [Next]_vars PROVE Covered'
    OBVIOUS
  <2>0. root' = root
    BY WhoPlans
  <2>1. CASE PlanNode \/ PlanMiscounts
    <3>1. phase' \in {"plan", "unplanned"} /\ leaves' = leaves
      BY <2>1 DEF PlanNode, PlanMiscounts
    <3>. QED BY <3>1 DEF Covered
  <2>2. CASE FinishPlan
    <3>1. /\ leaves' = leaves
          /\ \/ phase' = "expand" /\ stack' = <<[d |-> root, node |-> 1]>>
             \/ phase' = "refused"
      BY <2>2 DEF FinishPlan
    <3>2. ASSUME NEW q \in [Axes -> Int], Holds(root, q),
                 stack' = <<[d |-> root, node |-> 1]>>
          PROVE  Waits(leaves', stack', q)
      <4>1. 1 \in 1 .. Len(stack') /\ stack'[1].d = root
        BY <3>2
      <4>. QED BY <3>2, <4>1 DEF Waits
    <3>. QED BY <2>0, <3>1, <3>2 DEF Covered
  <2>3. CASE ExpandLeaf \/ ExpandNode
    <3>1. Single(leaves')
      <4>1. leaves' = leaves \/ \E d \in Domain : leaves' = Append(leaves, d) /\ d.size[3] = 1
        <5>1. CASE ExpandNode
          BY <5>1 DEF ExpandNode, ExpandFails
        <5>2. CASE ExpandLeaf
          <6>1. Expanding /\ stack # <<>>
            BY <5>2 DEF ExpandLeaf
          <6>2. stack \in Seq(Job(Len(Template))) /\ Len(Template) \in Nat
            BY <6>1, WhileExpanding
          <6>3. Head(stack) \in Job(Len(Template))
            BY <6>1, <6>2
          <6>4. Head(stack).d \in Domain
            BY <6>3 DEF Job
          <6>. QED BY <5>2, <6>4 DEF ExpandLeaf, ExpandFails, List
        <5>. QED BY <2>3, <5>1, <5>2
      <4>2. CASE leaves' = leaves
        BY <4>2 DEF Covered
      <4>3. ASSUME NEW d \in Domain, leaves' = Append(leaves, d), d.size[3] = 1
            PROVE  Single(leaves')
        <5>1. leaves \in Seq(Domain)
          BY DEF IndexInv, TreesTyped
        <5>2. /\ Len(leaves') = Len(leaves) + 1 /\ leaves'[Len(leaves) + 1] = d
              /\ \A i \in 1 .. Len(leaves) : leaves'[i] = leaves[i]
          BY <4>3, <5>1
        <5>3. \A i \in 1 .. Len(leaves') : i \in 1 .. Len(leaves) \/ i = Len(leaves) + 1
          BY <5>1, <5>2
        <5>. QED BY <4>3, <5>2, <5>3 DEF Covered, Single
      <4>. QED BY <4>1, <4>2, <4>3
    <3>2. CASE phase' \in {"refused", "rejected"}
      BY <3>1, <3>2 DEF Covered
    <3>3. CASE phase = "expand" /\ phase' = phase
      <4>1. ASSUME NEW q \in [Axes -> Int], Holds(root, q)
            PROVE  Waits(leaves', stack', q)
        <5>1. Waits(leaves, stack, q)
          BY <3>3, <4>1 DEF Covered
        <5>. QED BY <2>3, <3>3, <5>1, ExpansionStepHolds
      <4>. QED BY <2>0, <3>1, <3>3, <4>1 DEF Covered
    <3>4. CASE phase = "reexpand" /\ phase' = phase /\ leaves' = leaves
      BY <2>0, <3>4 DEF Covered
    <3>. QED BY <2>3, <3>2, <3>3, <3>4, HowExpansionsStep
  <2>4. CASE FinishExpand
    <3>1. phase = "expand" /\ stack = <<>> /\ phase' = "encode" /\ leaves' = leaves
      BY <2>4 DEF FinishExpand
    <3>2. ASSUME NEW q \in [Axes -> Int], Waits(leaves, stack, q)
          PROVE  Reaches(leaves, q)
      <4>1. ~ \E i \in 1 .. Len(stack) : TRUE
        BY <3>1
      <4>. QED BY <3>2, <4>1 DEF Waits, Reaches
    <3>. QED BY <2>0, <3>1, <3>2 DEF Covered, Covers
  <2>5. CASE EncodeLeaf \/ WriteFile \/ DamageFile \/ ReadNode
    <3>1. /\ phase \in {"encode", "read"} /\ phase' \in {"encode", "read", "rejected"}
          /\ leaves' = leaves
      BY <2>5 DEF EncodeLeaf, WriteFile, DamageFile, ReadNode
    <3>. QED BY <2>0, <3>1 DEF Covered
  <2>6. CASE FinishRead \/ FinishIndex \/ DecodeLeaf
    <3>1. /\ phase \in {"read", "reexpand", "decode"}
          /\ phase' \in {"reexpand", "decode", "done", "rejected"}
          /\ leaves' = leaves
      BY <2>6 DEF FinishRead, FinishIndex, DecodeLeaf
    <3>. QED BY <2>0, <3>1 DEF Covered
  <2>7. CASE UNCHANGED vars
    BY <2>7 DEF vars, Covered
  <2>. QED BY <2>1, <2>2, <2>3, <2>4, <2>5, <2>6, <2>7 DEF Next
<1>. QED BY <1>1, <1>2, IndexInvariant, PTL DEF Spec

-----------------------------------------------------------------------------
(* Every voxel comes back to its place.                                    *)

\* What the leaves decoded so far put is there.
Written ==
    /\ DOMAIN out = 0 .. Volume(root) - 1
    /\ found \in Nat
    /\ phase \in {"plan", "expand", "encode", "read", "reexpand"} => found = 0
    /\ phase \in {"decode", "done"} /\ ~ damaged =>
          \A k \in 1 .. found : \A x \in DOMAIN out :
              Puts(layout, root, leaves[k], x) => out[x] = x
    /\ phase = "done" => found = Len(index)

\* A leaf scattered by its own domain puts its voxels in their places and leaves the
\* others alone.
LEMMA ScatterPuts ==
    ASSUME file.layout = layout, ReadRoot = root, NEW d
    PROVE  /\ DOMAIN Scatter(d, d) = DOMAIN out
           /\ \A x \in DOMAIN out :
                 /\ Puts(layout, root, d, x) => Scatter(d, d)[x] = x
                 /\ ~ Puts(layout, root, d, x) => Scatter(d, d)[x] = out[x]
<1>. DEFINE voxels == 0 .. Volume(d) - 1
            to == [i \in voxels |-> Place(layout, root, d, i)]
            filled == {to[i] : i \in voxels}
            Source(x) == CHOOSE i \in voxels : to[i] = x
            g == [x \in DOMAIN out |->
                    IF x \in filled THEN Place(layout, root, d, Source(x)) ELSE out[x]]
<1>1. Scatter(d, d) = g
  BY DEF Scatter
<1>. HIDE DEF voxels
<1>2. ASSUME NEW x \in DOMAIN out
      PROVE  x \in filled <=> Puts(layout, root, d, x)
  BY DEF Puts, voxels
<1>3. ASSUME NEW x \in DOMAIN out, x \in filled
      PROVE  Place(layout, root, d, Source(x)) = x
  <2>1. \E i \in voxels : to[i] = x
    BY <1>3
  <2>2. Source(x) \in voxels /\ to[Source(x)] = x
    BY <2>1
  <2>. HIDE DEF Source
  <2>. QED BY <2>2
<1>. HIDE DEF filled, Source, to
<1>. QED BY <1>1, <1>2, <1>3

\* Decoding keeps what is written and adds the next leaf.
LEMMA DecodingWrites == Spec => []Written
<1>1. Init => Written
  <2>. SUFFICES ASSUME Init PROVE Written
    OBVIOUS
  <2>1. phase = "plan" /\ found = 0 /\ out = [i \in 0 .. Volume(root) - 1 |-> -1]
    BY DEF Init
  <2>. QED BY <2>1 DEF Written
<1>2. IndexInv /\ FileTells /\ Retraced /\ Written /\ [Next]_vars => Written'
  <2>. SUFFICES ASSUME IndexInv, FileTells, Retraced, Written, [Next]_vars
                PROVE  Written'
    OBVIOUS
  <2>0. root' = root /\ layout' = layout
    BY WhoPlans
  <2>1. CASE PlanNode \/ PlanMiscounts \/ FinishPlan
    <3>1. /\ phase' \in {"plan", "unplanned", "expand", "refused"} /\ phase = "plan"
          /\ UNCHANGED <<out, found>>
      BY <2>1 DEF PlanNode, PlanMiscounts, FinishPlan
    <3>. QED BY <2>0, <3>1 DEF Written
  <2>2. CASE ExpandLeaf \/ ExpandNode
    <3>1. /\ Expanding /\ UNCHANGED <<out, found>>
          /\ phase' = phase \/ phase' \in {"refused", "rejected"}
      BY <2>2, HowExpansionsStep
    <3>. QED BY <2>0, <3>1 DEF Written, Expanding
  <2>3. CASE FinishExpand \/ EncodeLeaf \/ WriteFile \/ DamageFile \/ ReadNode \/ FinishRead
    <3>1. /\ phase \in {"expand", "encode", "read"}
          /\ phase' \in {"encode", "read", "reexpand", "rejected"}
          /\ UNCHANGED <<out, found>>
      BY <2>3 DEF FinishExpand, EncodeLeaf, WriteFile, DamageFile, ReadNode, FinishRead
    <3>. QED BY <2>0, <3>1 DEF Written
  <2>4. CASE FinishIndex
    <3>1. /\ phase = "reexpand" /\ phase' \in {"decode", "rejected"}
          /\ UNCHANGED <<out, found>>
      BY <2>4 DEF FinishIndex
    <3>2. found = 0
      BY <3>1 DEF Written
    <3>. QED BY <2>0, <3>1, <3>2 DEF Written
  <2>5. CASE DecodeLeaf
    <3>. DEFINE d == index[found + 1]
                j == PayloadAt(found + 1)
    <3>1. /\ phase = "decode" /\ found < Len(index)
          /\ UNCHANGED <<file, leaves, index, damaged>>
          /\ \/ /\ j # 0 /\ out' = Scatter(d, leaves[j]) /\ found' = found + 1
                /\ phase' = IF found' = Len(index) THEN "done" ELSE phase
             \/ phase' = "rejected" /\ UNCHANGED <<out, found>>
      BY <2>5 DEF DecodeLeaf
    <3>2. CASE phase' = "rejected" /\ UNCHANGED <<out, found>>
      BY <2>0, <3>2 DEF Written
    <3>3. CASE /\ j # 0 /\ out' = Scatter(d, leaves[j]) /\ found' = found + 1
               /\ phase' = IF found' = Len(index) THEN "done" ELSE phase
      <4>1. found' \in Nat /\ phase' \in {"decode", "done"}
            /\ (phase' = "done" => found' = Len(index'))
        BY <3>1, <3>3 DEF Written
      <4>2. DOMAIN out' = DOMAIN out
        BY <3>3 DEF Scatter
      <4>3. ASSUME ~ damaged
            PROVE  \A k \in 1 .. found' : \A x \in DOMAIN out :
                      Puts(layout, root, leaves[k], x) => out'[x] = x
        <5>1. file.layout = layout /\ ReadRoot = root /\ index = leaves
          BY <3>1, <4>3 DEF FileTells, Retraced
        <5>2. j = found + 1
          BY <3>3 DEF PayloadAt
        <5>. HIDE DEF j
        <5>3. out' = Scatter(d, d)
          BY <3>3, <5>1, <5>2
        <5>. HIDE DEF d
        <5>4. \A x \in DOMAIN out : /\ Puts(layout, root, d, x) => out'[x] = x
                                    /\ ~ Puts(layout, root, d, x) => out'[x] = out[x]
          BY <5>1, <5>3, ScatterPuts
        <5>5. \A k \in 1 .. found : \A x \in DOMAIN out :
                  Puts(layout, root, leaves[k], x) => out[x] = x
          BY <3>1, <4>3 DEF Written
        <5>6. \A k \in 1 .. found' : k \in 1 .. found \/ k = found + 1
          BY <3>3 DEF Written
        <5>7. leaves[found + 1] = d
          BY <5>1 DEF d
        <5>. QED BY <5>4, <5>5, <5>6, <5>7
      <4>4. leaves' = leaves /\ (damaged' <=> damaged)
        BY <3>1
      <4>. QED BY <2>0, <3>1, <4>1, <4>2, <4>3, <4>4 DEF Written
    <3>. QED BY <3>1, <3>2, <3>3
  <2>6. CASE UNCHANGED vars
    BY <2>6 DEF vars, Written
  <2>. QED BY <2>1, <2>2, <2>3, <2>4, <2>5, <2>6 DEF Next
<1>. QED BY <1>1, <1>2, IndexInvariant, FileIsTold, ReaderRetraces, PTL DEF Spec

\* A root begins at 0 and is not empty.
LEMMA RootIsVolumetric ==
    ASSUME NEW r \in Roots
    PROVE  Volumetric(r)
<1>1. r \in [at : [Axes -> {0}], size : [Axes -> Nat]] /\ \A a \in Axes : r.size[a] >= Grain(a)
  BY RootsAssumption
<1>2. \A a \in Axes : r.at[a] = 0 /\ r.size[a] \in Nat /\ Grain(a) \in Nat /\ Grain(a) >= 1
  BY <1>1, UnitAssumption DEF Grain
<1>3. \A a \in Axes : r.size[a] >= 1
  BY <1>1, <1>2
<1>. QED BY <1>2, <1>3, RootFacts DEF Volumetric

\* Whatever the volume, its layout, its plan and its leaves' lengths: when an undamaged
\* file has been decoded, each place of the output holds the voxel the encoder took from
\* there (vc_indexed_encode and vc_indexed_decode with place).
THEOREM OutputAlwaysInput == Spec => []OutputIsInput
<1>1. IndexInv /\ Retraced /\ Covered /\ Written => OutputIsInput
  <2>. SUFFICES ASSUME IndexInv, Retraced, Covered, Written, phase = "done", ~ damaged,
                       NEW x \in DOMAIN out
                PROVE  out[x] = x
    BY DEF OutputIsInput
  <2>1. x \in 0 .. Volume(root) - 1 /\ found = Len(leaves)
        /\ \A k \in 1 .. found : Puts(layout, root, leaves[k], x) => out[x] = x
    BY DEF Written, Retraced
  <2>2. /\ leaves \in Seq(Domain) /\ Volumetric(root) /\ Single(leaves)
        /\ Covers(leaves, root)
    BY RootIsVolumetric DEF IndexInv, TreesTyped, Covered
  <2>3. \E k \in 1 .. Len(leaves) : Puts(layout, root, leaves[k], x)
    BY <2>1, <2>2, AllReached
  <2>. QED BY <2>1, <2>3
<1>. QED BY <1>1, IndexInvariant, ReaderRetraces, LeavesCover, DecodingWrites, PTL

-----------------------------------------------------------------------------
(* Aligned domains.                                                        *)

\* One unit or more, and nothing over.
Units(v, g) == v \in Nat /\ v >= g /\ v % g = 0

Aligned == {d \in Domain : \A a \in Axes : Units(d.size[a], Grain(a))}

LEMMA GrainFacts == \A a \in Axes : Grain(a) \in Nat \ {0}
BY UnitAssumption DEF Grain

\* A positive multiple is a unit at least.
LEMMA UnitsFacts ==
    ASSUME NEW g \in Nat \ {0}, NEW v \in Int, v > 0, v % g = 0
    PROVE  Units(v, g)
<1>. DEFINE q == v \div g
            r == v % g
<1>1. q \in Nat /\ r = 0 /\ v = g * q + r
  BY DivisionFacts
<1>. HIDE DEF q, r
<1>2. v = g * q
  BY <1>1
<1>3. q # 0
  <2>1. q = 0 => g * q = 0
    OBVIOUS
  <2>. QED BY <1>2, <2>1
<1>4. \A i \in Nat \ {0}, k \in Nat \ {0} : i * k >= i
  OBVIOUS
<1>5. v >= g
  BY <1>1, <1>2, <1>3, <1>4
<1>. QED BY <1>5 DEF Units

\* What a multiple leaves of another is one.
LEMMA UnitsLeft ==
    ASSUME NEW g \in Nat \ {0}, NEW u, Units(u, g), NEW v \in Int, v > 0, v < u, v % g = 0
    PROVE  Units(u - v, g)
<1>1. u \in Nat /\ v \in Nat /\ u % g = 0
  BY DEF Units
<1>. DEFINE i == u \div g
            k == v \div g
<1>2. i \in Nat /\ k \in Nat /\ u = g * i /\ v = g * k
  BY <1>1, DivisionFacts
<1>. HIDE DEF i, k
<1>3. g * i - g * k = g * (i - k)
  BY <1>2
<1>4. i - k > 0
  <2>1. \A x \in Int : x <= 0 => g * x <= 0
    OBVIOUS
  <2>2. g * (i - k) > 0 /\ i - k \in Int
    BY <1>1, <1>2, <1>3
  <2>. QED BY <2>1, <2>2
<1>5. PICK w, q : w = u - v /\ q = i - k
  OBVIOUS
<1>6. w \in Nat /\ q \in Nat /\ w = g * q /\ w > 0
  BY <1>1, <1>2, <1>3, <1>4, <1>5
<1>7. g * q <= w /\ w < g * q + g
  BY <1>6
<1>8. w % g = w - g * q
  BY <1>6, <1>7, DivisionUnique
<1>9. w % g = 0
  <2>1. w - g * q = 0
    BY <1>6
  <2>. QED BY <1>8, <2>1
<1>. QED BY <1>5, <1>6, <1>9, UnitsFacts

\* A slice of whole units is aligned.
LEMMA SliceAligned ==
    ASSUME NEW d \in Aligned, NEW a \in Axes, NEW from \in Int, NEW extent,
           Units(extent, Grain(a))
    PROVE  Slice(d, a, from, extent) \in Aligned
<1>1. d \in Domain /\ extent \in Int /\ \A b \in Axes : Units(d.size[b], Grain(b))
  BY DEF Aligned, Units
<1>2. PICK s : s = Slice(d, a, from, extent)
  OBVIOUS
<1>3. s \in Domain /\ s.size[a] = extent /\ \A b \in Axes \ {a} : s.size[b] = d.size[b]
  BY <1>1, <1>2, SliceFacts
<1>4. \A b \in Axes : Units(s.size[b], Grain(b))
  <2>1. \A b \in Axes : b = a \/ b \in Axes \ {a}
    OBVIOUS
  <2>. QED BY <1>1, <1>3, <2>1
<1>. QED BY <1>2, <1>3, <1>4 DEF Aligned

\* What divides an aligned domain leaves aligned parts.
LEMMA PartsAligned ==
    ASSUME NEW d \in Aligned, NEW node \in Node, Divides(d, node)
    PROVE  Parts(d, node) \in Seq(Aligned)
<1>. DEFINE a == AxisOf(node)
            v == node.value
            g == Grain(a)
            P == Parts(d, node)
<1>1. a \in Axes /\ v \in Int
  <2>1. node.tag \in 0 .. 8 /\ v \in Int
    BY DEF Node, LeafTag
  <2>2. \A x \in 0 .. 8 : x % 4 \in 0 .. 3
    OBVIOUS
  <2>. QED BY <2>1, <2>2 DEF AxisOf, Axes
<1>2. /\ d \in Domain /\ Units(d.size[a], g) /\ g \in Nat \ {0}
      /\ d.size[a] \in Nat
  BY <1>1, GrainFacts DEF Aligned, Units
<1>3. P \in Seq(Domain)
  BY <1>2, PartsFacts
<1>4. ASSUME NEW r \in 1 .. Len(P)
      PROVE  P[r] \in Aligned
  <2>1. CASE Cuts(node)
    <3>1. v > 0 /\ v < d.size[a] /\ v % g = 0
      BY <2>1 DEF Divides
    <3>2. PICK rest : rest = d.size[a] - v
      OBVIOUS
    <3>3. P = << Slice(d, a, 0, v), Slice(d, a, v, rest) >>
      BY <2>1, <3>2 DEF Parts
    <3>4. Units(v, g) /\ Units(rest, g)
      <4>. HIDE DEF v, g, a
      <4>1. Units(v, g)
        BY <1>1, <1>2, <3>1, UnitsFacts
      <4>2. Units(d.size[a] - v, g)
        BY <1>1, <1>2, <3>1, UnitsLeft
      <4>. QED BY <3>2, <4>1, <4>2
    <3>. HIDE DEF a, v
    <3>5. Slice(d, a, 0, v) \in Aligned /\ Slice(d, a, v, rest) \in Aligned
      <4>1. 0 \in Int
        OBVIOUS
      <4>. QED BY <1>1, <3>4, <4>1, SliceAligned DEF g
    <3>6. r = 1 \/ r = 2
      <4>1. Len(P) = 2
        BY <3>3
      <4>. QED BY <4>1
    <3>. QED BY <3>3, <3>5, <3>6
  <2>2. CASE ~ Cuts(node)
    <3>1. v >= 2 /\ d.size[a] \div v > 0 /\ (d.size[a] \div v) % g = 0
      BY <2>2 DEF Divides
    <3>2. PICK part : part = d.size[a] \div v
      OBVIOUS
    <3>3. P = [q \in 1 .. v |-> Slice(d, a, (q - 1) * part, part)]
      BY <2>2, <3>2 DEF Parts
    <3>4. part \in Int
      <4>1. v \in Nat \ {0}
        BY <1>1, <3>1
      <4>. HIDE DEF v, a
      <4>. QED BY <1>2, <3>2, <4>1, DivisionFacts
    <3>5. Units(part, g)
      <4>1. part > 0 /\ part % g = 0
        BY <3>1, <3>2
      <4>. HIDE DEF g
      <4>. QED BY <1>2, <3>4, <4>1, UnitsFacts
    <3>6. r \in 1 .. v
      <4>1. Len(P) = v
        <5>1. v \in Nat
          BY <1>1, <3>1
        <5>. HIDE DEF v, a, P
        <5>. QED BY <3>3, <5>1
      <4>. QED BY <4>1
    <3>7. PICK from : from = (r - 1) * part
      OBVIOUS
    <3>8. from \in Int
      BY <1>1, <3>4, <3>6, <3>7
    <3>9. P[r] = Slice(d, a, from, part)
      <4>. HIDE DEF P, v
      <4>. QED BY <3>3, <3>6, <3>7
    <3>. HIDE DEF a, P
    <3>. QED BY <1>1, <3>5, <3>8, <3>9, SliceAligned DEF g
  <2>. QED BY <2>1, <2>2
<1>5. P = [r \in 1 .. Len(P) |-> P[r]] /\ Len(P) \in Nat
  BY <1>3
<1>. HIDE DEF P, Aligned
<1>6. P \in [1 .. Len(P) -> Aligned]
  BY <1>4, <1>5
<1>7. P \in Seq(Aligned)
  BY <1>5, <1>6
<1>. QED BY <1>7 DEF P

\* Domains of one size are divided alike.
LEMMA SameSize ==
    ASSUME NEW d, NEW e, d.size = e.size, NEW node
    PROVE  /\ Divides(d, node) <=> Divides(e, node)
           /\ DOMAIN Parts(d, node) = DOMAIN Parts(e, node)
           /\ \A r \in DOMAIN Parts(d, node) : Parts(d, node)[r].size = Parts(e, node)[r].size
<1>1. Divides(d, node) <=> Divides(e, node)
  BY DEF Divides
<1>2. CASE Cuts(node)
  BY <1>1, <1>2 DEF Parts, Slice
<1>3. CASE ~ Cuts(node)
  BY <1>1, <1>3 DEF Parts, Slice
<1>. QED BY <1>2, <1>3

\* The parts of a repeat have one size.
LEMMA RepeatAlike ==
    ASSUME NEW d, NEW node, ~ Cuts(node), NEW r \in DOMAIN Parts(d, node),
           1 \in DOMAIN Parts(d, node)
    PROVE  Parts(d, node)[r].size = Parts(d, node)[1].size
BY DEF Parts, Slice


-----------------------------------------------------------------------------
(* A finished plan is a whole tree, each node of it planned for a size.    *)

\* What planning a node makes of the domains to plan.
PlanStep(st, node, st2) ==
    /\ st # <<>> /\ Plannable(Head(st), node)
    /\ st2 = ToPlan(Head(st), node) \o Tail(st)

\* The domains to plan before each node of s and after the last, from the root on.
Planned(s, r, h) ==
    /\ h[0] = <<r>>
    /\ \A k \in 0 .. Len(s) : h[k] \in Seq(Aligned)
    /\ \A k \in 0 .. Len(s) - 1 : PlanStep(h[k], s[k + 1], h[k + 1])

\* A node leaves to plan no part, the first or both.
LEMMA ToPlanFacts ==
    ASSUME NEW d \in Aligned, NEW node \in Node, Plannable(d, node)
    PROVE  /\ ToPlan(d, node) \in Seq(Aligned)
           /\ node.tag = LeafTag => ToPlan(d, node) = <<>>
           /\ node.tag # LeafTag => /\ Divides(d, node)
                                    /\ Parts(d, node) \in Seq(Aligned)
                                    /\ Len(Parts(d, node)) >= 1
           /\ node.tag # LeafTag /\ Cuts(node) =>
                 /\ ToPlan(d, node) = Parts(d, node) /\ Len(Parts(d, node)) = 2
           /\ node.tag # LeafTag /\ ~ Cuts(node) => ToPlan(d, node) = <<Parts(d, node)[1]>>
<1>1. CASE node.tag = LeafTag
  <2>. HIDE DEF Aligned
  <2>. QED BY <1>1 DEF ToPlan
<1>2. CASE node.tag # LeafTag
  <2>. DEFINE P == Parts(d, node)
  <2>1. Divides(d, node) /\ d \in Domain
    BY <1>2 DEF Plannable, Aligned
  <2>2. P \in Seq(Aligned) /\ Len(P) >= 1 /\ (Cuts(node) => Len(P) = 2)
    BY <2>1, PartsAligned, PartsFacts
  <2>3. ToPlan(d, node) = IF Cuts(node) THEN P ELSE <<Head(P)>>
    BY <1>2 DEF ToPlan
  <2>. HIDE DEF P, Aligned
  <2>4. Head(P) = P[1] /\ P[1] \in Aligned
    BY <2>2
  <2>5. <<P[1]>> \in Seq(Aligned)
    BY <2>4
  <2>. QED BY <1>2, <2>1, <2>2, <2>3, <2>4, <2>5 DEF P
<1>. QED BY <1>1, <1>2

\* A plan grows by a node for the first of the domains.
LEMMA PlanGrows ==
    ASSUME NEW s \in Seq(Node), NEW r, NEW h, Planned(s, r, h),
           NEW node \in Node, NEW st, PlanStep(h[Len(s)], node, st)
    PROVE  \E g : Planned(Append(s, node), r, g) /\ g[Len(s) + 1] = st
<1>. DEFINE new == Append(s, node)
<1>1. PICK n \in Nat : n = Len(s)
  OBVIOUS
<1>. DEFINE g == [k \in 0 .. n + 1 |-> IF k = n + 1 THEN st ELSE h[k]]
<1>2. Len(new) = n + 1 /\ new[n + 1] = node /\ \A k \in 1 .. n : new[k] = s[k]
  BY <1>1
<1>. HIDE DEF new
<1>3. g[n + 1] = st /\ \A k \in 0 .. n : g[k] = h[k]
  OBVIOUS
<1>. HIDE DEF g
<1>4. st \in Seq(Aligned)
  <2>1. PICK st0 : st0 = h[n]
    OBVIOUS
  <2>2. st0 \in Seq(Aligned) /\ st0 # <<>>
    BY <1>1, <2>1 DEF Planned, PlanStep
  <2>3. Head(st0) \in Aligned /\ Tail(st0) \in Seq(Aligned)
    <3>. HIDE DEF Aligned
    <3>. QED BY <2>2
  <2>4. PICK c : c = ToPlan(Head(st0), node)
    OBVIOUS
  <2>5. Plannable(Head(st0), node) /\ st = c \o Tail(st0)
    BY <1>1, <2>1, <2>4 DEF PlanStep
  <2>6. c \in Seq(Aligned)
    BY <2>3, <2>4, <2>5, ToPlanFacts
  <2>. HIDE DEF Aligned
  <2>. QED BY <2>3, <2>5, <2>6
<1>5. \A k \in 0 .. n + 1 : g[k] \in Seq(Aligned)
  <2>1. \A k \in 0 .. n : h[k] \in Seq(Aligned)
    BY <1>1 DEF Planned
  <2>2. \A k \in 0 .. n + 1 : k = n + 1 \/ k \in 0 .. n
    OBVIOUS
  <2>. QED BY <1>3, <1>4, <2>1, <2>2
<1>6. ASSUME NEW k \in 0 .. (n + 1) - 1
      PROVE  PlanStep(g[k], new[k + 1], g[k + 1])
  <2>1. CASE k = n
    BY <1>1, <1>2, <1>3, <2>1
  <2>2. CASE k # n
    <3>1. k \in 0 .. n - 1 /\ k \in 0 .. n /\ k + 1 \in 0 .. n /\ k + 1 \in 1 .. n
      BY <2>2
    <3>2. PlanStep(h[k], s[k + 1], h[k + 1])
      BY <1>1, <3>1 DEF Planned
    <3>. QED BY <1>2, <1>3, <3>1, <3>2
  <2>. QED BY <2>1, <2>2
<1>7. g[0] = <<r>>
  BY <1>1, <1>3 DEF Planned
<1>8. Planned(new, r, g)
  BY <1>2, <1>5, <1>6, <1>7 DEF Planned
<1>. QED BY <1>1, <1>3, <1>8 DEF new

\* After a node's subtree, the domains are those that were waiting.
Told(s, h, i) ==
    Ends(s)[i] \in i + 1 .. Len(s) + 1 /\ h[Ends(s)[i] - 1] = Tail(h[i - 1])

\* One step of a plan, node by node: with s the first domain's parts, others the rest.
LEMMA PlanStepFacts ==
    ASSUME NEW s \in Seq(Node), NEW r, NEW h, Planned(s, r, h), NEW i \in 1 .. Len(s)
    PROVE  /\ h[i - 1] \in Seq(Aligned) /\ h[i - 1] # <<>>
           /\ Head(h[i - 1]) \in Aligned /\ Tail(h[i - 1]) \in Seq(Aligned)
           /\ Plannable(Head(h[i - 1]), s[i])
           /\ h[i] \in Seq(Aligned)
           /\ s[i].tag = LeafTag => h[i] = Tail(h[i - 1])
           /\ s[i].tag # LeafTag /\ Cuts(s[i]) =>
                 h[i] = Parts(Head(h[i - 1]), s[i]) \o Tail(h[i - 1])
           /\ s[i].tag # LeafTag /\ ~ Cuts(s[i]) =>
                 h[i] = <<Parts(Head(h[i - 1]), s[i])[1]>> \o Tail(h[i - 1])
<1>1. PICK n \in Nat : n = Len(s)
  OBVIOUS
<1>2. i - 1 \in 0 .. n /\ i - 1 \in 0 .. n - 1 /\ (i - 1) + 1 = i /\ i \in 0 .. n
  BY <1>1
<1>3. PICK st, st2 : st = h[i - 1] /\ st2 = h[i]
  OBVIOUS
<1>4. PlanStep(st, s[i], st2) /\ st \in Seq(Aligned) /\ st2 \in Seq(Aligned)
  BY <1>1, <1>2, <1>3 DEF Planned
<1>5. st # <<>> /\ Plannable(Head(st), s[i]) /\ st2 = ToPlan(Head(st), s[i]) \o Tail(st)
  BY <1>4 DEF PlanStep
<1>6. Head(st) \in Aligned /\ Tail(st) \in Seq(Aligned) /\ s[i] \in Node
  <2>. HIDE DEF Aligned, Node
  <2>. QED BY <1>4, <1>5
<1>7. s[i].tag = LeafTag => st2 = Tail(st)
  <2>. SUFFICES ASSUME s[i].tag = LeafTag PROVE st2 = Tail(st)
    OBVIOUS
  <2>1. st2 = <<>> \o Tail(st)
    BY <1>5, <1>6, ToPlanFacts
  <2>2. PICK tl \in Seq(Aligned) : tl = Tail(st)
    BY <1>6
  <2>. HIDE DEF Aligned
  <2>3. <<>> \o tl = tl
    BY <2>2
  <2>. QED BY <2>1, <2>2, <2>3
<1>8. /\ s[i].tag # LeafTag /\ Cuts(s[i]) => st2 = Parts(Head(st), s[i]) \o Tail(st)
      /\ s[i].tag # LeafTag /\ ~ Cuts(s[i]) =>
            st2 = <<Parts(Head(st), s[i])[1]>> \o Tail(st)
  BY <1>5, <1>6, ToPlanFacts
<1>. QED BY <1>3, <1>4, <1>5, <1>6, <1>7, <1>8

\* A sequence of two.
LEMMA Pair ==
    ASSUME NEW X, NEW P \in Seq(X), Len(P) = 2
    PROVE  P = <<P[1], P[2]>> /\ P[1] \in X /\ P[2] \in X
<1>1. P[1] \in X /\ P[2] \in X
  OBVIOUS
<1>2. P = [i \in 1 .. 2 |-> P[i]]
  OBVIOUS
<1>3. <<P[1], P[2]>> = [i \in 1 .. 2 |-> P[i]]
  OBVIOUS
<1>. QED BY <1>1, <1>2, <1>3

\* Where the subtree of a node ends, the domains that were waiting are next.
LEMMA EndsTold ==
    ASSUME NEW s \in Seq(Node), NEW r, NEW h, Planned(s, r, h), h[Len(s)] = <<>>,
           NEW i \in 1 .. Len(s)
    PROVE  Told(s, h, i)
<1>1. PICK n \in Nat : n = Len(s)
  OBVIOUS
<1>. DEFINE E == Ends(s)
            T(j) == E[j] \in j + 1 .. n + 1 /\ h[E[j] - 1] = Tail(h[j - 1])
            N == {k \in Nat : \A j \in 1 .. n : j > n - k => T(j)}
<1>2. \A j \in 1 .. n : E[j] = End(s, E, j)
  BY <1>1, EndsUnfold
<1>. HIDE DEF E
<1>3. 0 \in N
  OBVIOUS
<1>4. ASSUME NEW k \in N
      PROVE  k + 1 \in N
  <2>. SUFFICES ASSUME NEW j \in 1 .. n, j > n - (k + 1)
                PROVE  T(j)
    OBVIOUS
  <2>1. CASE j > n - k
    BY <2>1
  <2>2. CASE ~ (j > n - k)
    <3>1. \A x \in 1 .. n : x > j => T(x)
      <4>1. \A x \in 1 .. n : x > j => x > n - k
        BY <2>2
      <4>. QED BY <4>1
    <3>. HIDE DEF T, N
    <3>2. PICK st, st2, d, tl : st = h[j - 1] /\ st2 = h[j] /\ d = Head(st) /\ tl = Tail(st)
      OBVIOUS
    <3>3. /\ d \in Aligned /\ tl \in Seq(Aligned) /\ Plannable(d, s[j])
          /\ s[j].tag = LeafTag => st2 = tl
          /\ s[j].tag # LeafTag /\ Cuts(s[j]) => st2 = Parts(d, s[j]) \o tl
          /\ s[j].tag # LeafTag /\ ~ Cuts(s[j]) => st2 = <<Parts(d, s[j])[1]>> \o tl
      BY <1>1, <3>2, PlanStepFacts
    <3>4. CASE s[j].tag = LeafTag
      <4>1. E[j] = j + 1
        BY <1>2, <3>4 DEF End
      <4>2. E[j] \in j + 1 .. n + 1 /\ E[j] - 1 = j
        BY <4>1
      <4>. QED BY <3>2, <3>3, <3>4, <4>2 DEF T
    <3>5. CASE s[j].tag # LeafTag
      <4>0. s[j] \in Node
        BY <1>1
      <4>1. /\ Parts(d, s[j]) \in Seq(Aligned) /\ Len(Parts(d, s[j])) >= 1
            /\ Cuts(s[j]) => Len(Parts(d, s[j])) = 2
        BY <3>3, <3>5, <4>0, ToPlanFacts
      <4>2. PICK P \in Seq(Aligned) : P = Parts(d, s[j])
        BY <4>1
      <4>3. /\ Cuts(s[j]) => Len(P) = 2 /\ st2 = P \o tl
            /\ ~ Cuts(s[j]) => st2 = <<P[1]>> \o tl
            /\ P[1] \in Aligned
        <5>1. P[1] \in Aligned
          <6>. HIDE DEF Aligned
          <6>. QED BY <4>1, <4>2
        <5>. QED BY <3>3, <3>5, <4>1, <4>2, <5>1
      <4>. HIDE DEF Aligned
      <4>4. /\ st2 # <<>>
            /\ ~ Cuts(s[j]) => Tail(st2) = tl
            /\ Cuts(s[j]) => Tail(st2) = <<P[2]>> \o tl /\ <<P[2]>> \o tl # <<>>
                             /\ Tail(<<P[2]>> \o tl) = tl
        <5>1. CASE Cuts(s[j])
          <6>1. PICK a, b : a = P[1] /\ b = P[2]
            OBVIOUS
          <6>2. P = <<a, b>> /\ a \in Aligned /\ b \in Aligned
            BY <4>3, <5>1, <6>1, Pair
          <6>3. /\ <<a, b>> \o tl # <<>> /\ Tail(<<a, b>> \o tl) = <<b>> \o tl
                /\ <<b>> \o tl # <<>> /\ Tail(<<b>> \o tl) = tl
            BY <3>3, <6>2
          <6>. QED BY <4>3, <5>1, <6>1, <6>2, <6>3
        <5>2. CASE ~ Cuts(s[j])
          <6>1. PICK a \in Aligned : a = P[1]
            BY <4>3
          <6>2. <<a>> \o tl # <<>> /\ Tail(<<a>> \o tl) = tl
            BY <3>3, <6>1, SMTT(30)
          <6>. QED BY <4>3, <5>2, <6>1, <6>2
        <5>. QED BY <5>1, <5>2
      <4>5. j # n
        BY <1>1, <3>2, <4>4
      <4>6. j + 1 \in 1 .. n /\ j + 1 > j /\ (j + 1) - 1 = j
        BY <4>5
      <4>7. T(j + 1)
        BY <3>1, <4>6
      <4>8. E[j + 1] \in j + 2 .. n + 1 /\ h[E[j + 1] - 1] = Tail(st2)
        BY <3>2, <4>6, <4>7 DEF T
      <4>9. CASE ~ Cuts(s[j])
        <5>1. E[j] = E[j + 1]
          BY <1>1, <1>2, <3>5, <4>5, <4>9 DEF End
        <5>2. E[j] \in j + 1 .. n + 1
          BY <4>8, <5>1
        <5>. QED BY <3>2, <4>4, <4>8, <4>9, <5>1, <5>2 DEF T
      <4>10. CASE Cuts(s[j])
        <5>1. PICK m : m = E[j + 1]
          OBVIOUS
        <5>2. h[m - 1] = <<P[2]>> \o tl /\ m \in j + 2 .. n + 1
          BY <4>4, <4>8, <4>10, <5>1
        <5>3. m # n + 1
          <6>. SUFFICES ASSUME m = n + 1 PROVE FALSE
            OBVIOUS
          <6>1. m - 1 = n
            OBVIOUS
          <6>. QED BY <1>1, <4>4, <4>10, <5>2, <6>1
        <5>4. m \in 1 .. n /\ m > j
          BY <5>2, <5>3
        <5>5. E[j] = E[m]
          BY <1>1, <1>2, <3>5, <4>5, <4>10, <5>1, <5>4 DEF End
        <5>6. T(m)
          BY <3>1, <5>4
        <5>7. E[m] \in m + 1 .. n + 1 /\ h[E[m] - 1] = Tail(h[m - 1])
          BY <5>6 DEF T
        <5>8. E[j] \in j + 1 .. n + 1
          BY <5>4, <5>5, <5>7
        <5>. QED BY <3>2, <4>4, <4>10, <5>2, <5>5, <5>7, <5>8 DEF T
      <4>. QED BY <4>9, <4>10
    <3>. QED BY <3>4, <3>5
  <2>. QED BY <2>1, <2>2
<1>5. N = Nat
  <2>1. N \subseteq Nat
    OBVIOUS
  <2>. HIDE DEF N
  <2>. QED BY <1>3, <1>4, <2>1, NumberInduction
<1>6. n \in N /\ i > n - n /\ i \in 1 .. n
  BY <1>1, <1>5
<1>7. T(i)
  BY <1>6
<1>. QED BY <1>1, <1>7 DEF Told, E

\* So it is a whole tree when no domain is left.
LEMMA PlanWhole ==
    ASSUME NEW s \in Seq(Node), NEW r, NEW h, Planned(s, r, h), h[Len(s)] = <<>>
    PROVE  WholeTree(s)
<1>1. PICK n \in Nat : n = Len(s)
  OBVIOUS
<1>2. n # 0
  <2>1. h[0] = <<r>> /\ <<r>> # <<>>
    BY DEF Planned
  <2>. QED BY <1>1, <2>1
<1>3. s # <<>> /\ 1 \in 1 .. n
  BY <1>1, <1>2
<1>4. \A i \in DOMAIN s : Ends(s)[i] # 0
  <2>1. DOMAIN s = 1 .. n
    BY <1>1
  <2>2. ASSUME NEW i \in 1 .. n
        PROVE  Ends(s)[i] # 0
    <3>1. Told(s, h, i)
      BY <1>1, EndsTold
    <3>. QED BY <1>1, <3>1 DEF Told
  <2>. QED BY <2>1, <2>2
<1>5. Ends(s)[1] = n + 1
  <2>1. PICK e : e = Ends(s)[1]
    OBVIOUS
  <2>2. Told(s, h, 1)
    BY <1>1, <1>3, EndsTold
  <2>3. e \in 2 .. n + 1 /\ h[e - 1] = Tail(h[1 - 1])
    BY <1>1, <2>1, <2>2 DEF Told
  <2>4. h[1 - 1] = <<r>>
    BY DEF Planned
  <2>5. h[e - 1] = <<>>
    BY <2>3, <2>4
  <2>6. e \in 1 .. n => h[e - 1] # <<>>
    BY <1>1, PlanStepFacts
  <2>7. ~ (e \in 1 .. n)
    BY <2>5, <2>6
  <2>8. e = n + 1
    <3>1. e \in 2 .. n + 1
      BY <2>3
    <3>. QED BY <2>7, <3>1
  <2>. QED BY <2>1, <2>8
<1>6. Ends(s)[1] = Len(s) + 1
  BY <1>1, <1>5
<1>7. s # <<>>
  BY <1>3
<1>. QED BY <1>4, <1>6, <1>7, Zenon DEF WholeTree


\* The domains still to plan are what the plan so far leaves; none, once it is done.
PlanTraced ==
    /\ phase = "plan" => \E h : Planned(t, root, h) /\ h[Len(t)] = stack
    /\ phase \in {"expand", "encode", "read", "reexpand"} =>
          \E h : Planned(t, root, h) /\ h[Len(t)] = <<>>

\* A root is aligned.
LEMMA RootAligned ==
    ASSUME NEW r \in Roots
    PROVE  r \in Aligned
<1>1. r \in Domain /\ r.size \in [Axes -> Nat]
      /\ \A a \in Axes : r.size[a] >= Grain(a) /\ r.size[a] % Grain(a) = 0
  BY RootFacts, RootsAssumption
<1>. QED BY <1>1 DEF Aligned, Units

\* Each planned node takes the plan on by a step.
LEMMA PlanIsTraced == Spec => []PlanTraced
<1>1. Init => PlanTraced
  <2>. SUFFICES ASSUME Init PROVE PlanTraced
    OBVIOUS
  <2>1. phase = "plan" /\ t = <<>> /\ stack = <<root>> /\ root \in Aligned
    BY RootAligned DEF Init
  <2>. DEFINE h == [k \in {0} |-> <<root>>]
  <2>2. h[0] = <<root>>
    OBVIOUS
  <2>. HIDE DEF h, Aligned
  <2>3. Len(t) = 0 /\ \A k \in 0 .. 0 : k = 0
    BY <2>1
  <2>4. <<root>> \in Seq(Aligned)
    BY <2>1
  <2>5. \A k \in 0 .. Len(t) : h[k] \in Seq(Aligned)
    BY <2>2, <2>3, <2>4
  <2>6. \A k \in 0 .. Len(t) - 1 : FALSE
    BY <2>3
  <2>7. Planned(t, root, h)
    BY <2>2, <2>5, <2>6 DEF Planned
  <2>. QED BY <2>1, <2>2, <2>3, <2>7 DEF PlanTraced
<1>2. IndexInv /\ PlanTraced /\ [Next]_vars => PlanTraced'
  <2>. SUFFICES ASSUME IndexInv, PlanTraced, [Next]_vars PROVE PlanTraced'
    OBVIOUS
  <2>0. UNCHANGED root /\ (PlanNode \/ t' = t)
    BY WhoPlans
  <2>1. CASE PlanNode
    <3>1. PICK h : Planned(t, root, h) /\ h[Len(t)] = stack
      BY <2>1 DEF PlanNode, PlanTraced
    <3>. DEFINE d == Head(stack)
    <3>2. d \in Domain /\ t \in Seq(Node) /\ stack # <<>> /\ phase = "plan"
      BY <2>1 DEF PlanNode, IndexInv, PlanKnown, TreesTyped
    <3>. HIDE DEF d
    <3>3. PICK node \in IF auto THEN {AutoNode(d)} ELSE PlanNodes :
              IF Plannable(d, node)
              THEN t' = Append(t, node) /\ stack' = ToPlan(d, node) \o Tail(stack)
                   /\ phase' = phase
              ELSE phase' = "unplanned"
      BY <2>1 DEF PlanNode, d
    <3>4. node \in Node
      <4>1. CASE auto
        BY <3>2, <3>3, <4>1, AutoNodeIsNode
      <4>2. CASE ~ auto
        <5>1. node \in [tag : 0 .. LeafTag, value : Nat]
          BY <3>3, <4>2, PlanAssumption
        <5>. QED BY <5>1 DEF Node
      <4>. QED BY <4>1, <4>2
    <3>5. CASE Plannable(d, node)
      <4>1. PICK st : st = stack'
        OBVIOUS
      <4>2. PlanStep(h[Len(t)], node, st)
        BY <3>1, <3>2, <3>3, <3>5, <4>1 DEF PlanStep, d
      <4>3. PICK g : Planned(Append(t, node), root, g) /\ g[Len(t) + 1] = st
        BY <3>1, <3>2, <3>4, <4>2, PlanGrows
      <4>4. t' = Append(t, node) /\ phase' = "plan"
        BY <3>2, <3>3, <3>5
      <4>5. Len(t') = Len(t) + 1
        BY <3>2, <3>4, <4>4
      <4>6. Planned(t', root', g) /\ g[Len(t')] = stack'
        BY <2>0, <4>1, <4>3, <4>4, <4>5
      <4>. QED BY <4>4, <4>6 DEF PlanTraced
    <3>6. CASE ~ Plannable(d, node)
      BY <3>3, <3>6 DEF PlanTraced
    <3>. QED BY <3>5, <3>6
  <2>2. CASE FinishPlan
    <3>1. phase = "plan" /\ stack = <<>> /\ t' = t /\ phase' \in {"expand", "refused"}
      BY <2>2 DEF FinishPlan
    <3>2. PICK h : Planned(t, root, h) /\ h[Len(t)] = <<>>
      BY <3>1 DEF PlanTraced
    <3>3. Planned(t', root', h) /\ h[Len(t')] = <<>>
      BY <2>0, <3>1, <3>2
    <3>. QED BY <3>1, <3>3 DEF PlanTraced
  <2>3. ASSUME /\ t' = t
               /\ \/ phase' \notin {"plan", "expand", "encode", "read", "reexpand"}
                  \/ /\ phase \in {"expand", "encode", "read", "reexpand"}
                     /\ phase' \in {"expand", "encode", "read", "reexpand"}
        PROVE  PlanTraced'
    <3>1. CASE phase' \notin {"plan", "expand", "encode", "read", "reexpand"}
      BY <3>1 DEF PlanTraced
    <3>2. CASE /\ phase \in {"expand", "encode", "read", "reexpand"}
               /\ phase' \in {"expand", "encode", "read", "reexpand"}
      <4>1. PICK h : Planned(t, root, h) /\ h[Len(t)] = <<>>
        BY <3>2 DEF PlanTraced
      <4>2. Planned(t', root', h) /\ h[Len(t')] = <<>>
        BY <2>0, <2>3, <4>1
      <4>. QED BY <3>2, <4>2 DEF PlanTraced
    <3>. QED BY <2>3, <3>1, <3>2
  <2>4. CASE PlanMiscounts
    BY <2>3, <2>4 DEF PlanMiscounts
  <2>5. CASE ExpandLeaf \/ ExpandNode
    BY <2>3, <2>5 DEF ExpandLeaf, ExpandNode, ExpandFails, Expanding
  <2>6. CASE FinishExpand \/ EncodeLeaf \/ WriteFile \/ DamageFile
    BY <2>3, <2>6 DEF FinishExpand, EncodeLeaf, WriteFile, DamageFile
  <2>7. CASE ReadNode \/ FinishRead \/ FinishIndex \/ DecodeLeaf
    BY <2>3, <2>7 DEF ReadNode, FinishRead, FinishIndex, DecodeLeaf
  <2>8. CASE UNCHANGED vars
    <3>1. UNCHANGED <<phase, t, root, stack>>
      BY <2>8 DEF vars
    <3>. QED BY <3>1 DEF PlanTraced
  <2>. QED BY <2>1, <2>2, <2>4, <2>5, <2>6, <2>7, <2>8 DEF Next
<1>. QED BY <1>1, <1>2, IndexInvariant, PTL DEF Spec


-----------------------------------------------------------------------------
(* An expansion of a planned tree meets the sizes that were planned.       *)

\* A job's domain has the size its node was planned for.
Sized(h, job) == job.d.size = Head(h[job.node - 1]).size
AllSized(h, st) == \A k \in 1 .. Len(st) : Sized(h, st[k])

\* A domain of an aligned domain's size is aligned.
LEMMA AlignedBySize ==
    ASSUME NEW d \in Domain, NEW e \in Aligned, d.size = e.size
    PROVE  d \in Aligned
BY DEF Aligned

\* A node that divided a domain divides its job's, into jobs of the sizes planned.
LEMMA JobsSized ==
    ASSUME NEW s \in Seq(Node), NEW r, NEW h, Planned(s, r, h), h[Len(s)] = <<>>,
           NEW d \in Domain, NEW i \in 1 .. Len(s), d.size = Head(h[i - 1]).size,
           s[i].tag # LeafTag
    PROVE  /\ Divides(d, s[i])
           /\ Jobs(d, i, s) \in Seq(Job(Len(s))) /\ AllSized(h, Jobs(d, i, s))
           /\ Len(Jobs(d, i, s)) = Len(Parts(d, s[i])) /\ Len(Jobs(d, i, s)) >= 1
<1>. DEFINE e == Head(h[i - 1])
            tl == Tail(h[i - 1])
            P == Parts(e, s[i])
            J == Jobs(d, i, s)
<1>1. /\ e \in Aligned /\ tl \in Seq(Aligned) /\ Plannable(e, s[i])
      /\ Cuts(s[i]) => h[i] = P \o tl
      /\ ~ Cuts(s[i]) => h[i] = <<P[1]>> \o tl
  BY PlanStepFacts
<1>2. s[i] \in Node /\ Divides(e, s[i])
  BY <1>1 DEF Plannable
<1>. HIDE DEF e, tl, Node, Domain, Aligned
<1>3. d.size = e.size
  BY DEF e
<1>4. /\ Divides(d, s[i]) /\ DOMAIN Parts(d, s[i]) = DOMAIN P
      /\ \A k \in DOMAIN Parts(d, s[i]) : Parts(d, s[i])[k].size = P[k].size
  BY <1>2, <1>3, SameSize
<1>5. /\ P \in Seq(Aligned) /\ Len(P) >= 1 /\ (Cuts(s[i]) => Len(P) = 2)
  BY <1>1, <1>2, ToPlanFacts
<1>6. WholeTree(s)
  BY PlanWhole
<1>7. /\ J \in Seq(Job(Len(s))) /\ Len(J) = Len(Parts(d, s[i]))
      /\ \A k \in 1 .. Len(Parts(d, s[i])) : J[k].d = Parts(d, s[i])[k]
  BY <1>4, <1>6, JobsFacts
<1>8. Parts(d, s[i]) \in Seq(Domain)
  BY <1>2, <1>4, PartsFacts
<1>9. PICK n \in Nat : n = Len(P) /\ n = Len(Parts(d, s[i])) /\ n >= 1
  <2>1. Len(P) \in Nat /\ DOMAIN P = 1 .. Len(P)
    BY <1>5
  <2>2. Len(Parts(d, s[i])) \in Nat
        /\ DOMAIN Parts(d, s[i]) = 1 .. Len(Parts(d, s[i]))
    BY <1>8
  <2>3. \A x, y \in Nat : 1 .. x = 1 .. y /\ x >= 1 => x = y
    <3>. SUFFICES ASSUME NEW x \in Nat, NEW y \in Nat, 1 .. x = 1 .. y, x >= 1
                  PROVE  x = y
      OBVIOUS
    <3>1. x \in 1 .. y
      OBVIOUS
    <3>2. y \in 1 .. x
      BY <3>1
    <3>. QED BY <3>1, <3>2
  <2>. QED BY <1>4, <1>5, <2>1, <2>2, <2>3
<1>10. DOMAIN P = 1 .. n /\ (Cuts(s[i]) => n = 2)
  <2>. HIDE DEF P
  <2>1. DOMAIN P = 1 .. Len(P)
    BY <1>5
  <2>. QED BY <1>5, <1>9, <2>1
<1>11. i + 1 \in 1 .. Len(s) /\ (i + 1) - 1 = i
  BY <1>6, WholeTreeFacts
<1>12. ASSUME NEW k \in 1 .. n
       PROVE  Sized(h, J[k])
  <2>1. J[k].d.size = P[k].size /\ k \in DOMAIN Parts(d, s[i])
    <3>1. k \in DOMAIN Parts(d, s[i])
      BY <1>8, <1>9
    <3>. QED BY <1>4, <1>7, <1>9, <3>1
  <2>2. J[k].node = IF Cuts(s[i]) /\ k = 2 THEN Ends(s)[i + 1] ELSE i + 1
    BY <2>1 DEF Jobs
  <2>. HIDE DEF J, P
  <2>3. P[1] \in Aligned
    BY <1>5
  <2>4. CASE ~ Cuts(s[i])
    <3>1. P[k].size = P[1].size
      <4>1. k \in DOMAIN P /\ 1 \in DOMAIN P
        BY <1>9, <1>10
      <4>. QED BY <2>4, <4>1, RepeatAlike DEF P
    <3>2. Head(h[i]) = P[1]
      <4>1. PICK a \in Aligned : a = P[1]
        BY <2>3
      <4>2. Head(<<a>> \o tl) = a
        BY <1>1
      <4>. QED BY <1>1, <2>4, <4>1, <4>2
    <3>3. J[k].node - 1 = i
      BY <1>11, <2>2, <2>4
    <3>. QED BY <2>1, <3>1, <3>2, <3>3 DEF Sized
  <2>5. CASE Cuts(s[i])
    <3>1. PICK a, b : a = P[1] /\ b = P[2]
      OBVIOUS
    <3>2. P = <<a, b>> /\ a \in Aligned /\ b \in Aligned
      BY <1>5, <2>5, <3>1, Pair
    <3>3. /\ Head(<<a, b>> \o tl) = a
          /\ Tail(<<a, b>> \o tl) = <<b>> \o tl /\ Head(<<b>> \o tl) = b
      BY <1>1, <3>2
    <3>4. Head(h[i]) = a /\ Tail(h[i]) = <<b>> \o tl
      BY <1>1, <2>5, <3>2, <3>3
    <3>5. CASE k = 1
      <4>1. J[k].node - 1 = i
        BY <1>11, <2>2, <3>5
      <4>. QED BY <2>1, <3>1, <3>4, <3>5, <4>1 DEF Sized
    <3>6. CASE k = 2
      <4>1. PICK m : m = Ends(s)[i + 1]
        OBVIOUS
      <4>2. J[k].node = m
        BY <2>2, <2>5, <3>6, <4>1
      <4>3. Told(s, h, i + 1)
        BY <1>11, EndsTold
      <4>4. h[m - 1] = Tail(h[i])
        BY <1>11, <4>1, <4>3 DEF Told
      <4>5. Head(h[J[k].node - 1]) = b
        BY <3>3, <3>4, <4>2, <4>4
      <4>. QED BY <2>1, <3>1, <3>6, <4>5 DEF Sized
    <3>7. k = 1 \/ k = 2
      <4>1. n = 2
        BY <1>10, <2>5
      <4>. QED BY <4>1
    <3>. QED BY <3>5, <3>6, <3>7
  <2>. QED BY <2>4, <2>5
<1>13. AllSized(h, J)
  BY <1>7, <1>9, <1>12 DEF AllSized
<1>. QED BY <1>4, <1>7, <1>9, <1>13 DEF J

\* A leaf's job has the shape of a leaf.
LEMMA LeafSized ==
    ASSUME NEW s \in Seq(Node), NEW r, NEW h, Planned(s, r, h),
           NEW d \in Domain, NEW i \in 1 .. Len(s), d.size = Head(h[i - 1]).size
    PROVE  /\ d \in Aligned
           /\ s[i].tag = LeafTag => d.size[3] = 1 /\ LeafShape(d)
<1>1. PICK e : e = Head(h[i - 1])
  OBVIOUS
<1>2. e \in Aligned /\ Plannable(e, s[i])
  BY <1>1, PlanStepFacts
<1>3. d \in Aligned
  BY <1>1, <1>2, AlignedBySize
<1>4. s[i].tag = LeafTag => d.size[3] = 1 /\ LeafShape(d)
  BY <1>1, <1>2 DEF Plannable, LeafShape
<1>. QED BY <1>3, <1>4


\* What an expansion of a planned tree keeps of its stack and its list.
Along(s, h, st, li) ==
    st \in Seq(Job(Len(s))) /\ AllSized(h, st) /\ li \in Seq(Aligned)

\* Leaves and pending domains of a side.
Count(st, li) == Len(li) + Len(st)

LEMMA CountIsNat ==
    ASSUME NEW s, NEW h, NEW st, NEW li, Along(s, h, st, li)
    PROVE  Count(st, li) \in Nat
<1>1. st \in Seq(Job(Len(s))) /\ li \in Seq(Aligned)
  BY DEF Along
<1>2. Len(st) \in Nat /\ Len(li) \in Nat
  <2>. HIDE DEF Aligned, Job
  <2>. QED BY <1>1
<1>. QED BY <1>2 DEF Count

\* The first of a stack that is sized, and the others.
LEMMA AllSizedTail ==
    ASSUME NEW X, NEW h, NEW st \in Seq(X), st # <<>>, AllSized(h, st)
    PROVE  Sized(h, Head(st)) /\ Tail(st) \in Seq(X) /\ AllSized(h, Tail(st))
<1>1. PICK n \in Nat : n = Len(st) /\ n >= 1
  OBVIOUS
<1>2. Head(st) = st[1] /\ Tail(st) \in Seq(X) /\ Len(Tail(st)) = n - 1
      /\ \A k \in 1 .. n - 1 : Tail(st)[k] = st[k + 1]
  BY <1>1
<1>3. \A k \in 1 .. n : Sized(h, st[k])
  BY <1>1 DEF AllSized
<1>. QED BY <1>1, <1>2, <1>3 DEF AllSized

LEMMA AllSizedBoth ==
    ASSUME NEW X, NEW h, NEW st \in Seq(X), NEW st2 \in Seq(X),
           AllSized(h, st), AllSized(h, st2)
    PROVE  AllSized(h, st \o st2)
<1>1. PICK m \in Nat, n \in Nat : m = Len(st) /\ n = Len(st2)
  OBVIOUS
<1>2. PICK both : both = st \o st2
  OBVIOUS
<1>3. Len(both) = m + n /\ \A k \in 1 .. m : both[k] = st[k]
  BY <1>1, <1>2
<1>4. \A k \in 1 .. n : both[m + k] = st2[k]
  BY <1>1, <1>2
<1>5. ASSUME NEW k \in 1 .. m + n
      PROVE  Sized(h, both[k])
  <2>1. CASE k <= m
    <3>1. k \in 1 .. m
      BY <2>1
    <3>. QED BY <1>1, <1>3, <3>1 DEF AllSized
  <2>2. CASE ~ (k <= m)
    <3>1. PICK j \in 1 .. n : k = m + j
      <4>1. k - m \in 1 .. n /\ k = m + (k - m)
        BY <2>2
      <4>. QED BY <4>1
    <3>2. Sized(h, st2[j])
      BY <1>1 DEF AllSized
    <3>. QED BY <1>4, <3>1, <3>2
  <2>. QED BY <2>1, <2>2
<1>. QED BY <1>2, <1>3, <1>5 DEF AllSized

\* A step keeps the sizes, and a node has one part at least.
LEMMA StepAlong ==
    ASSUME NEW s \in Seq(Node), NEW r, NEW h, Planned(s, r, h), h[Len(s)] = <<>>,
           NEW st, NEW li, Along(s, h, st, li), NEW st2, NEW li2,
           ExpansionStep(s, st, li, st2, li2)
    PROVE  Along(s, h, st2, li2) /\ Count(st, li) <= Count(st2, li2)
<1>1. st \in Seq(Job(Len(s))) /\ AllSized(h, st) /\ li \in Seq(Aligned) /\ st # <<>>
  BY DEF Along, ExpansionStep
<1>. DEFINE d == Head(st).d
            i == Head(st).node
            tl == Tail(st)
<1>2. d \in Domain /\ i \in 1 .. Len(s) /\ tl \in Seq(Job(Len(s)))
  <2>1. PICK n : n = Len(s)
    OBVIOUS
  <2>2. Head(st) \in Job(n) /\ tl \in Seq(Job(n))
    BY <1>1, <2>1
  <2>. QED BY <2>1, <2>2 DEF Job
<1>3. d.size = Head(h[i - 1]).size /\ AllSized(h, tl)
  BY <1>1, AllSizedTail DEF Sized
<1>4. PICK m \in Nat, n \in Nat : m = Len(li) /\ n = Len(tl) /\ Len(st) = n + 1
  <2>. HIDE DEF Aligned, Job
  <2>1. Len(tl) = Len(st) - 1 /\ Len(st) \in Nat /\ Len(st) >= 1 /\ Len(li) \in Nat
    BY <1>1
  <2>2. PICK x \in Nat : x = Len(st) /\ x >= 1
    BY <2>1
  <2>3. Len(tl) = x - 1 /\ x - 1 \in Nat /\ x = (x - 1) + 1
    BY <2>1, <2>2
  <2>. QED BY <2>1, <2>2, <2>3
<1>5. CASE s[i].tag = LeafTag
  <2>1. st2 = tl /\ li2 = Append(li, d)
    BY <1>5 DEF ExpansionStep
  <2>2. d \in Aligned
    <3>. HIDE DEF d, i
    <3>. QED BY <1>2, <1>3, LeafSized
  <2>. HIDE DEF d, i, tl, Aligned, Job
  <2>3. li2 \in Seq(Aligned) /\ Len(li2) = m + 1
    BY <1>1, <1>4, <2>1, <2>2
  <2>4. Along(s, h, st2, li2)
    BY <1>2, <1>3, <2>1, <2>3 DEF Along
  <2>5. Count(st, li) = m + (n + 1) /\ Count(st2, li2) = (m + 1) + n
    BY <1>4, <2>1, <2>3 DEF Count
  <2>. QED BY <2>4, <2>5
<1>6. CASE s[i].tag # LeafTag
  <2>. DEFINE js == Jobs(d, i, s)
  <2>1. st2 = js \o tl /\ li2 = li
    BY <1>6 DEF ExpansionStep
  <2>2. js \in Seq(Job(Len(s))) /\ AllSized(h, js) /\ Len(js) >= 1
    <3>. HIDE DEF d, i
    <3>. QED BY <1>2, <1>3, <1>6, JobsSized
  <2>. HIDE DEF js, tl, d, i, Aligned, Job
  <2>3. PICK X : X = Job(Len(s))
    OBVIOUS
  <2>4. PICK w \in Nat : w = Len(js) /\ w >= 1
    BY <2>2, <2>3
  <2>5. st2 \in Seq(X) /\ Len(st2) = w + n
    BY <1>2, <1>4, <2>1, <2>2, <2>3, <2>4
  <2>6. AllSized(h, st2)
    BY <1>2, <1>3, <2>1, <2>2, AllSizedBoth
  <2>7. Along(s, h, st2, li2)
    BY <1>1, <2>1, <2>3, <2>5, <2>6 DEF Along
  <2>8. Count(st, li) = m + (n + 1) /\ Count(st2, li2) = m + (w + n)
    BY <1>4, <2>1, <2>5 DEF Count
  <2>9. m + (n + 1) <= m + (w + n)
    BY <2>4
  <2>. QED BY <2>7, <2>8, <2>9
<1>. QED BY <1>5, <1>6

\* What never shrinks from one to the next is never more than the last.
LEMMA GrowsToLast ==
    ASSUME NEW n \in Nat, NEW f, \A k \in 0 .. n : f[k] \in Int,
           \A k \in 0 .. n - 1 : f[k] <= f[k + 1]
    PROVE  \A k \in 0 .. n : f[k] <= f[n]
<1>. DEFINE N == {m \in Nat : m <= n => f[n - m] <= f[n]}
<1>1. 0 \in N
  <2>1. n - 0 = n
    OBVIOUS
  <2>. QED BY <2>1
<1>2. ASSUME NEW m \in N
      PROVE  m + 1 \in N
  <2>. SUFFICES ASSUME m + 1 <= n PROVE f[n - (m + 1)] <= f[n]
    OBVIOUS
  <2>1. PICK k \in 0 .. n - 1 : k = n - (m + 1) /\ k + 1 = n - m
    <3>1. n - (m + 1) \in 0 .. n - 1 /\ (n - (m + 1)) + 1 = n - m
      OBVIOUS
    <3>. QED BY <3>1
  <2>2. f[k + 1] <= f[n]
    BY <2>1
  <2>3. f[k] <= f[k + 1] /\ k \in 0 .. n /\ k + 1 \in 0 .. n /\ n \in 0 .. n
    BY <2>1
  <2>4. f[k] \in Int /\ f[k + 1] \in Int /\ f[n] \in Int
    BY <2>3
  <2>. QED BY <2>1, <2>2, <2>3, <2>4
<1>3. N = Nat
  <2>1. N \subseteq Nat
    OBVIOUS
  <2>. HIDE DEF N
  <2>. QED BY <1>1, <1>2, <2>1, NumberInduction
<1>4. ASSUME NEW k \in 0 .. n
      PROVE  f[k] <= f[n]
  <2>1. \A m \in N : m <= n => f[n - m] <= f[n]
    OBVIOUS
  <2>. HIDE DEF N
  <2>2. PICK m \in Nat : m = n - k /\ m <= n
    <3>1. n - k \in Nat /\ n - k <= n
      OBVIOUS
    <3>. QED BY <3>1
  <2>3. f[n - m] <= f[n]
    BY <1>3, <2>1, <2>2
  <2>4. n - m = k
    BY <2>2
  <2>. QED BY <2>3, <2>4
<1>. QED BY <1>4

\* The whole way the sizes are as planned, and there are never more leaves and
\* pending domains than leaves in the end.
LEMMA TraceAlong ==
    ASSUME NEW s \in Seq(Node), NEW r \in Aligned, NEW h, Planned(s, r, h), h[Len(s)] = <<>>,
           NEW n, NEW S, NEW I, Trace(s, r, n, S, I)
    PROVE  \A k \in 0 .. n : /\ Along(s, h, S[k], I[k])
                             /\ Count(S[k], I[k]) >= 1
                             /\ Count(S[k], I[k]) <= Count(S[n], I[n])
<1>1. /\ n \in Nat /\ S[0] = <<[d |-> r, node |-> 1]>> /\ I[0] = <<>>
      /\ \A k \in 0 .. n - 1 : ExpansionStep(s, S[k], I[k], S[k + 1], I[k + 1])
  BY DEF Trace
<1>2. Along(s, h, S[0], I[0]) /\ Count(S[0], I[0]) = 1
  <2>1. WholeTree(s)
    BY PlanWhole
  <2>2. PICK m \in Nat : m = Len(s) /\ m >= 1
    BY <2>1 DEF WholeTree
  <2>3. [d |-> r, node |-> 1] \in Job(m)
    BY <2>2 DEF Job, Aligned
  <2>4. Sized(h, [d |-> r, node |-> 1])
    <3>1. Head(h[1 - 1]) = r
      BY DEF Planned
    <3>. QED BY <3>1 DEF Sized
  <2>5. PICK job : job = [d |-> r, node |-> 1]
    OBVIOUS
  <2>. HIDE DEF Job, Aligned
  <2>6. <<job>> \in Seq(Job(m)) /\ Len(<<job>>) = 1 /\ <<job>>[1] = job
        /\ \A k \in 1 .. 1 : k = 1
    BY <2>3, <2>5
  <2>7. AllSized(h, <<job>>)
    BY <2>4, <2>5, <2>6 DEF AllSized
  <2>8. <<>> \in Seq(Aligned) /\ Len(<<>>) = 0
    OBVIOUS
  <2>. QED BY <1>1, <2>2, <2>5, <2>6, <2>7, <2>8 DEF Along, Count
<1>3. ASSUME NEW k \in 0 .. n - 1, Along(s, h, S[k], I[k])
      PROVE  /\ Along(s, h, S[k + 1], I[k + 1])
             /\ Count(S[k], I[k]) <= Count(S[k + 1], I[k + 1])
  BY <1>1, <1>3, StepAlong
<1>. DEFINE N == {k \in Nat : k <= n => Along(s, h, S[k], I[k]) /\ Count(S[k], I[k]) >= 1}
<1>4. 0 \in N
  BY <1>2
<1>5. ASSUME NEW k \in N
      PROVE  k + 1 \in N
  <2>. SUFFICES ASSUME k + 1 <= n
                PROVE  Along(s, h, S[k + 1], I[k + 1]) /\ Count(S[k + 1], I[k + 1]) >= 1
    OBVIOUS
  <2>1. k \in 0 .. n - 1 /\ Along(s, h, S[k], I[k]) /\ Count(S[k], I[k]) >= 1
    BY <1>1
  <2>. HIDE DEF N
  <2>2. PICK x, y : x = Count(S[k], I[k]) /\ y = Count(S[k + 1], I[k + 1])
    OBVIOUS
  <2>3. Along(s, h, S[k + 1], I[k + 1]) /\ x <= y
    BY <1>3, <2>1, <2>2
  <2>4. x \in Nat /\ y \in Nat
    BY <2>1, <2>2, <2>3, CountIsNat
  <2>. QED BY <2>1, <2>2, <2>3, <2>4
<1>6. N = Nat
  <2>1. N \subseteq Nat
    OBVIOUS
  <2>. HIDE DEF N
  <2>. QED BY <1>4, <1>5, <2>1, NumberInduction
<1>7. \A k \in 0 .. n : Along(s, h, S[k], I[k]) /\ Count(S[k], I[k]) >= 1
  <2>1. \A k \in N : k <= n => Along(s, h, S[k], I[k]) /\ Count(S[k], I[k]) >= 1
    OBVIOUS
  <2>. HIDE DEF N
  <2>2. \A k \in 0 .. n : k \in N /\ k <= n
    BY <1>1, <1>6
  <2>. QED BY <2>1, <2>2
<1>. DEFINE f == [k \in 0 .. n |-> Count(S[k], I[k])]
<1>8. \A k \in 0 .. n : f[k] = Count(S[k], I[k])
  OBVIOUS
<1>. HIDE DEF N, f
<1>9. \A k \in 0 .. n : f[k] \in Int
  <2>1. ASSUME NEW k \in 0 .. n
        PROVE  f[k] \in Int
    <3>1. Count(S[k], I[k]) \in Nat
      BY <1>7, CountIsNat
    <3>. QED BY <1>8, <3>1
  <2>. QED BY <2>1
<1>10. \A k \in 0 .. n - 1 : f[k] <= f[k + 1]
  <2>1. ASSUME NEW k \in 0 .. n - 1
        PROVE  f[k] <= f[k + 1]
    <3>1. k \in 0 .. n /\ k + 1 \in 0 .. n
      BY <1>1
    <3>. QED BY <1>3, <1>7, <1>8, <3>1
  <2>. QED BY <2>1
<1>11. \A k \in 0 .. n : f[k] <= f[n]
  BY <1>1, <1>9, <1>10, GrowsToLast
<1>12. n \in 0 .. n
  BY <1>1
<1>. QED BY <1>7, <1>8, <1>11, <1>12


-----------------------------------------------------------------------------
(* Aligned parcels never outnumber the unit cubes of the root.             *)

\* Terms of c or more take a sum up by c or more each.
LEMMA SumGrows ==
    ASSUME NEW f, NEW c \in Int, NEW k \in Nat, NEW m \in Nat, k <= m,
           \A i \in 1 .. m : f[i] \in Int, \A i \in k + 1 .. m : f[i] >= c
    PROVE  Sum(f, 1 .. m) \in Int /\ Sum(f, 1 .. k) \in Int
           /\ Sum(f, 1 .. m) >= Sum(f, 1 .. k) + (m - k) * c
<1>. DEFINE Grows(j) == Sum(f, 1 .. k + j) \in Int
                        /\ Sum(f, 1 .. k + j) >= Sum(f, 1 .. k) + j * c
            N == {j \in Nat : k + j <= m => Grows(j)}
<1>1. Sum(f, 1 .. k) \in Int
  <2>1. IsFiniteSet(1 .. k)
    BY FS_Interval
  <2>2. \A i \in 1 .. k : f[i] \in Int
    OBVIOUS
  <2>. QED BY <2>1, <2>2, SumIsNumber
<1>2. 0 \in N
  <2>1. k + 0 = k /\ 0 * c = 0
    OBVIOUS
  <2>. QED BY <1>1, <2>1
<1>3. ASSUME NEW j \in N
      PROVE  j + 1 \in N
  <2>. SUFFICES ASSUME k + (j + 1) <= m PROVE Grows(j + 1)
    OBVIOUS
  <2>1. j \in Nat /\ Grows(j)
    OBVIOUS
  <2>. HIDE DEF N
  <2>2. PICK n \in Nat : n = k + j /\ n + 1 = k + (j + 1) /\ n + 1 <= m
    BY <2>1
  <2>3. \A i \in 1 .. n + 1 : f[i] \in Int
    BY <2>2
  <2>4. Sum(f, 1 .. n + 1) = Sum(f, 1 .. n) + f[n + 1] /\ Sum(f, 1 .. n) \in Int
    BY <2>3, SumNext
  <2>5. f[n + 1] >= c /\ f[n + 1] \in Int
    BY <2>1, <2>2
  <2>6. (j + 1) * c = j * c + c /\ j * c \in Int
    BY <2>1
  <2>7. Sum(f, 1 .. n) >= Sum(f, 1 .. k) + j * c
    BY <2>1, <2>2
  <2>8. Sum(f, 1 .. n + 1) \in Int /\ Sum(f, 1 .. n + 1) >= Sum(f, 1 .. k) + (j + 1) * c
    BY <1>1, <2>4, <2>5, <2>6, <2>7
  <2>. QED BY <2>2, <2>8
<1>4. N = Nat
  <2>1. N \subseteq Nat
    OBVIOUS
  <2>. HIDE DEF N
  <2>. QED BY <1>2, <1>3, <2>1, NumberInduction
<1>5. \A j \in N : k + j <= m => Grows(j)
  OBVIOUS
<1>6. m - k \in Nat /\ k + (m - k) = m
  OBVIOUS
<1>. HIDE DEF N
<1>. QED BY <1>1, <1>4, <1>5, <1>6

UnitCube == Unit * Unit * Unit

\* So many times c make up no more than so many.
LEMMA MultipleBelow ==
    ASSUME NEW v \in Nat, NEW c \in Nat \ {0}, NEW n \in Nat, n * c <= v
    PROVE  n <= v \div c
<1>1. PICK q, m : q = v \div c /\ m = v % c
  OBVIOUS
<1>2. q \in Nat /\ m \in Nat /\ m < c /\ v = c * q + m
  BY <1>1, DivisionFacts
<1>3. ASSUME n > q PROVE FALSE
  <2>1. PICK k \in Nat : n = q + 1 + k
    <3>1. n - (q + 1) \in Nat /\ n = q + 1 + (n - (q + 1))
      BY <1>2, <1>3
    <3>. QED BY <3>1
  <2>2. n * c = c * q + c + k * c /\ k * c \in Nat /\ c * q \in Nat
    BY <1>2, <2>1
  <2>. QED BY <1>2, <2>2
<1>. QED BY <1>1, <1>2, <1>3

\* An aligned domain holds a unit cube.
LEMMA AlignedVolume ==
    ASSUME NEW d \in Aligned
    PROVE  Volume(d) \in Nat /\ Volume(d) >= UnitCube /\ UnitCube \in Nat \ {0}
<1>1. PICK x, y, z, c : x = d.size[0] /\ y = d.size[1] /\ z = d.size[2] /\ c = d.size[3]
  OBVIOUS
<1>2. /\ x \in Nat /\ y \in Nat /\ z \in Nat /\ c \in Nat
      /\ x >= Unit /\ y >= Unit /\ z >= Unit /\ c >= 1
  BY <1>1 DEF Aligned, Units, Axes, Grain
<1>3. Volume(d) = x * y * z * c
  BY <1>1 DEF Volume
<1>4. Unit \in Nat /\ Unit >= 1
  BY UnitAssumption
<1>5. \A i, j, k, l \in Nat : i <= j /\ k <= l => i * k <= j * l
  OBVIOUS
<1>6. Unit * Unit <= x * y /\ Unit * Unit \in Nat /\ x * y \in Nat
  BY <1>2, <1>4, <1>5
<1>7. (Unit * Unit) * Unit <= (x * y) * z /\ (Unit * Unit) * Unit \in Nat /\ (x * y) * z \in Nat
  BY <1>2, <1>4, <1>5, <1>6
<1>8. ((x * y) * z) * c >= (x * y) * z /\ ((x * y) * z) * c \in Nat
  <2>1. \A i, k \in Nat : k >= 1 => i * k >= i /\ i * k \in Nat
    OBVIOUS
  <2>. QED BY <1>2, <1>7, <2>1
<1>9. (Unit * Unit) * Unit >= 1
  <2>1. \A i, k \in Nat : i >= 1 /\ k >= 1 => i * k >= 1 /\ i * k \in Nat
    OBVIOUS
  <2>. QED BY <1>4, <2>1
<1>. QED BY <1>3, <1>7, <1>8, <1>9 DEF UnitCube

\* So a root is never divided into more aligned domains than it has unit cubes.
LEMMA PartitionFits ==
    ASSUME NEW r \in Aligned, NEW n \in Nat, NEW P, \A i \in 1 .. n : P[i] \in Aligned,
           Partition(P, n, r)
    PROVE  n <= Volume(r) \div UnitCube
<1>. DEFINE f == Volumes(P, n)
<1>1. \A i \in 1 .. n : f[i] \in Int /\ f[i] >= UnitCube
  BY AlignedVolume DEF Volumes
<1>2. Sum(f, 1 .. n) = Volume(r)
  BY DEF Partition
<1>3. Volume(r) \in Nat /\ UnitCube \in Nat \ {0}
  BY AlignedVolume
<1>. HIDE DEF f
<1>4. Sum(f, 1 .. n) >= Sum(f, 1 .. 0) + (n - 0) * UnitCube
  <2>1. PICK k \in Nat, c \in Int : k = 0 /\ c = UnitCube
    BY <1>3
  <2>2. k <= n /\ \A i \in k + 1 .. n : f[i] >= c
    BY <1>1, <2>1
  <2>3. Sum(f, 1 .. n) >= Sum(f, 1 .. k) + (n - k) * c
    BY <1>1, <2>2, SumGrows
  <2>. QED BY <2>1, <2>3
<1>5. Sum(f, 1 .. 0) = 0
  <2>1. 1 .. 0 = {}
    OBVIOUS
  <2>. QED BY <2>1, SumUnfolds, FS_EmptySet
<1>6. n * UnitCube <= Volume(r)
  <2>1. n - 0 = n /\ n * UnitCube \in Int
    BY <1>3
  <2>. QED BY <1>2, <1>4, <1>5, <2>1
<1>. QED BY <1>3, <1>6, MultipleBelow

\* With one more node expanded, leaves and pending domains still fit the root.
LEMMA NodeFits ==
    ASSUME NEW s \in Seq(Node), NEW r \in Aligned, NEW h, Planned(s, r, h),
           h[Len(s)] = <<>>, NEW st, NEW li, Along(s, h, st, li), st # <<>>,
           s[Head(st).node].tag # LeafTag,
           Partition(li \o Pending(st), Len(li \o Pending(st)), r)
    PROVE  Len(li) + Len(Tail(st)) + Len(Parts(Head(st).d, s[Head(st).node]))
              <= Volume(r) \div UnitCube
<1>1. PICK m \in Nat : m = Len(s)
  OBVIOUS
<1>2. st \in Seq(Job(m)) /\ AllSized(h, st) /\ li \in Seq(Aligned)
  BY <1>1 DEF Along
<1>. DEFINE d == Head(st).d
            i == Head(st).node
            js == Jobs(d, i, s)
            tl == Tail(st)
            parts == Parts(d, s[i])
<1>3. d \in Domain /\ i \in 1 .. m /\ s[i].tag # LeafTag
  <2>1. Head(st) \in Job(m)
    BY <1>2
  <2>. QED BY <2>1 DEF Job
<1>4. d.size = Head(h[i - 1]).size
  <2>. HIDE DEF Job
  <2>1. Sized(h, Head(st))
    BY <1>2, AllSizedTail
  <2>. QED BY <2>1 DEF Sized
<1>5. js \in Seq(Job(m)) /\ Len(js) = Len(parts) /\ Divides(d, s[i])
  <2>. HIDE DEF d, i
  <2>. QED BY <1>1, <1>3, <1>4, JobsSized
<1>6. \A k \in 1 .. Len(parts) : js[k].d = parts[k]
  <2>1. WholeTree(s)
    BY PlanWhole
  <2>. HIDE DEF d, i
  <2>. QED BY <1>1, <1>3, <1>5, <2>1, JobsFacts
<1>7. s[i] \in Node
  BY <1>1, <1>3
<1>8. parts \in Seq(Domain) /\ Partition(parts, Len(parts), d)
  <2>. HIDE DEF d, i
  <2>. QED BY <1>3, <1>5, <1>7, PartsFacts
<1>9. Along(s, h, js \o tl, li)
  <2>1. ExpansionStep(s, st, li, js \o tl, li)
    BY <1>3 DEF ExpansionStep
  <2>. HIDE DEF js, tl
  <2>. QED BY <2>1, StepAlong
<1>10. li \in Seq(Domain) /\ r \in Domain
  <2>1. Aligned \subseteq Domain
    BY DEF Aligned
  <2>. HIDE DEF Aligned, Domain
  <2>. QED BY <1>2, <2>1
<1>. DEFINE Q == li \o Pending(js \o tl)
<1>11. Partition(Q, Len(Q), r)
  <2>. HIDE DEF js, parts, Domain, Job
  <2>. QED BY <1>2, <1>5, <1>6, <1>8, <1>10, ExpandKeepsPartition
<1>12. PICK both : both = js \o tl
  OBVIOUS
<1>. HIDE DEF js, tl, parts, d, i
<1>13. both \in Seq(Job(m)) /\ AllSized(h, both)
  BY <1>1, <1>9, <1>12 DEF Along
<1>14. PICK a \in Nat, b \in Nat : a = Len(li) /\ b = Len(both)
  <2>. HIDE DEF Job, Aligned
  <2>. QED BY <1>2, <1>13
<1>15. /\ Len(Q) = a + b /\ \A k \in 1 .. a : Q[k] = li[k]
       /\ \A k \in 1 .. b : Q[a + k] = both[k].d
  <2>. HIDE DEF Job, Domain
  <2>1. Q = li \o Pending(both)
    BY <1>12
  <2>. HIDE DEF Q
  <2>. QED BY <1>10, <1>13, <1>14, <2>1, ParcelsFacts
<1>. HIDE DEF Q
<1>16. \A k \in 1 .. a : Q[k] \in Aligned
  <2>. HIDE DEF Aligned
  <2>1. \A k \in 1 .. a : li[k] \in Aligned
    BY <1>2, <1>14
  <2>. QED BY <1>15, <2>1
<1>17. \A k \in 1 .. b : Q[a + k] \in Aligned
  <2>1. ASSUME NEW k \in 1 .. b
        PROVE  Q[a + k] \in Aligned
    <3>1. both[k] \in Job(m) /\ Sized(h, both[k])
      <4>. HIDE DEF Job
      <4>. QED BY <1>13, <1>14 DEF AllSized
    <3>2. PICK e, j : e = both[k].d /\ j = both[k].node
      OBVIOUS
    <3>3. e \in Domain /\ j \in 1 .. Len(s) /\ e.size = Head(h[j - 1]).size
      BY <1>1, <3>1, <3>2 DEF Job, Sized
    <3>4. e \in Aligned
      BY <3>3, LeafSized
    <3>. QED BY <1>15, <3>2, <3>4
  <2>. QED BY <2>1
<1>18. \A k \in 1 .. a + b : Q[k] \in Aligned
  <2>1. ASSUME NEW k \in 1 .. a + b
        PROVE  Q[k] \in Aligned
    <3>1. CASE k <= a
      BY <1>16, <3>1
    <3>2. CASE ~ (k <= a)
      <4>1. PICK j \in 1 .. b : k = a + j
        <5>1. k - a \in 1 .. b /\ k = a + (k - a)
          BY <3>2
        <5>. QED BY <5>1
      <4>. QED BY <1>17, <4>1
    <3>. QED BY <3>1, <3>2
  <2>. QED BY <2>1
<1>19. a + b <= Volume(r) \div UnitCube
  <2>1. PICK c \in Nat : c = a + b
    OBVIOUS
  <2>2. \A k \in 1 .. c : Q[k] \in Aligned
    BY <1>18, <2>1
  <2>3. Partition(Q, c, r)
    BY <1>11, <1>15, <2>1
  <2>4. c <= Volume(r) \div UnitCube
    BY <2>2, <2>3, PartitionFits
  <2>. QED BY <2>1, <2>4
<1>20. Len(li) + Len(tl) + Len(parts) = a + b
  <2>. HIDE DEF Job
  <2>1. tl \in Seq(Job(m))
    BY <1>2 DEF tl
  <2>2. PICK x \in Nat, y \in Nat : x = Len(js) /\ y = Len(tl) /\ x = Len(parts)
    BY <1>5, <2>1
  <2>3. PICK X : X = Job(m)
    OBVIOUS
  <2>4. js \in Seq(X) /\ tl \in Seq(X)
    BY <1>5, <2>1, <2>3
  <2>5. Len(js \o tl) = Len(js) + Len(tl)
    BY <2>4
  <2>6. b = x + y
    <3>1. b = Len(js \o tl)
      BY <1>12, <1>14, Zenon
    <3>. QED BY <2>2, <2>5, <3>1
  <2>7. a + y + x = a + b
    BY <2>6
  <2>. QED BY <1>14, <2>2, <2>7
<1>. QED BY <1>19, <1>20 DEF tl, parts, d, i


-----------------------------------------------------------------------------
(* What the header of an undamaged file counts.                            *)

\* A run of subtrees has a node for each.
LEMMA ChainFits ==
    ASSUME NEW s \in Seq(Node), NEW r, NEW h, Planned(s, r, h), h[Len(s)] = <<>>,
           NEW n \in Nat, NEW from \in Nat, NEW c, Chain(s, c, n, from)
    PROVE  from + n <= Len(s) + 1
<1>1. PICK m \in Nat : m = Len(s)
  OBVIOUS
<1>2. /\ c \in [0 .. n -> 1 .. m + 1] /\ c[0] = from /\ c[n] = m + 1
      /\ \A k \in 0 .. n - 1 : c[k] \in 1 .. m /\ c[k + 1] = Ends(s)[c[k]]
  BY <1>1 DEF Chain
<1>. DEFINE N == {k \in Nat : k <= n => c[k] >= from + k}
<1>3. 0 \in N
  BY <1>2
<1>4. ASSUME NEW k \in N
      PROVE  k + 1 \in N
  <2>. SUFFICES ASSUME k + 1 <= n PROVE c[k + 1] >= from + (k + 1)
    OBVIOUS
  <2>1. k \in 0 .. n - 1 /\ c[k] >= from + k
    OBVIOUS
  <2>. HIDE DEF N
  <2>2. PICK i, e : i = c[k] /\ e = c[k + 1]
    OBVIOUS
  <2>3. i \in 1 .. m /\ e = Ends(s)[i]
    BY <1>2, <2>1, <2>2
  <2>4. Told(s, h, i)
    BY <1>1, <2>3, EndsTold
  <2>5. e \in i + 1 .. m + 1
    BY <1>1, <2>3, <2>4 DEF Told
  <2>. QED BY <2>1, <2>2, <2>3, <2>5
<1>5. N = Nat
  <2>1. N \subseteq Nat
    OBVIOUS
  <2>. HIDE DEF N
  <2>. QED BY <1>3, <1>4, <2>1, NumberInduction
<1>6. \A k \in N : k <= n => c[k] >= from + k
  OBVIOUS
<1>. HIDE DEF N
<1>7. c[n] >= from + n
  BY <1>5, <1>6
<1>. QED BY <1>1, <1>2, <1>7

\* The bytes of each node of s in a header.
Bytes(wide, s) == [i \in DOMAIN s |-> NodeBytes(wide, s[i])]

\* A header is its prefix, its nodes and its lengths, a byte or more for each.
LEMMA HeaderFacts ==
    ASSUME NEW n \in Nat, t \in Seq(Node), n = Len(t), NEW l \in Nat, l = Len(lengths),
           NEW wide \in BOOLEAN
    PROVE  /\ \A i \in 1 .. n : /\ Bytes(wide, t)[i] = NodeBytes(wide, t[i])
                                /\ Bytes(wide, t)[i] \in Int /\ Bytes(wide, t)[i] >= 1
           /\ HeaderBytes(wide) = PrefixBytes(wide) + Sum(Bytes(wide, t), 1 .. n)
                                  + LengthBytes(wide) * l
           /\ Sum(Bytes(wide, t), 1 .. n) \in Int /\ Sum(Bytes(wide, t), 1 .. n) >= n
           /\ HeaderBytes(wide) \in Nat
<1>. DEFINE f == Bytes(wide, t)
<1>1. DOMAIN t = 1 .. n /\ DOMAIN f = 1 .. n
  BY DEF Bytes
<1>2. ASSUME NEW i \in 1 .. n
      PROVE  f[i] = NodeBytes(wide, t[i]) /\ f[i] \in Int /\ f[i] >= 1
  BY <1>1 DEF Bytes, NodeBytes, ValueBytes
<1>3. SumFunction(f) = Sum(f, 1 .. n)
  BY <1>1 DEF SumFunction, Sum
<1>4. HeaderBytes(wide) = PrefixBytes(wide) + Sum(f, 1 .. n) + LengthBytes(wide) * l
  <2>1. HeaderBytes(wide) = PrefixBytes(wide) + SumFunction(f) + LengthBytes(wide) * Len(lengths)
    BY DEF HeaderBytes, Bytes
  <2>. HIDE DEF f
  <2>. QED BY <1>3, <2>1
<1>. HIDE DEF f
<1>5. Sum(f, 1 .. n) \in Int /\ Sum(f, 1 .. n) >= n
  <2>1. PICK k \in Nat, c \in Int : k = 0 /\ c = 1
    OBVIOUS
  <2>2. k <= n /\ \A i \in k + 1 .. n : f[i] >= c
    BY <1>2, <2>1
  <2>3. Sum(f, 1 .. n) >= Sum(f, 1 .. k) + (n - k) * c /\ Sum(f, 1 .. n) \in Int
    BY <1>2, <2>2, SumGrows
  <2>4. Sum(f, 1 .. k) = 0
    <3>1. 1 .. k = {}
      BY <2>1
    <3>. QED BY <3>1, SumUnfolds, FS_EmptySet
  <2>. QED BY <2>1, <2>3, <2>4
<1>6. HeaderBytes(wide) \in Nat
  <2>1. PrefixBytes(wide) \in Nat /\ LengthBytes(wide) \in Nat
    BY DEF PrefixBytes, LengthBytes
  <2>2. PICK x \in Nat : x = LengthBytes(wide) * l
    BY <2>1
  <2>. QED BY <1>4, <1>5, <2>1, <2>2
<1>. QED BY <1>2, <1>4, <1>5, <1>6 DEF f

\* The lengths add up to a number.
LEMMA LengthsAddUp ==
    ASSUME lengths \in Seq(Lengths)
    PROVE  SumFunction(lengths) \in Nat
<1>1. PICK n \in Nat : n = Len(lengths)
  OBVIOUS
<1>2. DOMAIN lengths = 1 .. n /\ \A i \in 1 .. n : lengths[i] \in Nat
  <2>1. DOMAIN lengths = 1 .. n /\ \A i \in 1 .. n : lengths[i] \in Lengths
    BY <1>1
  <2>2. Lengths \subseteq Nat
    BY PlanAssumption
  <2>. QED BY <2>1, <2>2
<1>3. IsFiniteSet(1 .. n)
  BY FS_Interval
<1>4. SumFunction(lengths) = Sum(lengths, 1 .. n)
  BY <1>2 DEF SumFunction, Sum
<1>5. Sum(lengths, 1 .. n) \in Nat
  BY <1>2, <1>3, SumIsNumber
<1>. QED BY <1>4, <1>5

\* A side has listed a leaf when it is done.
LEMMA LeavesListed ==
    ASSUME IndexInv, PlanTraced, Retraced,
           phase \in {"encode", "read"} \/ (phase = "reexpand" /\ ~ damaged)
    PROVE  Len(leaves) \in Nat /\ Len(leaves) >= 1
<1>1. PICK h : Planned(t, root, h) /\ h[Len(t)] = <<>>
  BY DEF PlanTraced
<1>2. PICK n, S, I : Trace(t, root, n, S, I) /\ S[n] = <<>> /\ leaves = I[n]
  BY DEF Retraced
<1>3. t \in Seq(Node) /\ root \in Aligned /\ leaves \in Seq(Domain)
  BY RootAligned DEF IndexInv, TreesTyped
<1>4. n \in 0 .. n
  BY <1>2 DEF Trace
<1>5. Count(S[n], I[n]) >= 1
  <2>. HIDE DEF Aligned
  <2>. QED BY <1>1, <1>2, <1>3, <1>4, TraceAlong
<1>6. PICK l \in Nat : l = Len(leaves)
  BY <1>3
<1>7. Len(<<>>) = 0
  OBVIOUS
<1>8. Count(S[n], I[n]) = l + 0
  BY <1>2, <1>6, <1>7 DEF Count
<1>. QED BY <1>5, <1>6, <1>8

\* Header and lengths are what was written, and the reader has read the nodes it has.
HeaderHolds ==
    /\ phase \in {"plan", "expand"} => lengths = <<>>
    /\ phase = "encode" => lengths \in Seq(Lengths) /\ Len(lengths) <= Len(leaves)
    /\ phase \in {"read", "reexpand", "decode"} /\ ~ damaged =>
          /\ lengths \in Seq(Lengths) /\ Len(lengths) = Len(leaves)
          /\ file.wide \in BOOLEAN /\ file.lengths = lengths
          /\ file.header = HeaderBytes(file.wide)
          /\ file.object = file.header + SumFunction(lengths)
    /\ phase \in {"read", "reexpand"} /\ ~ damaged =>
          p = PrefixBytes(file.wide) + Sum(Bytes(file.wide, t), 1 .. Len(rt))

\* Writing wraps nothing: what is too large for a narrow header is written wide.
LEMMA WriteHeaderHolds ==
    IndexInv /\ HeaderHolds /\ WriteFile => HeaderHolds'
<1>. SUFFICES ASSUME IndexInv, HeaderHolds, WriteFile PROVE HeaderHolds'
  OBVIOUS
<1>1. PICK wide \in BOOLEAN : wide = ChosenWidth
  BY DEF ChosenWidth, NeedsWide
<1>2. PICK header : header = HeaderBytes(wide)
  OBVIOUS
<1>3. /\ phase = "encode" /\ phase' = "read" /\ lengths' = lengths /\ leaves' = leaves
      /\ t' = t /\ rt' = rt /\ p' = PrefixBytes(wide) /\ Len(lengths) = Len(leaves)
  BY <1>1 DEF WriteFile
<1>4. /\ lengths \in Seq(Lengths) /\ t \in Seq(Node) /\ rt = <<>>
  BY <1>3 DEF HeaderHolds, IndexInv, TreesTyped, ReaderFresh
<1>5. /\ file'.wide = wide
      /\ file'.header = IF wide THEN header ELSE header % (NarrowHeader + 1)
      /\ file'.lengths = [i \in DOMAIN lengths |-> StoredLength(wide, lengths[i])]
      /\ file'.object = header + SumFunction(lengths)
  BY <1>1, <1>2 DEF WriteFile
<1>6. header \in Nat
  <2>1. PICK n \in Nat, l \in Nat : n = Len(t) /\ l = Len(lengths)
    BY <1>4
  <2>. QED BY <1>2, <1>4, <2>1, HeaderFacts
<1>7. \A x \in Nat, k \in Nat : x <= k => x % (k + 1) = x
  OBVIOUS
<1>8. file'.header = header
  <2>1. CASE wide
    BY <1>5, <2>1
  <2>2. CASE ~ wide
    <3>1. wide = FALSE /\ ~ (HeaderBytes(FALSE) > NarrowHeader)
      BY <1>1, <2>2 DEF ChosenWidth
    <3>2. ~ (header > NarrowHeader) /\ NarrowHeader \in Nat
      BY <1>2, <3>1, NarrowAssumption
    <3>3. header % (NarrowHeader + 1) = header
      BY <1>6, <1>7, <3>2
    <3>. QED BY <1>5, <2>2, <3>3
  <2>. QED BY <2>1, <2>2
<1>9. file'.lengths = lengths
  <2>1. ASSUME NEW i \in DOMAIN lengths
        PROVE  StoredLength(wide, lengths[i]) = lengths[i]
    <3>1. CASE wide
      BY <3>1 DEF StoredLength
    <3>2. CASE ~ wide
      <4>1. PICK x : x = lengths[i]
        OBVIOUS
      <4>2. x \in Lengths
        BY <1>4, <4>1
      <4>3. x \in Nat /\ NarrowLength \in Nat
        BY <4>2, PlanAssumption, NarrowAssumption
      <4>4. ~ (x > NarrowLength)
        BY <1>1, <3>2, <4>1 DEF ChosenWidth, NeedsWide
      <4>5. x % (NarrowLength + 1) = x
        BY <1>7, <4>3, <4>4
      <4>. QED BY <3>2, <4>1, <4>5 DEF StoredLength
    <3>. QED BY <3>1, <3>2
  <2>2. lengths = [i \in DOMAIN lengths |-> lengths[i]]
    BY <1>4
  <2>. QED BY <1>5, <2>1, <2>2
<1>10. SumFunction(lengths') = SumFunction(lengths)
  BY <1>3
<1>11. p' = PrefixBytes(file'.wide) + Sum(Bytes(file'.wide, t'), 1 .. Len(rt'))
  <2>1. 1 .. Len(rt') = {}
    BY <1>3, <1>4
  <2>2. PICK f : f = Bytes(file'.wide, t')
    OBVIOUS
  <2>3. Sum(f, {}) = 0
    BY SumUnfolds, FS_EmptySet
  <2>4. Sum(f, 1 .. Len(rt')) = 0
    BY <2>1, <2>3
  <2>5. PrefixBytes(wide) + 0 = PrefixBytes(wide)
    BY DEF PrefixBytes
  <2>. QED BY <1>3, <1>5, <2>2, <2>4, <2>5
<1>12. (file.header = HeaderBytes(file.wide))'
  <2>1. HeaderBytes(file.wide)' = HeaderBytes(wide)
    BY <1>3, <1>5 DEF HeaderBytes
  <2>. QED BY <1>2, <1>8, <2>1
<1>13. file'.object = file'.header + SumFunction(lengths')
  BY <1>5, <1>8, <1>10
<1>. QED BY <1>3, <1>4, <1>5, <1>9, <1>11, <1>12, <1>13 DEF HeaderHolds


\* The node that is read next, and the subtrees needed after it.
Following(node) ==
    needed - 1 + (IF node.tag = LeafTag THEN 0 ELSE IF Cuts(node) THEN 2 ELSE 1)

LEMMA NodeToRead ==
    ASSUME IndexInv, phase = "read", needed > 0, NEW i, i = Len(rt) + 1
    PROVE  /\ Len(rt) \in Nat /\ i \in 1 .. Len(t) /\ file.nodes[i].tag = t[i].tag
           /\ \A w : NodeBytes(w, file.nodes[i]) = NodeBytes(w, t[i])
           /\ Following(file.nodes[i]) \in Nat
           /\ \E e : Chain(t, e, Following(file.nodes[i]), i + 1)
<1>1. /\ t \in Seq(Node) /\ rt \in Seq(Node) /\ WholeTree(t) /\ needed \in Nat
      /\ \A k \in 1 .. Len(t) : file.nodes[k].tag = t[k].tag
      /\ \E c : Chain(t, c, needed, Len(rt) + 1)
  BY DEF IndexInv, TreesTyped, PlanKnown, SubtreesNeeded
<1>2. PICK c : Chain(t, c, needed, i)
  BY <1>1
<1>3. PICK m : m = needed - 1 + (IF t[i].tag = LeafTag THEN 0
                                 ELSE IF Cuts(t[i]) THEN 2 ELSE 1)
  OBVIOUS
<1>4. i \in 1 .. Len(t) /\ m \in Nat /\ \E e : Chain(t, e, m, i + 1)
  BY <1>1, <1>2, <1>3, ChainStep
<1>5. file.nodes[i].tag = t[i].tag
  BY <1>1, <1>4
<1>6. Following(file.nodes[i]) = m
  BY <1>3, <1>5 DEF Following, Cuts
<1>7. \A w : NodeBytes(w, file.nodes[i]) = NodeBytes(w, t[i])
  BY <1>5 DEF NodeBytes
<1>. QED BY <1>1, <1>4, <1>5, <1>6, <1>7

\* Reading a node takes the reader over its bytes.
LEMMA ReadNodeHolds == IndexInv /\ HeaderHolds /\ ReadNode => HeaderHolds'
<1>. SUFFICES ASSUME IndexInv, HeaderHolds, ReadNode PROVE HeaderHolds'
  OBVIOUS
<1>1. PICK i : i = Len(rt) + 1
  OBVIOUS
<1>2. /\ phase = "read" /\ needed > 0 /\ phase' \in {"read", "rejected"}
      /\ UNCHANGED <<t, leaves, lengths, file, damaged>>
      /\ phase' = "read" => /\ p' = p + NodeBytes(file.wide, file.nodes[i])
                            /\ \E x : rt' = Append(rt, x)
  BY <1>1 DEF ReadNode
<1>3. /\ i \in 1 .. Len(t) /\ Len(rt) \in Nat
      /\ NodeBytes(file.wide, file.nodes[i]) = NodeBytes(file.wide, t[i])
  BY <1>1, <1>2, NodeToRead
<1>4. CASE phase' = "read" /\ ~ damaged
  <2>1. /\ lengths \in Seq(Lengths) /\ Len(lengths) = Len(leaves)
        /\ file.wide \in BOOLEAN /\ file.lengths = lengths
        /\ file.header = HeaderBytes(file.wide)
        /\ file.object = file.header + SumFunction(lengths)
        /\ p = PrefixBytes(file.wide) + Sum(Bytes(file.wide, t), 1 .. Len(rt))
    BY <1>2, <1>4 DEF HeaderHolds
  <2>2. t \in Seq(Node) /\ rt \in Seq(Node)
    BY DEF IndexInv, TreesTyped
  <2>3. PICK k \in Nat, n \in Nat, l \in Nat : k = Len(rt) /\ n = Len(t) /\ l = Len(lengths)
                                               /\ i = k + 1 /\ k + 1 \in 1 .. n
    BY <1>1, <1>3, <2>1, <2>2
  <2>4. PICK f : f = Bytes(file.wide, t)
    OBVIOUS
  <2>5. \A j \in 1 .. n : f[j] = NodeBytes(file.wide, t[j]) /\ f[j] \in Int
    BY <2>1, <2>2, <2>3, <2>4, HeaderFacts
  <2>6. Sum(f, 1 .. k + 1) = Sum(f, 1 .. k) + f[k + 1] /\ Sum(f, 1 .. k) \in Int
    <3>1. \A j \in 1 .. k + 1 : f[j] \in Int
      BY <2>3, <2>5
    <3>. QED BY <3>1, SumNext
  <2>7. f[k + 1] = NodeBytes(file.wide, file.nodes[i]) /\ f[k + 1] \in Int
    BY <1>3, <2>3, <2>5
  <2>8. Len(rt') = k + 1
    BY <1>2, <1>4, <2>2, <2>3
  <2>9. p' = PrefixBytes(file.wide) + Sum(f, 1 .. k + 1)
    <3>1. PrefixBytes(file.wide) \in Int
      BY DEF PrefixBytes
    <3>. QED BY <1>2, <1>4, <2>1, <2>3, <2>4, <2>6, <2>7, <3>1
  <2>10. p' = PrefixBytes(file'.wide) + Sum(Bytes(file'.wide, t'), 1 .. Len(rt'))
    BY <1>2, <2>4, <2>8, <2>9
  <2>11. (file.header = HeaderBytes(file.wide))'
    <3>1. HeaderBytes(file.wide)' = HeaderBytes(file.wide)
      BY <1>2 DEF HeaderBytes
    <3>. QED BY <1>2, <2>1, <3>1
  <2>. QED BY <1>2, <1>4, <2>1, <2>10, <2>11 DEF HeaderHolds
<1>5. CASE phase' = "rejected" \/ damaged
  BY <1>2, <1>5 DEF HeaderHolds
<1>. QED BY <1>2, <1>4, <1>5

\* Nothing else moves the reader or changes an undamaged file.
LEMMA HeaderIsHeld == Spec => []HeaderHolds
<1>1. Init => HeaderHolds
  BY DEF Init, HeaderHolds
<1>2. IndexInv /\ HeaderHolds /\ [Next]_vars => HeaderHolds'
  <2>. SUFFICES ASSUME IndexInv, HeaderHolds, [Next]_vars PROVE HeaderHolds'
    OBVIOUS
  <2>1. CASE PlanNode \/ PlanMiscounts \/ FinishPlan
    <3>1. /\ phase = "plan" /\ lengths' = lengths
          /\ phase' \in {"plan", "unplanned", "expand", "refused"}
      BY <2>1 DEF PlanNode, PlanMiscounts, FinishPlan
    <3>. QED BY <3>1 DEF HeaderHolds
  <2>2. ASSUME /\ UNCHANGED <<t, rt, leaves, lengths, file, damaged, p>>
               /\ phase \in {"read", "reexpand", "decode"}
               /\ \/ phase' \in {"rejected", "done"}
                  \/ phase' = "decode"
                  \/ phase' = "reexpand" /\ phase \in {"read", "reexpand"}
        PROVE  HeaderHolds'
    <3>1. HeaderBytes(file.wide)' = HeaderBytes(file.wide)
      BY <2>2 DEF HeaderBytes
    <3>. QED BY <2>2, <3>1 DEF HeaderHolds
  <2>3. CASE ExpandLeaf \/ ExpandNode
    <3>1. /\ UNCHANGED <<t, rt, lengths, file, damaged, p>>
          /\ \/ phase = "expand" /\ phase' \in {"expand", "refused"}
             \/ phase = "reexpand" /\ leaves' = leaves /\ phase' \in {"reexpand", "rejected"}
      BY <2>3 DEF ExpandLeaf, ExpandNode, ExpandFails, List, Expanding
    <3>2. CASE phase = "expand"
      BY <3>1, <3>2 DEF HeaderHolds
    <3>3. CASE phase = "reexpand"
      BY <2>2, <3>1, <3>3
    <3>. QED BY <3>1, <3>2, <3>3
  <2>4. CASE FinishExpand
    <3>1. lengths = <<>> /\ lengths' = lengths /\ phase' = "encode" /\ leaves' = leaves
      BY <2>4 DEF FinishExpand, HeaderHolds
    <3>2. lengths \in Seq(Lengths) /\ Len(lengths) = 0
      BY <3>1
    <3>3. Len(leaves) \in Nat
      BY DEF IndexInv, TreesTyped
    <3>. QED BY <3>1, <3>2, <3>3 DEF HeaderHolds
  <2>5. CASE EncodeLeaf
    <3>1. /\ phase = "encode" /\ phase' = "encode" /\ Len(lengths) < Len(leaves)
          /\ leaves' = leaves /\ lengths \in Seq(Lengths)
          /\ \E length \in Lengths : lengths' = Append(lengths, length)
      BY <2>5 DEF EncodeLeaf, HeaderHolds
    <3>2. lengths' \in Seq(Lengths) /\ Len(lengths') = Len(lengths) + 1 /\ Len(lengths) \in Nat
      BY <3>1
    <3>3. Len(leaves) \in Nat
      BY DEF IndexInv, TreesTyped
    <3>4. Len(lengths') <= Len(leaves')
      BY <3>1, <3>2, <3>3
    <3>. QED BY <3>1, <3>2, <3>4 DEF HeaderHolds
  <2>6. CASE WriteFile
    BY <2>6, WriteHeaderHolds
  <2>7. CASE DamageFile
    <3>1. phase = "read" /\ phase' = "read" /\ damaged'
      BY <2>7 DEF DamageFile
    <3>. QED BY <3>1 DEF HeaderHolds
  <2>8. CASE ReadNode
    BY <2>8, ReadNodeHolds
  <2>9. CASE FinishRead
    BY <2>2, <2>9 DEF FinishRead
  <2>10. CASE FinishIndex
    BY <2>2, <2>10 DEF FinishIndex
  <2>11. CASE DecodeLeaf
    BY <2>2, <2>11 DEF DecodeLeaf
  <2>12. CASE UNCHANGED vars
    <3>1. /\ UNCHANGED <<phase, t, rt, leaves, lengths, file, damaged, p>>
      BY <2>12 DEF vars
    <3>2. HeaderBytes(file.wide)' = HeaderBytes(file.wide)
      BY <3>1 DEF HeaderBytes
    <3>. QED BY <3>1, <3>2 DEF HeaderHolds
  <2>. QED BY <2>1, <2>3, <2>4, <2>5, <2>6, <2>7, <2>8, <2>9, <2>10, <2>11, <2>12 DEF Next
<1>. QED BY <1>1, <1>2, IndexInvariant, PTL DEF Spec


-----------------------------------------------------------------------------
(* What is planned is readable.                                            *)

\* Twice the unit or more, halved and rounded down to units, is less but not nothing.
LEMMA HalfFacts ==
    ASSUME NEW u \in Nat \ {0}, NEW x \in Nat, x > u, x % u = 0, NEW v,
           v = (x \div (2 * u)) * u
    PROVE  v \in Nat /\ v > 0 /\ v < x /\ v % u = 0
<1>1. PICK k : k = x \div u
  OBVIOUS
<1>2. k \in Nat /\ x = u * k
  BY <1>1, DivisionFacts
<1>3. k >= 2
  <2>1. k = 0 => u * k = 0
    OBVIOUS
  <2>2. k = 1 => u * k = u
    OBVIOUS
  <2>. QED BY <1>2, <2>1, <2>2
<1>4. PICK w \in Nat \ {0} : w = 2 * u
  OBVIOUS
<1>5. PICK q, m : q = x \div w /\ m = x % w
  OBVIOUS
<1>6. q \in Nat /\ m \in Nat /\ m < w /\ x = w * q + m
  BY <1>4, <1>5, DivisionFacts, ZenonT(30)
<1>7. v = q * u
  BY <1>4, <1>5
<1>8. x >= w
  <2>1. PICK j \in Nat : k = 2 + j
    <3>1. k - 2 \in Nat /\ k = 2 + (k - 2)
      BY <1>2, <1>3
    <3>. QED BY <3>1
  <2>2. u * k = 2 * u + u * j /\ u * j \in Nat
    BY <2>1
  <2>. QED BY <1>2, <1>4, <2>2
<1>9. q >= 1
  <2>1. q = 0 => w * q = 0
    BY <1>4
  <2>. QED BY <1>6, <1>8, <2>1
<1>10. PICK c \in Nat : c = q * u /\ c = u * q
  BY <1>6
<1>11. c >= u
  <2>1. \A i \in Nat, j \in Nat : j >= 1 => i * j >= i
    OBVIOUS
  <2>. QED BY <1>6, <1>9, <1>10, <2>1
<1>12. w * q = c + c
  BY <1>4, <1>6, <1>10
<1>13. c > 0 /\ c < x
  BY <1>6, <1>11, <1>12
<1>14. c % u = c - u * q
  <2>1. u * q <= c /\ c < u * q + u
    BY <1>10
  <2>. QED BY <1>6, <2>1, DivisionUnique
<1>15. c % u = 0
  BY <1>10, <1>14
<1>. QED BY <1>7, <1>10, <1>13, <1>15

\* Every aligned domain can be planned without a caller's plan.
LEMMA AutoPlannable ==
    ASSUME NEW d \in Aligned
    PROVE  Plannable(d, AutoNode(d))
<1>1. /\ d \in Domain /\ \A a \in Axes : d.size[a] \in Nat
      /\ \A a \in 0 .. 2 : d.size[a] >= Unit /\ d.size[a] % Unit = 0
      /\ d.size[3] >= 1
  BY DEF Aligned, Units, Axes, Grain
<1>2. Unit \in Nat \ {0}
  BY UnitAssumption
<1>3. PICK c \in Nat : c = d.size[3] /\ c >= 1
  BY <1>1 DEF Axes
<1>4. CASE c > 1
  <2>1. AutoNode(d) = [tag |-> 7, value |-> c]
    BY <1>3, <1>4 DEF AutoNode
  <2>2. PICK node : node = [tag |-> 7, value |-> c]
    OBVIOUS
  <2>3. node.tag = 7 /\ node.value = c /\ ~ Cuts(node) /\ 7 % 4 = 3 /\ node.tag # LeafTag
    BY <2>2 DEF Cuts, LeafTag
  <2>4. AxisOf(node) = 3 /\ Grain(3) = 1
    BY <2>3 DEF AxisOf, Grain
  <2>5. c \div c = 1 /\ c % c = 0 /\ 1 % 1 = 0 /\ c >= 2
    <3>1. c * 1 <= c /\ c < c * 1 + c /\ 1 \in Nat /\ c \in Nat \ {0}
      BY <1>4
    <3>2. c \div c = 1 /\ c % c = c - c * 1
      BY <3>1, DivisionUnique
    <3>3. c - c * 1 = 0 /\ 1 % 1 = 0
      OBVIOUS
    <3>4. c >= 2
      BY <1>4
    <3>. QED BY <3>2, <3>3, <3>4
  <2>6. Divides(d, node)
    BY <1>3, <2>3, <2>4, <2>5 DEF Divides
  <2>. QED BY <2>1, <2>2, <2>3, <2>6 DEF Plannable
<1>5. CASE ~ (c > 1) /\ Cube(d) /\ LeafShape(d)
  <2>1. c = 1
    BY <1>3, <1>5
  <2>2. AutoNode(d) = LeafNode
    BY <1>3, <1>5, <2>1 DEF AutoNode
  <2>. QED BY <1>3, <1>5, <2>1, <2>2 DEF Plannable, LeafNode
<1>6. CASE ~ (c > 1) /\ ~ (Cube(d) /\ LeafShape(d))
  <2>1. PICK a \in 0 .. 2 : a = Longest(d) /\ \A b \in 0 .. 2 : d.size[b] <= d.size[a]
    BY <1>1, LongestFacts
  <2>2. PICK x \in Nat : x = d.size[a]
    BY <1>1, <2>1 DEF Axes
  <2>3. PICK v : v = (x \div (2 * Unit)) * Unit
    OBVIOUS
  <2>4. AutoNode(d) = [tag |-> a, value |-> v]
    BY <1>3, <1>6, <2>1, <2>2, <2>3 DEF AutoNode
  <2>5. PICK x0 \in Nat, x1 \in Nat, x2 \in Nat :
            /\ x0 = d.size[0] /\ x1 = d.size[1] /\ x2 = d.size[2]
            /\ x0 <= x /\ x1 <= x /\ x2 <= x /\ x0 >= Unit /\ x1 >= Unit /\ x2 >= Unit
    <3>1. 0 \in 0 .. 2 /\ 1 \in 0 .. 2 /\ 2 \in 0 .. 2 /\ 0 .. 2 \subseteq Axes
      BY DEF Axes
    <3>2. d.size[0] \in Nat /\ d.size[1] \in Nat /\ d.size[2] \in Nat
      BY <1>1, <3>1
    <3>3. d.size[0] <= x /\ d.size[1] <= x /\ d.size[2] <= x
      BY <2>1, <2>2, <3>1
    <3>4. d.size[0] >= Unit /\ d.size[1] >= Unit /\ d.size[2] >= Unit
      BY <1>1, <3>1
    <3>. QED BY <3>2, <3>3, <3>4
  <2>6. x > Unit
    <3>. SUFFICES ASSUME x <= Unit PROVE FALSE
      BY <1>2
    <3>1. x0 = Unit /\ x1 = Unit /\ x2 = Unit
      BY <1>2, <2>5
    <3>2. Cube(d)
      BY <2>5, <3>1 DEF Cube
    <3>3. x2 <= LeafX /\ x0 * x1 <= LeafArea
      BY <1>2, <3>1, LeafAssumption
    <3>4. LeafShape(d)
      BY <2>5, <3>3 DEF LeafShape
    <3>. QED BY <1>6, <3>2, <3>4
  <2>7. x % Unit = 0
    BY <1>1, <2>1, <2>2
  <2>8. v \in Nat /\ v > 0 /\ v < x /\ v % Unit = 0
    BY <1>2, <2>3, <2>6, <2>7, HalfFacts
  <2>9. PICK node : node = [tag |-> a, value |-> v]
    OBVIOUS
  <2>10. node.tag = a /\ node.value = v /\ Cuts(node) /\ node.tag # LeafTag
    BY <2>9 DEF Cuts, LeafTag
  <2>11. AxisOf(node) = a /\ Grain(a) = Unit
    <3>1. \A i \in 0 .. 2 : i % 4 = i /\ i # 3
      OBVIOUS
    <3>. QED BY <2>10, <3>1 DEF AxisOf, Grain
  <2>12. Divides(d, node)
    BY <2>2, <2>8, <2>10, <2>11 DEF Divides
  <2>. QED BY <2>4, <2>9, <2>10, <2>12 DEF Plannable
<1>. QED BY <1>4, <1>5, <1>6

\* The lengths that are left when the tree is read are one per leaf.
LEMMA LengthsAreThere ==
    ASSUME IndexInv, HeaderHolds, phase \in {"read", "reexpand"}, ~ damaged,
           Len(rt) = Len(t)
    PROVE  (file.header - p) % LengthBytes(file.wide) = 0 /\ LengthsThere = Len(leaves)
<1>1. t \in Seq(Node)
  BY DEF IndexInv, TreesTyped
<1>2. /\ lengths \in Seq(Lengths) /\ Len(lengths) = Len(leaves)
      /\ file.wide \in BOOLEAN /\ file.header = HeaderBytes(file.wide)
      /\ p = PrefixBytes(file.wide) + Sum(Bytes(file.wide, t), 1 .. Len(rt))
  BY DEF HeaderHolds
<1>3. PICK n \in Nat, l \in Nat : n = Len(t) /\ l = Len(lengths)
  BY <1>1, <1>2
<1>4. PICK x, b : x = Sum(Bytes(file.wide, t), 1 .. n) /\ b = LengthBytes(file.wide)
  OBVIOUS
<1>5. x \in Int /\ HeaderBytes(file.wide) = PrefixBytes(file.wide) + x + b * l
  BY <1>1, <1>2, <1>3, <1>4, HeaderFacts
<1>6. b \in Nat \ {0} /\ PrefixBytes(file.wide) \in Nat
  BY <1>4 DEF LengthBytes, PrefixBytes
<1>7. PICK y \in Nat : y = b * l
  BY <1>6
<1>8. file.header - p = y
  BY <1>2, <1>3, <1>4, <1>5, <1>6, <1>7
<1>9. y \div b = l /\ y % b = y - b * l
  <2>1. b * l <= y /\ y < b * l + b
    BY <1>6, <1>7
  <2>. QED BY <1>6, <2>1, DivisionUnique
<1>10. y % b = 0
  BY <1>7, <1>9
<1>. QED BY <1>2, <1>3, <1>4, <1>8, <1>9, <1>10 DEF LengthsThere


\* Where a side is that expands what was planned: along an expansion, the reader on
\* one that ends with the writer's leaves.
LEMMA WherePlanned ==
    ASSUME IndexInv, PlanTraced, FileTells, TreeRetold, Retraced, Expanding,
           phase = "reexpand" => ~ damaged
    PROVE  /\ Template = t /\ Whole = root /\ root \in Aligned /\ t \in Seq(Node)
           /\ \E h : /\ Planned(t, root, h) /\ h[Len(t)] = <<>>
                     /\ Along(t, h, stack, Listed)
<1>1. PICK h : Planned(t, root, h) /\ h[Len(t)] = <<>>
  BY DEF PlanTraced, Expanding
<1>2. t \in Seq(Node) /\ root \in Aligned
  BY RootAligned DEF IndexInv, TreesTyped
<1>3. CASE phase = "expand"
  <2>1. PICK n, S, I : Trace(t, root, n, S, I) /\ stack = S[n] /\ leaves = I[n]
    BY <1>3 DEF Retraced
  <2>2. n \in 0 .. n
    BY <2>1 DEF Trace
  <2>3. Along(t, h, S[n], I[n])
    <3>. HIDE DEF Aligned
    <3>. QED BY <1>1, <1>2, <2>1, <2>2, TraceAlong
  <2>4. Template = t /\ Whole = root /\ Listed = leaves
    BY <1>3 DEF Template, Whole, Listed
  <2>. QED BY <1>1, <1>2, <2>1, <2>3, <2>4
<1>4. CASE phase = "reexpand"
  <2>1. PICK n, S, I : Trace(t, root, n, S, I) /\ Passes(S, I, n, stack, index)
    BY <1>4 DEF Retraced
  <2>2. PICK k \in 0 .. n : stack = S[k] /\ index = I[k]
    BY <2>1 DEF Passes
  <2>3. Along(t, h, S[k], I[k])
    <3>. HIDE DEF Aligned
    <3>. QED BY <1>1, <1>2, <2>1, <2>2, TraceAlong
  <2>4. Template = t /\ Whole = root /\ Listed = index
    BY <1>4 DEF Template, Whole, Listed, TreeRetold, FileTells
  <2>. QED BY <1>1, <1>2, <2>2, <2>3, <2>4
<1>. QED BY <1>3, <1>4 DEF Expanding

\* One more node of the reader's leaves it no more than the lengths there are.
LEMMA ReaderFits ==
    ASSUME IndexInv, PlanTraced, FileTells, TreeRetold, Retraced, HeaderHolds,
           phase = "reexpand", ~ damaged, NEW st, NEW li,
           ExpansionStep(t, stack, index, st, li)
    PROVE  Count(st, li) <= Limit
<1>1. PICK h : Planned(t, root, h) /\ h[Len(t)] = <<>>
  BY DEF PlanTraced
<1>2. t \in Seq(Node) /\ root \in Aligned /\ leaves \in Seq(Domain) /\ rt = t
  BY RootAligned DEF IndexInv, TreesTyped, TreeRetold
<1>3. PICK n, S, I : /\ Trace(t, root, n, S, I) /\ S[n] = <<>> /\ leaves = I[n]
                     /\ Passes(S, I, n, stack, index)
  BY DEF Retraced
<1>4. PICK k \in 0 .. n : st = S[k] /\ li = I[k]
  <2>1. Passes(S, I, n, st, li)
    BY <1>3, TraceLeads
  <2>. QED BY <2>1 DEF Passes
<1>5. Count(S[k], I[k]) <= Count(S[n], I[n])
  <2>. HIDE DEF Aligned
  <2>. QED BY <1>1, <1>2, <1>3, TraceAlong
<1>6. Count(S[n], I[n]) = Len(leaves)
  <2>1. PICK l \in Nat : l = Len(leaves)
    BY <1>2
  <2>2. Len(<<>>) = 0
    OBVIOUS
  <2>3. Count(S[n], I[n]) = l + 0
    BY <1>3, <2>1, <2>2 DEF Count
  <2>. QED BY <2>1, <2>3
<1>7. Limit = Len(leaves)
  <2>1. LengthsThere = Len(leaves)
    BY <1>2, LengthsAreThere
  <2>. QED BY <2>1 DEF Limit
<1>. QED BY <1>4, <1>5, <1>6, <1>7

\* Neither side gives up on what was planned.
LEMMA PlannedExpands ==
    ASSUME IndexInv, PlanTraced, FileTells, TreeRetold, Retraced, HeaderHolds,
           ExpandLeaf \/ ExpandNode, phase = "reexpand" => ~ damaged
    PROVE  phase' = phase
<1>1. Expanding /\ stack # <<>>
  BY DEF ExpandLeaf, ExpandNode
<1>2. PICK h : /\ Planned(t, root, h) /\ h[Len(t)] = <<>>
               /\ Along(t, h, stack, Listed)
  BY <1>1, WherePlanned
<1>3. Template = t /\ Whole = root /\ root \in Aligned /\ t \in Seq(Node)
  BY <1>1, WherePlanned
<1>4. /\ stack \in Seq(Job(Len(t))) /\ Len(t) \in Nat
      /\ Partition(Listed \o Pending(stack), Len(Listed \o Pending(stack)), root)
      /\ Limit \in Int /\ Len(Listed) + Len(stack) <= Limit /\ Listed \in Seq(Domain)
  BY <1>1, <1>3, WhileExpanding
<1>. DEFINE d == Head(stack).d
            i == Head(stack).node
<1>5. d \in Domain /\ i \in 1 .. Len(t)
  <2>1. PICK m : m = Len(t)
    OBVIOUS
  <2>2. Head(stack) \in Job(m)
    BY <1>1, <1>4, <2>1
  <2>. QED BY <2>1, <2>2 DEF Job
<1>6. d.size = Head(h[i - 1]).size
  <2>. HIDE DEF Job
  <2>1. AllSized(h, stack)
    BY <1>2 DEF Along
  <2>2. Sized(h, Head(stack))
    BY <1>1, <1>4, <2>1, AllSizedTail
  <2>. QED BY <2>2 DEF Sized
<1>7. PICK a \in Nat, b \in Nat : a = Len(Listed) /\ b = Len(stack) /\ b >= 1
                                  /\ Len(Tail(stack)) = b - 1
  <2>. HIDE DEF Job, Domain
  <2>. QED BY <1>1, <1>4
<1>8. CASE ExpandLeaf
  <2>1. t[i].tag = LeafTag
    BY <1>3, <1>8 DEF ExpandLeaf
  <2>2. d.size[3] = 1 /\ LeafShape(d)
    <3>. HIDE DEF d, i
    <3>. QED BY <1>2, <1>3, <1>5, <1>6, <2>1, LeafSized
  <2>3. Len(Listed) < Limit
    <3>. HIDE DEF Listed, Limit
    <3>. QED BY <1>4, <1>7
  <2>. QED BY <1>8, <2>2, <2>3 DEF ExpandLeaf
<1>9. CASE ExpandNode
  <2>. DEFINE parts == Parts(d, t[i])
              js == Jobs(d, i, t)
  <2>1. t[i].tag # LeafTag
    BY <1>3, <1>9 DEF ExpandNode
  <2>2. Divides(d, t[i]) /\ js \in Seq(Job(Len(t))) /\ Len(js) = Len(parts)
    <3>. HIDE DEF d, i
    <3>. QED BY <1>2, <1>3, <1>5, <1>6, <2>1, JobsSized
  <2>3. Len(Listed) + Len(Tail(stack)) + Len(parts) <= Limit
    <3>1. CASE phase = "expand"
      <4>1. Limit = Volume(root) \div UnitCube
        BY <3>1 DEF Limit, UnitCube
      <4>2. Len(Listed) + Len(Tail(stack)) + Len(Parts(Head(stack).d, t[Head(stack).node]))
               <= Volume(root) \div UnitCube
        <5>. HIDE DEF Aligned
        <5>. QED BY <1>1, <1>2, <1>3, <1>4, <2>1, NodeFits
      <4>. QED BY <4>1, <4>2
    <3>2. CASE phase = "reexpand"
      <4>1. Listed = index
        BY <3>2 DEF Listed
      <4>2. PICK st : st = js \o Tail(stack)
        OBVIOUS
      <4>3. ExpansionStep(t, stack, index, st, index)
        BY <1>1, <2>1, <4>2 DEF ExpansionStep
      <4>4. Count(st, index) <= Limit
        BY <3>2, <4>3, ReaderFits
      <4>5. PICK x \in Nat : x = Len(js)
        <5>. HIDE DEF js, Job
        <5>. QED BY <2>2
      <4>6. Len(st) = x + (b - 1)
        <5>. HIDE DEF js, Job
        <5>1. PICK X : X = Job(Len(t))
          OBVIOUS
        <5>2. js \in Seq(X) /\ Tail(stack) \in Seq(X)
          BY <1>1, <1>4, <2>2, <5>1
        <5>3. Len(js \o Tail(stack)) = Len(js) + Len(Tail(stack))
          BY <5>2
        <5>4. Len(st) = Len(js \o Tail(stack))
          BY <4>2, Zenon
        <5>. QED BY <1>7, <4>5, <5>3, <5>4
      <4>7. a + (x + (b - 1)) <= Limit
        <5>. HIDE DEF js, Limit
        <5>. QED BY <1>7, <4>1, <4>4, <4>6 DEF Count
      <4>8. Len(parts) = x
        BY <2>2, <4>5
      <4>. HIDE DEF js, parts, Limit, Listed
      <4>9. a + (b - 1) + x <= Limit
        BY <1>4, <4>7
      <4>. QED BY <1>7, <4>8, <4>9
    <3>. QED BY <1>1, <3>1, <3>2 DEF Expanding
  <2>4. Fits(Len(parts))
    BY <2>3 DEF Fits
  <2>. QED BY <1>3, <1>9, <2>2, <2>4 DEF ExpandNode
<1>. QED BY <1>8, <1>9


\* The header has room for the node and for the subtrees needed after it.
LEMMA NodeIsThere ==
    ASSUME IndexInv, PlanTraced, Retraced, HeaderHolds, phase = "read", needed > 0,
           ~ damaged, NEW node, node = file.nodes[Len(rt) + 1]
    PROVE  /\ HeaderThere
           /\ p + NodeBytes(file.wide, node) <= file.header
           /\ Following(node) <= file.header - (p + NodeBytes(file.wide, node))
<1>1. PICK i : i = Len(rt) + 1
  OBVIOUS
<1>2. /\ i \in 1 .. Len(t) /\ Len(rt) \in Nat
      /\ NodeBytes(file.wide, node) = NodeBytes(file.wide, t[i])
      /\ Following(node) \in Nat /\ \E e : Chain(t, e, Following(node), i + 1)
  BY <1>1, NodeToRead
<1>3. PICK h : Planned(t, root, h) /\ h[Len(t)] = <<>>
  BY DEF PlanTraced
<1>4. t \in Seq(Node)
  BY DEF IndexInv, TreesTyped
<1>5. PICK m \in Nat : m = Following(node)
  BY <1>2
<1>6. PICK e : Chain(t, e, m, i + 1)
  BY <1>2, <1>5
<1>7. PICK n \in Nat, k \in Nat : n = Len(t) /\ k = Len(rt) /\ i = k + 1 /\ k + 1 \in 1 .. n
  BY <1>1, <1>2, <1>4
<1>8. m <= n - (k + 1)
  <2>1. PICK from \in Nat : from = i + 1
    BY <1>7
  <2>2. from + m <= Len(t) + 1
    BY <1>3, <1>4, <1>6, <2>1, ChainFits
  <2>. QED BY <1>7, <2>1, <2>2
<1>9. /\ lengths \in Seq(Lengths) /\ Len(lengths) = Len(leaves)
      /\ file.wide \in BOOLEAN /\ file.header = HeaderBytes(file.wide)
      /\ file.object = file.header + SumFunction(lengths)
      /\ p = PrefixBytes(file.wide) + Sum(Bytes(file.wide, t), 1 .. Len(rt))
  BY DEF HeaderHolds
<1>10. PICK l \in Nat : l = Len(lengths) /\ l >= 1
  BY <1>9, LeavesListed
<1>11. PICK f : f = Bytes(file.wide, t)
  OBVIOUS
<1>12. /\ \A j \in 1 .. n : f[j] = NodeBytes(file.wide, t[j]) /\ f[j] \in Int /\ f[j] >= 1
       /\ HeaderBytes(file.wide) = PrefixBytes(file.wide) + Sum(f, 1 .. n)
                                   + LengthBytes(file.wide) * l
       /\ HeaderBytes(file.wide) \in Nat
  BY <1>4, <1>7, <1>9, <1>10, <1>11, HeaderFacts
<1>13. PICK j \in Nat : j = k + 1 /\ j <= n
  BY <1>7
<1>14. PICK x, y : x = Sum(f, 1 .. n) /\ y = Sum(f, 1 .. j)
  OBVIOUS
<1>15. x \in Int /\ y \in Int /\ x >= y + (n - j)
  <2>1. PICK c \in Int : c = 1
    OBVIOUS
  <2>2. \A q \in j + 1 .. n : f[q] >= c
    BY <1>12, <2>1
  <2>3. Sum(f, 1 .. n) >= Sum(f, 1 .. j) + (n - j) * c
        /\ Sum(f, 1 .. n) \in Int /\ Sum(f, 1 .. j) \in Int
    BY <1>12, <1>13, <2>2, SumGrows
  <2>4. (n - j) * c = n - j
    BY <2>1
  <2>. QED BY <1>14, <2>3, <2>4
<1>16. PICK u : u = PrefixBytes(file.wide)
  OBVIOUS
<1>17. p + NodeBytes(file.wide, node) = u + y
  <2>1. Sum(f, 1 .. k + 1) = Sum(f, 1 .. k) + f[k + 1] /\ Sum(f, 1 .. k) \in Int
    <3>1. \A q \in 1 .. k + 1 : f[q] \in Int
      BY <1>7, <1>12
    <3>. QED BY <3>1, SumNext
  <2>2. f[k + 1] = NodeBytes(file.wide, node) /\ f[k + 1] \in Int
    BY <1>2, <1>7, <1>12
  <2>3. u \in Int
    BY <1>16 DEF PrefixBytes
  <2>4. p = u + Sum(f, 1 .. k)
    BY <1>7, <1>9, <1>11, <1>16
  <2>5. y = Sum(f, 1 .. k) + f[k + 1]
    BY <1>13, <1>14, <2>1
  <2>. QED BY <2>1, <2>2, <2>3, <2>4, <2>5
<1>18. PICK b : b = LengthBytes(file.wide)
  OBVIOUS
<1>19. /\ u \in Nat /\ b \in Nat /\ b >= 1
       /\ MinHeader(file.wide) = u + 1 + b
  BY <1>16, <1>18 DEF PrefixBytes, LengthBytes, MinHeader
<1>20. PICK z \in Nat : z = b * l /\ z >= b
  <2>1. \A v \in Nat, w \in Nat : w >= 1 => v * w \in Nat /\ v * w >= v
    OBVIOUS
  <2>2. b * l \in Nat /\ b * l >= b
    BY <1>10, <1>19, <2>1
  <2>. QED BY <2>2
<1>21. file.header = u + x + z
  BY <1>9, <1>12, <1>14, <1>16, <1>18, <1>20
<1>22. y >= 1
  <2>1. PICK c \in Int, q \in Nat : c = 1 /\ q = 0
    OBVIOUS
  <2>2. q <= j /\ (\A v \in 1 .. j : f[v] \in Int) /\ \A v \in q + 1 .. j : f[v] >= c
    BY <1>12, <1>13, <2>1
  <2>3. Sum(f, 1 .. j) >= Sum(f, 1 .. q) + (j - q) * c
    BY <2>2, SumGrows
  <2>4. Sum(f, 1 .. q) = 0
    <3>1. 1 .. q = {}
      BY <2>1
    <3>. QED BY <3>1, SumUnfolds, FS_EmptySet
  <2>5. (j - q) * c = j
    BY <2>1
  <2>6. y >= 0 + j
    BY <1>14, <2>3, <2>4, <2>5
  <2>. QED BY <1>13, <1>15, <2>6
<1>23. HeaderThere
  <2>1. file.header >= MinHeader(file.wide)
    BY <1>13, <1>15, <1>19, <1>20, <1>21, <1>22
  <2>2. file.header <= file.object
    <3>1. SumFunction(lengths) \in Nat
      BY <1>9, LengthsAddUp
    <3>. QED BY <1>9, <1>12, <3>1
  <2>. QED BY <2>1, <2>2 DEF HeaderThere
<1>24. u + y <= file.header
  BY <1>13, <1>15, <1>19, <1>20, <1>21
<1>25. m <= file.header - (u + y)
  BY <1>8, <1>13, <1>15, <1>19, <1>20, <1>21
<1>. QED BY <1>5, <1>17, <1>23, <1>24, <1>25


\* The plan a side chooses for itself, and the one that it was given, are never given
\* up once they are whole.
LEMMA PlanningGoesOn ==
    ASSUME IndexInv, PlanTraced, PlanNode \/ FinishPlan
    PROVE  /\ phase' # "refused"
           /\ phase' = "unplanned" => ~ auto
           /\ phase' # "rejected"
<1>1. PICK h : Planned(t, root, h) /\ h[Len(t)] = stack
  BY DEF PlanNode, FinishPlan, PlanTraced
<1>2. t \in Seq(Node) /\ phase = "plan"
  BY DEF IndexInv, TreesTyped, PlanNode, FinishPlan
<1>3. CASE FinishPlan
  <2>1. stack = <<>>
    BY <1>3 DEF FinishPlan
  <2>2. WholeTree(t)
    BY <1>1, <1>2, <2>1, PlanWhole
  <2>3. phase' = "expand"
    BY <1>3, <2>2 DEF FinishPlan
  <2>. QED BY <2>3
<1>4. CASE PlanNode
  <2>1. stack # <<>>
    BY <1>4 DEF PlanNode
  <2>2. stack \in Seq(Aligned)
    <3>1. PICK n \in Nat : n = Len(t)
      BY <1>2
    <3>. QED BY <1>1, <3>1 DEF Planned
  <2>3. PICK d \in Aligned : d = Head(stack)
    <3>. HIDE DEF Aligned
    <3>. QED BY <2>1, <2>2
  <2>4. Plannable(d, AutoNode(d))
    BY AutoPlannable
  <2>5. PICK node \in IF auto THEN {AutoNode(d)} ELSE PlanNodes :
            IF Plannable(d, node) THEN phase' = phase ELSE phase' = "unplanned"
    BY <1>4, <2>3 DEF PlanNode
  <2>6. auto => phase' = phase
    BY <2>4, <2>5
  <2>. QED BY <1>2, <2>5, <2>6
<1>. QED BY <1>3, <1>4

\* The reader takes an undamaged file to the end.
LEMMA ReadingGoesOn ==
    ASSUME IndexInv, PlanTraced, FileTells, TreeRetold, Retraced, HeaderHolds, Written,
           ReadNode \/ FinishRead \/ FinishIndex \/ DecodeLeaf, ~ damaged
    PROVE  phase' \notin {"refused", "unplanned", "rejected"}
<1>1. CASE ReadNode
  <2>1. PICK node : node = file.nodes[Len(rt) + 1]
    OBVIOUS
  <2>2. phase = "read" /\ needed > 0
    BY <1>1 DEF ReadNode
  <2>3. /\ HeaderThere
        /\ p + NodeBytes(file.wide, node) <= file.header
        /\ Following(node) <= file.header - (p + NodeBytes(file.wide, node))
    BY <2>1, <2>2, NodeIsThere
  <2>4. phase' = phase
    BY <1>1, <2>1, <2>3 DEF ReadNode, Following
  <2>. QED BY <2>2, <2>4
<1>2. CASE FinishRead
  <2>1. phase = "read" /\ needed = 0
    BY <1>2 DEF FinishRead
  <2>2. rt = t
    BY <2>1, TreeIsRead
  <2>3. WholeTree(rt)
    <3>1. WholeTree(t)
      BY <2>1 DEF IndexInv, PlanKnown
    <3>. QED BY <2>2, <3>1
  <2>4. (file.header - p) % LengthBytes(file.wide) = 0 /\ LengthsThere = Len(leaves)
    BY <2>1, <2>2, LengthsAreThere
  <2>5. Len(leaves) \in Nat /\ Len(leaves) >= 1
    BY <2>1, LeavesListed
  <2>6. LengthsThere > 0
    BY <2>4, <2>5
  <2>7. phase' = "reexpand"
    BY <1>2, <2>3, <2>4, <2>6 DEF FinishRead
  <2>. QED BY <2>7
<1>3. CASE FinishIndex
  <2>1. phase = "reexpand" /\ stack = <<>>
    BY <1>3 DEF FinishIndex
  <2>2. index = leaves /\ rt = t
    BY <2>1, IndexIsListed DEF TreeRetold
  <2>3. Len(index) = Limit
    <3>1. LengthsThere = Len(leaves)
      BY <2>1, <2>2, LengthsAreThere
    <3>. QED BY <2>1, <2>2, <3>1 DEF Limit
  <2>4. /\ lengths \in Seq(Lengths) /\ file.lengths = lengths
        /\ file.object = file.header + SumFunction(lengths)
    BY <2>1 DEF HeaderHolds
  <2>5. \A i \in DOMAIN file.lengths : file.lengths[i] >= 4
    <3>1. \A i \in DOMAIN lengths : lengths[i] \in Lengths
      BY <2>4
    <3>2. \A x \in Lengths : x >= 4
      BY PlanAssumption
    <3>. QED BY <2>4, <3>1, <3>2
  <2>6. phase' = "decode"
    <3>1. file.header + SumFunction(file.lengths) = file.object
      BY <2>4
    <3>. QED BY <1>3, <2>3, <2>5, <3>1 DEF FinishIndex
  <2>. QED BY <2>6
<1>4. CASE DecodeLeaf
  <2>1. phase = "decode" /\ found < Len(index)
    BY <1>4 DEF DecodeLeaf
  <2>2. index = leaves /\ file.lengths = lengths /\ found \in Nat
    BY <2>1 DEF Retraced, HeaderHolds, Written
  <2>3. PICK i : i = found + 1
    OBVIOUS
  <2>4. PayloadAt(i) = i /\ i # 0
    BY <2>2, <2>3 DEF PayloadAt
  <2>5. leaves[i].size = index[i].size
    BY <2>2
  <2>6. phase' \in {"done", phase}
    BY <1>4, <2>3, <2>4, <2>5 DEF DecodeLeaf
  <2>. QED BY <2>1, <2>6
<1>. QED BY <1>1, <1>2, <1>3, <1>4

\* Whatever the volume and the plan, and whatever the leaves' lengths: a plan that
\* passes plan_tree is expanded within the writer's bound, its header wraps nothing,
\* and vc_index_read and vc_indexed_decode refuse no file that came to no harm; and
\* vc_indexed_encode always finds a plan of its own.
THEOREM PlansAlwaysReadable == Spec => []PlannedIsReadable
<1>1. Init => PlannedIsReadable
  BY DEF Init, PlannedIsReadable
<1>2. /\ IndexInv /\ PlanTraced /\ FileTells /\ TreeRetold /\ Retraced /\ HeaderHolds
      /\ Written /\ PlannedIsReadable /\ [Next]_vars
      => PlannedIsReadable'
  <2>. SUFFICES ASSUME IndexInv, PlanTraced, FileTells, TreeRetold, Retraced, HeaderHolds,
                       Written, PlannedIsReadable, [Next]_vars
                PROVE  PlannedIsReadable'
    OBVIOUS
  <2>1. CASE PlanNode \/ FinishPlan
    <3>1. auto' = auto
      BY <2>1 DEF PlanNode, FinishPlan
    <3>. QED BY <2>1, <3>1, PlanningGoesOn DEF PlannedIsReadable
  <2>2. CASE PlanMiscounts
    BY <2>2 DEF PlanMiscounts, PlannedIsReadable
  <2>3. CASE ExpandLeaf \/ ExpandNode
    <3>1. /\ auto' = auto /\ damaged' = damaged /\ phase \in {"expand", "reexpand"}
          /\ \/ phase' = phase
             \/ phase' = IF phase = "expand" THEN "refused" ELSE "rejected"
      BY <2>3 DEF ExpandLeaf, ExpandNode, ExpandFails, Expanding
    <3>2. (phase = "reexpand" => ~ damaged) => phase' = phase
      BY <2>3, PlannedExpands
    <3>. QED BY <3>1, <3>2 DEF PlannedIsReadable
  <2>4. CASE FinishExpand \/ EncodeLeaf \/ WriteFile \/ DamageFile
    <3>1. phase' \in {"encode", "read"}
      BY <2>4 DEF FinishExpand, EncodeLeaf, WriteFile, DamageFile
    <3>. QED BY <3>1 DEF PlannedIsReadable
  <2>5. CASE ReadNode \/ FinishRead \/ FinishIndex \/ DecodeLeaf
    <3>1. /\ auto' = auto /\ damaged' = damaged
          /\ phase' \in {"read", "reexpand", "decode", "done", "rejected"}
      BY <2>5 DEF ReadNode, FinishRead, FinishIndex, DecodeLeaf
    <3>2. CASE damaged
      BY <3>1, <3>2 DEF PlannedIsReadable
    <3>3. CASE ~ damaged
      <4>1. phase' \notin {"refused", "unplanned", "rejected"}
        BY <2>5, <3>3, ReadingGoesOn
      <4>. QED BY <4>1 DEF PlannedIsReadable
    <3>. QED BY <3>2, <3>3
  <2>6. CASE UNCHANGED vars
    BY <2>6 DEF vars, PlannedIsReadable
  <2>. QED BY <2>1, <2>2, <2>3, <2>4, <2>5, <2>6 DEF Next
<1>. QED BY <1>1, <1>2, IndexInvariant, PlanIsTraced, FileIsTold, ReaderRetraces,
            HeaderIsHeld, DecodingWrites, PTL DEF Spec
=============================================================================
