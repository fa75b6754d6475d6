--------------------------- MODULE SelectorProofs ---------------------------
(***************************************************************************)
(* What Selector promises, for every map, number of bits, shortest match,  *)
(* window and hash.                                                        *)
(***************************************************************************)
EXTENDS Selector, FiniteSetTheorems, SequenceTheorems, WellFoundedInduction, TLAPS

-----------------------------------------------------------------------------
(* Induction over numbers, with a set for the predicate.                   *)

Less == {p \in Nat \X Nat : p[1] < p[2]}

\* A set of numbers that is not empty has a least one.
LEMMA LeastNumber ==
    ASSUME NEW T, T \subseteq Nat, T # {}
    PROVE  \E a \in T : \A b \in T : a <= b
<1>1. IsWellFoundedOn(Less, Nat)
  <2>1. IsWellFoundedOn(OpToRel(<, Nat), Nat)
    BY NatLessThanWellFounded
  <2>2. OpToRel(<, Nat) = Less
    BY DEF OpToRel, Less
  <2>. QED BY <2>1, <2>2
<1>2. PICK a \in T : \A b \in T : ~ (<<b, a>> \in Less)
  BY <1>1, WFMin, Zenon
<1>3. ASSUME NEW b \in T
      PROVE  a <= b
  <2>1. a \in Nat /\ b \in Nat /\ ~ (<<b, a>> \in Less)
    BY <1>2
  <2>2. b < a => <<b, a>> \in Less
    BY <2>1 DEF Less
  <2>. QED BY <2>1, <2>2
<1>. QED BY <1>3

\* A set with zero and all successors of its numbers has all numbers.
LEMMA NumberInduction ==
    ASSUME NEW T, T \subseteq Nat, 0 \in T, \A n \in T : n + 1 \in T
    PROVE  T = Nat
<1>. SUFFICES ASSUME T # Nat PROVE FALSE
  OBVIOUS
<1>1. PICK a \in Nat \ T : \A b \in Nat \ T : a <= b
  <2>. DEFINE U == Nat \ T
  <2>1. U \subseteq Nat /\ U # {}
    OBVIOUS
  <2>. HIDE DEF U
  <2>2. \E a \in U : \A b \in U : a <= b
    BY <2>1, LeastNumber
  <2>. QED BY <2>2 DEF U
<1>2. a # 0 /\ a - 1 \in Nat /\ ~ (a <= a - 1)
  BY <1>1
<1>3. a - 1 \in T
  BY <1>1, <1>2
<1>4. (a - 1) + 1 = a
  BY <1>1
<1>. QED BY <1>1, <1>3, <1>4

\* The same up to a bound.
LEMMA BoundedInduction ==
    ASSUME NEW n \in Nat, NEW T, 0 \in T, \A m \in 0 .. n - 1 : m \in T => m + 1 \in T
    PROVE  \A m \in 0 .. n : m \in T
<1>. DEFINE U == {m \in Nat : m <= n => m \in T}
<1>1. 0 \in U
  OBVIOUS
<1>2. ASSUME NEW m \in U
      PROVE  m + 1 \in U
  <2>1. m \in Nat /\ (m <= n => m \in T)
    OBVIOUS
  <2>2. m + 1 <= n => m \in 0 .. n - 1 /\ m <= n
    BY <2>1
  <2>. QED BY <2>1, <2>2
<1>3. U = Nat
  <2>1. U \subseteq Nat
    OBVIOUS
  <2>. HIDE DEF U
  <2>. QED BY <1>1, <1>2, <2>1, NumberInduction
<1>. QED BY <1>3

\* e lists a, g[1] of that, g[2] of that, and so on up to n.
Lists(e, n, a, g) == e = [k \in 0 .. n |-> IF k = 0 THEN a ELSE g[k][e[k - 1]]]

\* Values that each follow from the one before can be listed.
LEMMA RecursionExists ==
    ASSUME NEW n \in Nat, NEW a, NEW g
    PROVE  \E e : Lists(e, n, a, g)
<1>. DEFINE Part(e, m) == e = [k \in 0 .. m |-> IF k = 0 THEN a ELSE g[k][e[k - 1]]]
            T == {m \in Nat : \E e : Part(e, m)}
<1>1. 0 \in T
  <2>. DEFINE e == [k \in 0 .. 0 |-> a]
  <2>1. \A k \in 0 .. 0 : k = 0
    OBVIOUS
  <2>2. Part(e, 0)
    BY <2>1
  <2>. QED BY <2>2
<1>2. ASSUME NEW m \in T
      PROVE  m + 1 \in T
  <2>1. m \in Nat
    OBVIOUS
  <2>2. PICK e : Part(e, m)
    OBVIOUS
  <2>. DEFINE z == m + 1
              K == 0 .. m
              H == 0 .. z
              f == [k \in H |-> IF k = z THEN g[z][e[m]] ELSE e[k]]
              Step(d, k) == IF k = 0 THEN a ELSE g[k][d[k - 1]]
  <2>. HIDE DEF T
  <2>3. /\ z \in H /\ m \in K /\ z - 1 = m /\ z # 0
        /\ \A k \in H : k = z \/ k \in K
        /\ \A k \in K : k \in H /\ k # z
        /\ \A k \in K : k # 0 => k - 1 \in K
    BY <2>1
  <2>4. \A k \in K : e[k] = Step(e, k)
    <3>1. e = [k \in K |-> Step(e, k)]
      BY <2>2
    <3>. DEFINE b(k) == Step(e, k)
    <3>2. e = [k \in K |-> b(k)]
      BY <3>1
    <3>. HIDE DEF b, K
    <3>3. \A k \in K : e[k] = b(k)
      BY <3>2
    <3>. QED BY <3>3 DEF b
  <2>. HIDE DEF K, H
  <2>5. \A k \in H : f[k] = IF k = z THEN g[z][e[m]] ELSE e[k]
    OBVIOUS
  <2>6. f = [k \in H |-> f[k]]
    OBVIOUS
  <2>. HIDE DEF f, z
  <2>7. ASSUME NEW k \in H
        PROVE  f[k] = Step(f, k)
    <3>1. CASE k = z
      <4>1. f[m] = e[m] /\ f[z] = g[z][e[m]]
        BY <2>3, <2>5
      <4>. QED BY <2>3, <3>1, <4>1
    <3>2. CASE k # z
      <4>1. k \in K /\ f[k] = e[k] /\ e[k] = Step(e, k)
        BY <2>3, <2>4, <2>5, <3>2
      <4>2. k # 0 => f[k - 1] = e[k - 1]
        BY <2>3, <2>5, <4>1
      <4>. QED BY <4>1, <4>2
    <3>. QED BY <3>1, <3>2
  <2>8. f = [k \in H |-> Step(f, k)]
    <3>. HIDE DEF Step
    <3>. QED BY <2>6, <2>7
  <2>9. Part(f, m + 1)
    BY <2>8 DEF H, z
  <2>. HIDE DEF Part
  <2>. QED BY <2>1, <2>9 DEF T
<1>3. T = Nat
  <2>1. T \subseteq Nat
    OBVIOUS
  <2>. HIDE DEF T
  <2>. QED BY <1>1, <1>2, <2>1, NumberInduction
<1>4. \E e : Part(e, n)
  BY <1>3
<1>. QED BY <1>4 DEF Lists

\* Numbers that each follow from the one before: the list is unique and of numbers.
LEMMA NumbersExist ==
    ASSUME NEW n \in Nat, NEW a \in Nat, NEW g \in [1 .. n -> [Nat -> Nat]]
    PROVE  \E e \in [0 .. n -> Nat] : Lists(e, n, a, g)
<1>1. PICK e : Lists(e, n, a, g)
  BY RecursionExists
<1>. DEFINE T == {m \in Nat : m \in 0 .. n /\ e[m] \in Nat}
<1>2. 0 \in T
  BY <1>1 DEF Lists
<1>3. ASSUME NEW m \in 0 .. n - 1, m \in T
      PROVE  m + 1 \in T
  <2>1. m + 1 \in 0 .. n /\ m + 1 \in 1 .. n /\ m + 1 # 0 /\ (m + 1) - 1 = m
    OBVIOUS
  <2>2. e[m + 1] = g[m + 1][e[m]]
    BY <1>1, <2>1 DEF Lists
  <2>3. g[m + 1] \in [Nat -> Nat] /\ e[m] \in Nat
    BY <1>3, <2>1
  <2>4. g[m + 1][e[m]] \in Nat
    BY <2>3
  <2>5. e[m + 1] \in Nat
    BY <2>2, <2>4
  <2>. QED BY <2>1, <2>5
<1>4. \A m \in 0 .. n : m \in T
  <2>. HIDE DEF T
  <2>. QED BY <1>2, <1>3, BoundedInduction
<1>5. \A m \in 0 .. n : e[m] \in Nat
  BY <1>4
<1>6. e \in [0 .. n -> Nat]
  <2>1. e = [k \in 0 .. n |-> e[k]]
    BY <1>1 DEF Lists
  <2>. QED BY <1>5, <2>1
<1>. QED BY <1>1, <1>6

-----------------------------------------------------------------------------
(* Division.                                                               *)

\* What quotient and remainder are.
LEMMA DivisionFacts ==
    ASSUME NEW v \in Nat, NEW d \in Nat \ {0}
    PROVE  /\ v \div d \in Nat /\ v % d \in Nat /\ v % d < d
           /\ v = d * (v \div d) + (v % d)
<1>1. \A u \in Int, k \in Nat \ {0} :
          u = k * (u \div k) + (u % k) /\ u % k \in 0 .. k - 1 /\ u \div k \in Int
  OBVIOUS
<1>2. v = d * (v \div d) + (v % d) /\ v % d \in 0 .. d - 1 /\ v \div d \in Int
  BY <1>1
<1>. DEFINE q == v \div d
            r == v % d
<1>3. q \in Int /\ r \in 0 .. d - 1 /\ v = d * q + r
  BY <1>2
<1>. HIDE DEF q, r
<1>4. q >= 0
  <2>. SUFFICES ASSUME q < 0 PROVE FALSE
    BY <1>3
  <2>1. PICK c \in Nat : q = - 1 - c
    <3>1. - 1 - q \in Nat /\ q = - 1 - (- 1 - q)
      BY <1>3
    <3>. QED BY <3>1
  <2>2. d * q = - d - d * c /\ d * c \in Nat
    BY <2>1
  <2>. QED BY <1>3, <2>2
<1>. QED BY <1>3, <1>4 DEF q, r

\* The quotient is the one number between whose multiples the dividend lies.
LEMMA DivisionUnique ==
    ASSUME NEW v \in Nat, NEW d \in Nat \ {0}, NEW q \in Nat, d * q <= v, v < d * q + d
    PROVE  v \div d = q /\ v % d = v - d * q
<1>. DEFINE p == v \div d
            r == v % d
<1>1. p \in Nat /\ r \in Nat /\ r < d /\ v = d * p + r
  BY DivisionFacts
<1>. HIDE DEF p, r
<1>2. CASE p < q
  <2>1. p + 1 <= q
    BY <1>1, <1>2
  <2>2. PICK c \in Nat : q = p + 1 + c
    <3>1. q - (p + 1) \in Nat /\ q = p + 1 + (q - (p + 1))
      BY <1>1, <2>1
    <3>. QED BY <3>1
  <2>3. d * q = d * p + d + d * c /\ d * c \in Nat
    BY <1>1, <2>2
  <2>. QED BY <1>1, <2>3
<1>3. CASE p > q
  <2>1. PICK c \in Nat : p = q + 1 + c
    <3>1. p - (q + 1) \in Nat /\ p = q + 1 + (p - (q + 1))
      BY <1>1, <1>3
    <3>. QED BY <3>1
  <2>2. d * p = d * q + d + d * c /\ d * c \in Nat
    BY <1>1, <2>1
  <2>. QED BY <1>1, <2>2
<1>4. p = q => r = v - d * q
  BY <1>1
<1>. QED BY <1>1, <1>2, <1>3, <1>4 DEF p, r

\* A product grows with either factor.
LEMMA ProductMonotone ==
    ASSUME NEW a \in Nat, NEW b \in Nat, NEW c \in Nat, NEW d \in Nat, a <= c, b <= d
    PROVE  a * b \in Nat /\ c * d \in Nat /\ a * b <= c * d
<1>1. PICK u \in Nat : c = a + u
  <2>1. c - a \in Nat /\ c = a + (c - a)
    OBVIOUS
  <2>. QED BY <2>1
<1>2. PICK v \in Nat : d = b + v
  <2>1. d - b \in Nat /\ d = b + (d - b)
    OBVIOUS
  <2>. QED BY <2>1
<1>3. c * d = a * b + a * v + u * b + u * v
  BY <1>1, <1>2
<1>4. a * b \in Nat /\ a * v \in Nat /\ u * b \in Nat /\ u * v \in Nat
  OBVIOUS
<1>. QED BY <1>3, <1>4

-----------------------------------------------------------------------------
(* Powers of two.                                                          *)

\* Each is twice the one before, and more than its exponent.
LEMMA TwoFacts ==
    /\ Two \in [Nat -> Nat \ {0}]
    /\ Two[0] = 1
    /\ \A k \in Nat : Two[k + 1] = 2 * Two[k] /\ k < Two[k]
<1>. DEFINE T == [v \in Nat |-> 2 * v]
            Body(f, k) == IF k = 0 THEN 1 ELSE 2 * f[k - 1]
            Part(e, n) == e \in [0 .. n -> Nat] /\ \A k \in 0 .. n : e[k] = Body(e, k)
            E(n) == CHOOSE e : Part(e, n)
            f == [n \in Nat |-> E(n)[n]]
<1>1. ASSUME NEW n \in Nat
      PROVE  Part(E(n), n)
  <2>. DEFINE g == [k \in 1 .. n |-> T]
  <2>1. g \in [1 .. n -> [Nat -> Nat]]
    OBVIOUS
  <2>. HIDE DEF g
  <2>2. PICK e \in [0 .. n -> Nat] : Lists(e, n, 1, g)
    BY <2>1, NumbersExist
  <2>3. \A k \in 0 .. n : e[k] = Body(e, k)
    <3>1. \A k \in 0 .. n : e[k] = IF k = 0 THEN 1 ELSE g[k][e[k - 1]]
      BY <2>2 DEF Lists
    <3>2. ASSUME NEW k \in 0 .. n, k # 0
          PROVE  g[k][e[k - 1]] = 2 * e[k - 1]
      <4>1. k \in 1 .. n /\ k - 1 \in 0 .. n
        BY <3>2
      <4>2. e[k - 1] \in Nat /\ g[k] = T
        BY <4>1 DEF g
      <4>. QED BY <4>2
    <3>. QED BY <3>1, <3>2
  <2>4. Part(e, n)
    BY <2>3
  <2>. HIDE DEF Part
  <2>. QED BY <2>4
<1>. HIDE DEF E
<1>2. ASSUME NEW n \in Nat
      PROVE  \A k \in 0 .. n : E(n + 1)[k] = E(n)[k]
  <2>. DEFINE d == E(n + 1)
              e == E(n)
              U == {k \in Nat : d[k] = e[k]}
  <2>1. Part(d, n + 1) /\ Part(e, n)
    <3>. HIDE DEF Part
    <3>1. n + 1 \in Nat
      OBVIOUS
    <3>. QED BY <1>1, <3>1
  <2>. HIDE DEF d, e
  <2>2. 0 \in U
    BY <2>1
  <2>3. \A m \in 0 .. n - 1 : m \in U => m + 1 \in U
    <3>1. ASSUME NEW m \in 0 .. n - 1, d[m] = e[m]
          PROVE  d[m + 1] = e[m + 1]
      <4>1. m + 1 \in 0 .. n /\ m + 1 \in 0 .. n + 1 /\ m + 1 # 0 /\ (m + 1) - 1 = m
        OBVIOUS
      <4>2. d[m + 1] = 2 * d[m] /\ e[m + 1] = 2 * e[m]
        BY <2>1, <4>1
      <4>. QED BY <3>1, <4>2
    <3>. QED BY <3>1
  <2>4. \A m \in 0 .. n : m \in U
    <3>. HIDE DEF U
    <3>. QED BY <2>2, <2>3, BoundedInduction
  <2>. QED BY <2>4 DEF d, e
<1>3. ASSUME NEW n \in Nat
      PROVE  f[n] = Body(f, n)
  <2>1. CASE n = 0
    <3>1. E(0)[0] = 1
      <4>1. 0 \in Nat /\ 0 \in 0 .. 0
        OBVIOUS
      <4>2. Part(E(0), 0)
        <5>. HIDE DEF Part
        <5>. QED BY <1>1, <4>1
      <4>. QED BY <4>1, <4>2
    <3>. QED BY <2>1, <3>1
  <2>2. CASE n # 0
    <3>1. n - 1 \in Nat /\ (n - 1) + 1 = n /\ n \in 0 .. n /\ n - 1 \in 0 .. n - 1
      BY <2>2
    <3>2. E(n)[n] = 2 * E(n)[n - 1]
      BY <1>1, <2>2, <3>1
    <3>3. E(n)[n - 1] = E(n - 1)[n - 1]
      BY <1>2, <3>1
    <3>. QED BY <2>2, <3>1, <3>2, <3>3
  <2>. QED BY <2>1, <2>2
<1>4. f = [n \in Nat |-> Body(f, n)]
  <2>1. f = [n \in Nat |-> f[n]]
    OBVIOUS
  <2>. HIDE DEF f, Body
  <2>. QED BY <1>3, <2>1
<1>5. Two = [n \in Nat |-> Body(Two, n)]
  <2>. HIDE DEF f
  <2>. QED BY <1>4 DEF Two
<1>6. Two[0] = 1 /\ \A k \in Nat : Two[k + 1] = 2 * Two[k]
  <2>1. \A n \in Nat : Two[n] = Body(Two, n)
    BY <1>5
  <2>2. \A k \in Nat : k + 1 \in Nat /\ k + 1 # 0 /\ (k + 1) - 1 = k
    OBVIOUS
  <2>. QED BY <2>1, <2>2
<1>. DEFINE P == {k \in Nat : Two[k] \in Nat /\ k < Two[k]}
<1>7. P = Nat
  <2>1. 0 \in P
    BY <1>6
  <2>2. \A k \in P : k + 1 \in P
    BY <1>6
  <2>3. P \subseteq Nat
    OBVIOUS
  <2>. HIDE DEF P
  <2>. QED BY <2>1, <2>2, <2>3, NumberInduction
<1>8. \A k \in Nat : Two[k] \in Nat \ {0} /\ k < Two[k]
  BY <1>7
<1>9. Two \in [Nat -> Nat \ {0}]
  <2>1. Two = [n \in Nat |-> Two[n]]
    BY <1>5
  <2>. QED BY <1>8, <2>1
<1>. QED BY <1>6, <1>8, <1>9

-----------------------------------------------------------------------------
(* Numbers and their binary digits.                                        *)

Digit == 0 .. 1

\* What the digits up to each one stand for.
Sums(bs) ==
    CHOOSE n : n = [j \in 0 .. Len(bs) |-> IF j = 0 THEN 0 ELSE n[j - 1] + bs[j] * Two[j - 1]]

\* The sum of digits unfolds, and stays below the power of two after the last.
LEMMA SumsFacts ==
    ASSUME NEW bs \in Seq(Digit)
    PROVE  /\ Len(bs) \in Nat
           /\ Number(bs) = Sums(bs)[Len(bs)]
           /\ Sums(bs)[0] = 0
           /\ \A j \in 0 .. Len(bs) : Sums(bs)[j] \in Nat /\ Sums(bs)[j] < Two[j]
           /\ \A j \in 0 .. Len(bs) - 1 : Sums(bs)[j + 1] = Sums(bs)[j] + bs[j + 1] * Two[j]
<1>. DEFINE l == Len(bs)
            g == [k \in 1 .. l |-> [v \in Nat |-> v + bs[k] * Two[k - 1]]]
            Body(f, j) == IF j = 0 THEN 0 ELSE f[j - 1] + bs[j] * Two[j - 1]
            S == Sums(bs)
<1>1. l \in Nat /\ \A k \in 1 .. l : bs[k] \in {0, 1}
  BY DEF Digit
<1>. HIDE DEF l
<1>2. \A k \in 1 .. l : k - 1 \in Nat /\ Two[k - 1] \in Nat /\ bs[k] * Two[k - 1] \in Nat
  <2>. SUFFICES ASSUME NEW k \in 1 .. l
                PROVE  k - 1 \in Nat /\ Two[k - 1] \in Nat /\ bs[k] * Two[k - 1] \in Nat
    OBVIOUS
  <2>1. k - 1 \in Nat
    BY <1>1
  <2>3. Two[k - 1] \in Nat
    BY <2>1, TwoFacts
  <2>2. bs[k] = 0 \/ bs[k] = 1
    BY <1>1
  <2>. QED BY <2>1, <2>2, <2>3
<1>3. g \in [1 .. l -> [Nat -> Nat]]
  BY <1>2
<1>4. PICK e \in [0 .. l -> Nat] : Lists(e, l, 0, g)
  <2>. HIDE DEF g
  <2>. QED BY <1>1, <1>3, NumbersExist
<1>5. \A j \in 0 .. l : e[j] = Body(e, j)
  <2>1. \A k \in 0 .. l : e[k] = IF k = 0 THEN 0 ELSE g[k][e[k - 1]]
    BY <1>4 DEF Lists
  <2>2. ASSUME NEW k \in 0 .. l, k # 0
        PROVE  g[k][e[k - 1]] = e[k - 1] + bs[k] * Two[k - 1]
    <3>1. k \in 1 .. l /\ k - 1 \in 0 .. l
      BY <1>1, <2>2
    <3>2. e[k - 1] \in Nat
      BY <3>1
    <3>. QED BY <3>1, <3>2
  <2>. QED BY <2>1, <2>2
<1>6. S = [j \in 0 .. l |-> Body(S, j)]
  <2>1. e = [j \in 0 .. l |-> Body(e, j)]
    <3>1. e = [j \in 0 .. l |-> e[j]]
      OBVIOUS
    <3>. HIDE DEF Body
    <3>. QED BY <1>5, <3>1
  <2>. QED BY <2>1 DEF Sums, l
<1>7. Number(bs) = S[l]
  BY DEF Number, Sums, l
<1>. HIDE DEF S, g
<1>8. S[0] = 0 /\ \A j \in 0 .. l - 1 : S[j + 1] = S[j] + bs[j + 1] * Two[j]
  <2>1. \A j \in 0 .. l : S[j] = Body(S, j)
    BY <1>6
  <2>2. \A j \in 0 .. l - 1 : j + 1 \in 0 .. l /\ j + 1 # 0 /\ (j + 1) - 1 = j
    BY <1>1
  <2>. QED BY <1>1, <2>1, <2>2
<1>. DEFINE T == {j \in Nat : S[j] \in Nat /\ S[j] < Two[j]}
<1>9. \A j \in 0 .. l : j \in T
  <2>1. 0 \in T
    BY <1>8, TwoFacts
  <2>2. \A m \in 0 .. l - 1 : m \in T => m + 1 \in T
    <3>1. ASSUME NEW m \in 0 .. l - 1, S[m] \in Nat, S[m] < Two[m]
          PROVE  S[m + 1] \in Nat /\ S[m + 1] < Two[m + 1]
      <4>1. m + 1 \in 1 .. l /\ m \in Nat
        BY <1>1
      <4>2. Two[m] \in Nat /\ Two[m + 1] = 2 * Two[m]
        BY <4>1, TwoFacts
      <4>3. bs[m + 1] * Two[m] = 0 \/ bs[m + 1] * Two[m] = Two[m]
        <5>1. bs[m + 1] = 0 \/ bs[m + 1] = 1
          BY <1>1, <4>1
        <5>. QED BY <4>2, <5>1
      <4>. QED BY <1>8, <3>1, <4>2, <4>3
    <3>. QED BY <3>1
  <2>. HIDE DEF T
  <2>. QED BY <1>1, <2>1, <2>2, BoundedInduction
<1>. QED BY <1>1, <1>7, <1>8, <1>9 DEF S, l

\* Digits are digits, and a number's digits stand for it.
LEMMA BitIsDigit == ASSUME NEW v \in Nat, NEW j \in Nat PROVE Bit(v, j) \in Digit
<1>1. Two[j] \in Nat \ {0}
  BY TwoFacts
<1>2. v \div Two[j] \in Nat
  BY <1>1, DivisionFacts
<1>. QED BY <1>2 DEF Bit, Digit

\* Binary gives as many digits as it is asked for.
LEMMA BinaryIsDigits ==
    ASSUME NEW v \in Nat, NEW w \in Nat
    PROVE  Binary(v, w) \in Seq(Digit) /\ Len(Binary(v, w)) = w
<1>1. Binary(v, w) \in [1 .. w -> Digit]
  <2>1. \A j \in 1 .. w : j - 1 \in Nat
    OBVIOUS
  <2>. QED BY <2>1, BitIsDigit DEF Binary
<1>2. DOMAIN Binary(v, w) = 1 .. w
  BY DEF Binary
<1>. QED BY <1>1, <1>2

\* The digits of a number give it back, if there are enough of them.
LEMMA NumberOfBinary ==
    ASSUME NEW v \in Nat, NEW w \in Nat, v < Two[w]
    PROVE  Number(Binary(v, w)) = v
<1>. DEFINE bs == Binary(v, w)
            T == {j \in Nat : Sums(bs)[j] = v % Two[j]}
<1>1. bs \in Seq(Digit) /\ Len(bs) = w
  BY BinaryIsDigits
<1>2. \A j \in 0 .. w - 1 : bs[j + 1] = Bit(v, j)
  BY DEF Binary
<1>. HIDE DEF bs
<1>3. 0 \in T
  <2>1. v % 1 = 0
    BY DivisionFacts
  <2>. QED BY <1>1, <2>1, SumsFacts, TwoFacts
<1>4. \A m \in 0 .. w - 1 : m \in T => m + 1 \in T
  <2>1. ASSUME NEW m \in 0 .. w - 1, Sums(bs)[m] = v % Two[m]
        PROVE  Sums(bs)[m + 1] = v % Two[m + 1]
    <3>. DEFINE t == Two[m]
                q == v \div t
                r == v % t
                p == q \div 2
                c == q % 2
    <3>1. t \in Nat \ {0} /\ Two[m + 1] = 2 * t
      BY TwoFacts
    <3>2. Sums(bs)[m + 1] = r + c * t
      BY <1>1, <1>2, <2>1, SumsFacts DEF Bit
    <3>. HIDE DEF t
    <3>3. q \in Nat /\ r \in Nat /\ r < t /\ v = t * q + r
      BY <3>1, DivisionFacts
    <3>. HIDE DEF q, r
    <3>4. p \in Nat /\ c \in Nat /\ c < 2 /\ q = 2 * p + c
      BY <3>3, DivisionFacts
    <3>. HIDE DEF p, c
    <3>. DEFINE d == 2 * t
    <3>5. v = d * p + (c * t + r) /\ c * t + r \in Nat /\ c * t + r < d
      <4>1. c = 0 \/ c = 1
        BY <3>4
      <4>2. v = d * p + (c * t + r)
        BY <3>1, <3>3, <3>4
      <4>. QED BY <3>1, <3>3, <4>1, <4>2
    <3>6. d \in Nat \ {0} /\ d * p \in Nat
      BY <3>1, <3>4
    <3>. HIDE DEF d
    <3>7. d * p <= v /\ v < d * p + d
      <4>1. PICK a \in Nat : a = d * p
        BY <3>6
      <4>2. PICK b \in Nat : b = c * t + r
        BY <3>5
      <4>. QED BY <3>5, <3>6, <4>1, <4>2
    <3>8. v % d = v - d * p
      BY <3>4, <3>6, <3>7, DivisionUnique
    <3>9. v % d = c * t + r
      <4>1. PICK a \in Nat : a = d * p
        BY <3>6
      <4>2. PICK b \in Nat : b = c * t + r
        BY <3>5
      <4>. QED BY <3>5, <3>8, <4>1, <4>2
    <3>10. c * t \in Nat
      <4>1. c = 0 \/ c = 1
        BY <3>4
      <4>. QED BY <3>1, <4>1
    <3>11. r + c * t = c * t + r
      BY <3>3, <3>10
    <3>. QED BY <3>1, <3>2, <3>9, <3>11 DEF d
  <2>. QED BY <2>1
<1>5. w \in T
  <2>. HIDE DEF T
  <2>1. \A m \in 0 .. w : m \in T
    BY <1>3, <1>4, BoundedInduction
  <2>. QED BY <2>1
<1>6. v % Two[w] = v
  <2>1. Two[w] \in Nat \ {0}
    BY TwoFacts
  <2>2. v % Two[w] = v - Two[w] * 0
    <3>1. PICK t \in Nat \ {0} : t = Two[w]
      BY <2>1
    <3>2. t * 0 <= v /\ v < t * 0 + t
      BY <3>1
    <3>3. v % t = v - t * 0
      BY <3>2, DivisionUnique
    <3>. QED BY <3>1, <3>3
  <2>. QED BY <2>1, <2>2
<1>. QED BY <1>1, <1>5, <1>6, SumsFacts DEF bs

\* Digits come back from the number they stand for.
LEMMA BitOfNumber ==
    ASSUME NEW bs \in Seq(Digit), NEW j \in 0 .. Len(bs) - 1
    PROVE  Bit(Number(bs), j) = bs[j + 1]
<1>. DEFINE l == Len(bs)
            S == Sums(bs)
            t == Two[j]
            c == bs[j + 1]
            T == {m \in Nat : /\ \E r \in Nat : S[j + 1 + m] = S[j] + c * t + (2 * t) * r
                              /\ \E s \in Nat : Two[j + 1 + m] = (2 * t) * s}
<1>1. /\ l \in Nat /\ j \in Nat /\ S[j] \in Nat /\ S[j] < t
      /\ \A k \in 0 .. l - 1 : S[k + 1] = S[k] + bs[k + 1] * Two[k]
      /\ t \in Nat \ {0} /\ Two[j + 1] = 2 * t
      /\ c \in {0, 1} /\ Number(bs) = S[l] /\ \A k \in 1 .. l : bs[k] \in {0, 1}
  <2>1. l \in Nat /\ \A k \in 1 .. l : bs[k] \in {0, 1}
    BY DEF Digit
  <2>2. j \in Nat /\ j \in 0 .. l /\ j + 1 \in 1 .. l
    BY <2>1
  <2>3. t \in Nat \ {0} /\ Two[j + 1] = 2 * t
    BY <2>2, TwoFacts
  <2>4. c \in {0, 1}
    BY <2>1, <2>2
  <2>. HIDE DEF S, t, c
  <2>5. S[j] \in Nat /\ S[j] < t /\ Number(bs) = S[l]
    BY <2>2, SumsFacts DEF S, t
  <2>6. \A k \in 0 .. l - 1 : S[k + 1] = S[k] + bs[k + 1] * Two[k]
    BY SumsFacts DEF S
  <2>. QED BY <2>1, <2>2, <2>3, <2>4, <2>5, <2>6
<1>. HIDE DEF l, S, t, c
<1>2. 0 \in T
  <2>1. S[j + 1 + 0] = S[j] + c * t + (2 * t) * 0 /\ Two[j + 1 + 0] = (2 * t) * 1
    <3>1. j + 1 + 0 = j + 1 /\ j \in 0 .. l - 1
      BY <1>1 DEF l
    <3>2. S[j + 1] = S[j] + c * t
      BY <1>1, <3>1 DEF c, t
    <3>3. c * t \in Nat
      BY <1>1
    <3>. QED BY <1>1, <3>1, <3>2, <3>3
  <2>. QED BY <2>1
<1>3. \A m \in 0 .. (l - 1 - j) - 1 : m \in T => m + 1 \in T
  <2>1. ASSUME NEW m \in 0 .. (l - 1 - j) - 1, m \in T
        PROVE  m + 1 \in T
    <3>1. PICK r \in Nat, s \in Nat : /\ S[j + 1 + m] = S[j] + c * t + (2 * t) * r
                                      /\ Two[j + 1 + m] = (2 * t) * s
      BY <2>1
    <3>. DEFINE k == j + 1 + m
    <3>2. k \in 0 .. l - 1 /\ k + 1 \in 1 .. l /\ j + 1 + (m + 1) = k + 1 /\ k \in Nat
      BY <1>1
    <3>. HIDE DEF k
    <3>3. S[k + 1] = S[k] + bs[k + 1] * Two[k] /\ Two[k + 1] = 2 * Two[k]
      BY <1>1, <3>2, TwoFacts
    <3>4. PICK a \in {0, 1} : a = bs[k + 1]
      BY <1>1, <3>2
    <3>5. S[k + 1] = S[j] + c * t + (2 * t) * (r + a * s)
      <4>1. S[k] = S[j] + c * t + (2 * t) * r /\ Two[k] = (2 * t) * s
        BY <3>1 DEF k
      <4>2. PICK u \in Nat : u = 2 * t
        BY <1>1
      <4>3. PICK x \in Nat : x = S[j] + c * t
        BY <1>1
      <4>4. S[k + 1] = (x + u * r) + a * (u * s)
        BY <3>3, <3>4, <4>1, <4>2, <4>3
      <4>5. (x + u * r) + a * (u * s) = x + u * (r + a * s)
        <5>1. a = 0 \/ a = 1
          BY <3>4
        <5>. QED BY <4>2, <4>3, <5>1, SMTT(30)
      <4>. QED BY <4>2, <4>3, <4>4, <4>5
    <3>6. Two[k + 1] = (2 * t) * (2 * s)
      <4>1. Two[k] = (2 * t) * s
        BY <3>1 DEF k
      <4>. QED BY <1>1, <3>3, <4>1
    <3>7. r + a * s \in Nat /\ 2 * s \in Nat
      BY <3>4
    <3>. QED BY <3>2, <3>5, <3>6, <3>7
  <2>. QED BY <2>1
<1>4. l - 1 - j \in T
  <2>. HIDE DEF T
  <2>1. l - 1 - j \in Nat
    BY <1>1 DEF l
  <2>2. \A m \in 0 .. l - 1 - j : m \in T
    BY <1>2, <1>3, <2>1, BoundedInduction
  <2>. QED BY <2>1, <2>2
<1>5. PICK r \in Nat : S[l] = S[j] + c * t + (2 * t) * r
  <2>1. j + 1 + (l - 1 - j) = l
    BY <1>1
  <2>. QED BY <1>4, <2>1
<1>. DEFINE q == c + 2 * r
<1>6. S[l] = t * q + S[j]
  BY <1>1, <1>5
<1>7. q \in Nat /\ q % 2 = c
  <2>1. q \in Nat
    BY <1>1
  <2>2. 2 * r <= q /\ q < 2 * r + 2
    BY <1>1
  <2>3. q % 2 = q - 2 * r
    BY <2>1, <2>2, DivisionUnique
  <2>. QED BY <1>1, <2>1, <2>3
<1>. HIDE DEF q
<1>8. S[l] \div t = q
  <2>1. PICK a \in Nat : a = t * q
    BY <1>1, <1>7
  <2>2. S[l] \in Nat /\ t * q <= S[l] /\ S[l] < t * q + t
    BY <1>1, <1>6, <2>1
  <2>. QED BY <1>1, <1>7, <2>2, DivisionUnique
<1>. QED BY <1>1, <1>7, <1>8 DEF Bit, c, t, S, l

-----------------------------------------------------------------------------
(* Least and greatest numbers, logarithms.                                 *)

\* Min and Max are members, where they exist.
LEMMA MinFacts ==
    ASSUME NEW T, T \subseteq Nat, T # {}
    PROVE  Min(T) \in T /\ \A b \in T : Min(T) <= b
<1>1. \E a \in T : \A b \in T : a <= b
  BY LeastNumber
<1>. QED BY <1>1 DEF Min

LEMMA MaxFacts ==
    ASSUME NEW T, T \subseteq Nat, T # {}, NEW n \in Nat, \A b \in T : b <= n
    PROVE  Max(T) \in T /\ \A b \in T : b <= Max(T)
<1>. DEFINE U == {n - b : b \in T}
<1>1. U \subseteq Nat /\ U # {}
  <2>1. \A b \in T : n - b \in Nat
    <3>1. \A b \in T : b \in Nat /\ b <= n
      OBVIOUS
    <3>. QED BY <3>1
  <2>2. U # {}
    <3>1. PICK b : b \in T
      OBVIOUS
    <3>2. n - b \in U
      BY <3>1
    <3>. QED BY <3>2
  <2>. QED BY <2>1, <2>2
<1>2. PICK c \in U : \A d \in U : c <= d
  <2>. HIDE DEF U
  <2>. QED BY <1>1, LeastNumber
<1>3. PICK a \in T : c = n - a
  BY <1>2
<1>4. ASSUME NEW b \in T
      PROVE  a >= b
  <2>1. n - a \in Nat /\ n - b \in Nat /\ a \in Nat /\ b \in Nat
    <3>. HIDE DEF U
    <3>1. a \in Nat /\ b \in Nat /\ a <= n /\ b <= n
      OBVIOUS
    <3>. QED BY <3>1
  <2>3. n - b \in U
    BY <2>1
  <2>2. n - a <= n - b
    BY <1>2, <1>3, <2>3
  <2>. QED BY <2>1, <2>2
<1>5. Max(T) \in T /\ \A b \in T : Max(T) >= b
  BY <1>4 DEF Max
<1>6. \A b \in T : b \in Nat
  OBVIOUS
<1>. QED BY <1>5, <1>6

\* Log2 is the power of two below a number.
LEMMA Log2Facts ==
    ASSUME NEW x \in Nat \ {0}
    PROVE  Log2(x) \in Nat /\ Two[Log2(x)] <= x /\ x < Two[Log2(x) + 1]
<1>. DEFINE T == {k \in Nat : x < Two[k + 1]}
<1>1. x \in T
  <2>1. x < Two[x] /\ Two[x + 1] = 2 * Two[x] /\ Two[x] \in Nat
    BY TwoFacts
  <2>. QED BY <2>1
<1>2. PICK a \in T : \A b \in T : a <= b
  <2>1. T \subseteq Nat /\ T # {}
    BY <1>1
  <2>. HIDE DEF T
  <2>. QED BY <2>1, LeastNumber
<1>3. a \in Nat /\ x < Two[a + 1]
  OBVIOUS
<1>4. Two[a] <= x
  <2>1. CASE a = 0
    BY <2>1, TwoFacts
  <2>2. CASE a # 0
    <3>1. a - 1 \in Nat /\ (a - 1) + 1 = a /\ ~ (a <= a - 1)
      BY <1>3, <2>2
    <3>2. a - 1 \notin T
      BY <1>2, <3>1
    <3>3. ~ (x < Two[a])
      BY <3>1, <3>2
    <3>4. Two[a] \in Nat
      BY <1>3, TwoFacts
    <3>. QED BY <3>3, <3>4
  <2>. QED BY <2>1, <2>2
<1>5. a \in 0 .. x
  <2>1. a < Two[a] /\ Two[a] \in Nat
    BY <1>3, TwoFacts
  <2>. QED BY <1>3, <1>4, <2>1
<1>6. Log2(x) \in 0 .. x /\ Two[Log2(x)] <= x /\ x < Two[Log2(x) + 1]
  <2>. HIDE DEF T
  <2>. QED BY <1>3, <1>4, <1>5 DEF Log2
<1>. QED BY <1>6

\* A magnitude and the bits below give a number back.
LEMMA ValuedBack ==
    ASSUME NEW v \in Nat
    PROVE  /\ Magnitude(v) \in Nat
           /\ Below(v) \in Seq(Digit) /\ Len(Below(v)) = Magnitude(v)
           /\ Valued(Magnitude(v), Below(v)) = v
<1>. DEFINE k == Magnitude(v)
            t == Two[k]
<1>1. k \in Nat /\ t <= v + 1 /\ v + 1 < Two[k + 1]
  BY Log2Facts DEF Magnitude
<1>. HIDE DEF k
<1>2. t \in Nat \ {0} /\ Two[k + 1] = 2 * t
  BY <1>1, TwoFacts
<1>3. v + 1 - t \in Nat /\ v + 1 - t < t
  BY <1>1, <1>2
<1>. DEFINE d == v + 1 - t
<1>4. Below(v) = Binary(d, k)
  BY DEF Below, k
<1>5. d \in Nat /\ d < Two[k] /\ v = t - 1 + d
  BY <1>1, <1>2, <1>3
<1>. HIDE DEF d
<1>6. Number(Binary(d, k)) = d
  BY <1>1, <1>5, NumberOfBinary
<1>7. Valued(k, Below(v)) = v
  BY <1>4, <1>5, <1>6 DEF Valued
<1>. QED BY <1>1, <1>4, <1>5, <1>7, BinaryIsDigits DEF k

\* The bits of ids that fit a byte.
LEMMA WidthFacts ==
    ASSUME NEW m \in Nat \ {0}, m < Two[ByteBits]
    PROVE  Width(m) \in 1 .. ByteBits /\ m < Two[Width(m)]
<1>. DEFINE T == {w \in 0 .. m : Two[w] > m}
            w == Width(m)
<1>0. ByteBits \in Nat
  BY SizesAssumption
<1>1. m \in T
  <2>1. m < Two[m] /\ Two[m] \in Nat
    BY TwoFacts
  <2>. QED BY <2>1
<1>2. T \subseteq Nat /\ T # {}
  BY <1>1
<1>3. w \in T /\ \A b \in T : w <= b
  <2>. HIDE DEF T
  <2>1. Min(T) \in T /\ \A b \in T : Min(T) <= b
    BY <1>2, MinFacts
  <2>. QED BY <2>1 DEF Width, T
<1>4. w \in 0 .. m /\ Two[w] > m /\ Two[w] \in Nat
  <2>1. w \in 0 .. m /\ Two[w] > m
    BY <1>3
  <2>. HIDE DEF w
  <2>. QED BY <2>1, TwoFacts
<1>5. w <= ByteBits
  <2>1. CASE ByteBits \in 0 .. m
    <3>1. Two[ByteBits] \in Nat
      BY <1>0, TwoFacts
    <3>2. ByteBits \in T
      BY <2>1, <3>1
    <3>. QED BY <1>3, <3>2
  <2>2. CASE m < ByteBits
    BY <1>0, <1>4, <2>2
  <2>. QED BY <1>0, <2>1, <2>2
<1>6. w # 0
  BY <1>4, TwoFacts
<1>. QED BY <1>0, <1>4, <1>5, <1>6

\* Whole bytes, the last partly filled.
LEMMA BytesFacts ==
    ASSUME NEW n \in Nat
    PROVE  Bytes(n) \in Nat /\ n <= ByteBits * Bytes(n) /\ ByteBits * Bytes(n) < n + ByteBits
<1>. DEFINE b == ByteBits
            v == n + b - 1
            q == v \div b
            r == v % b
<1>1. b \in Nat \ {0}
  BY SizesAssumption
<1>2. v \in Nat
  BY <1>1
<1>. HIDE DEF v
<1>3. q \in Nat /\ r \in Nat /\ r < b /\ v = b * q + r
  BY <1>1, <1>2, DivisionFacts
<1>4. Bytes(n) = q
  BY DEF Bytes, v
<1>. HIDE DEF q, r
<1>5. PICK p \in Nat : p = b * q
  BY <1>1, <1>3
<1>6. v = n + b - 1
  BY DEF v
<1>. HIDE DEF b
<1>7. n <= p /\ p < n + b
  BY <1>1, <1>2, <1>3, <1>5, <1>6
<1>. QED BY <1>3, <1>4, <1>5, <1>7 DEF b

\* Whole bytes need no more bytes.
LEMMA BytesOfWhole ==
    ASSUME NEW n \in Nat
    PROVE  ByteBits * n \in Nat /\ Bytes(ByteBits * n) = n
<1>1. ByteBits \in Nat \ {0}
  BY SizesAssumption
<1>2. PICK p \in Nat : p = ByteBits * n
  BY <1>1
<1>3. ByteBits * n <= p + ByteBits - 1 /\ p + ByteBits - 1 < ByteBits * n + ByteBits
  BY <1>1, <1>2
<1>4. p + ByteBits - 1 \in Nat
  BY <1>1
<1>5. (p + ByteBits - 1) \div ByteBits = n
  BY <1>1, <1>3, <1>4, DivisionUnique
<1>. QED BY <1>2, <1>5 DEF Bytes

-----------------------------------------------------------------------------
(* Packing.                                                                *)

\* DigitsOf gives as many digits as it is asked for.
LEMMA DigitsOfFacts ==
    ASSUME NEW w \in Nat \ {0}, NEW ns \in Seq(Nat), NEW n \in Nat
    PROVE  DigitsOf(ns, w, n) \in Seq(Digit) /\ Len(DigitsOf(ns, w, n)) = n
<1>1. ASSUME NEW k \in 1 .. n, k <= w * Len(ns)
      PROVE  Bit(ns[(k - 1) \div w + 1], (k - 1) % w) \in Digit
  <2>. DEFINE v == k - 1
              q == v \div w
              r == v % w
  <2>1. v \in Nat
    OBVIOUS
  <2>2. q \in Nat /\ r \in Nat /\ r < w /\ v = w * q + r
    BY <2>1, DivisionFacts
  <2>3. v < w * Len(ns)
    BY <1>1
  <2>. HIDE DEF q, r, v
  <2>4. q < Len(ns)
    <3>1. PICK l \in Nat : l = Len(ns)
      OBVIOUS
    <3>2. CASE l <= q
      <4>1. w * l <= w * q
        BY <2>2, <3>2, ProductMonotone
      <4>2. w * l \in Nat /\ w * q \in Nat
        BY <2>2
      <4>. QED BY <2>1, <2>2, <2>3, <3>1, <4>1, <4>2
    <3>. QED BY <2>2, <3>1, <3>2
  <2>5. ns[q + 1] \in Nat
    BY <2>2, <2>4
  <2>6. Bit(ns[q + 1], r) \in Digit
    BY <2>2, <2>5, BitIsDigit
  <2>. QED BY <2>6 DEF q, r, v
<1>2. DigitsOf(ns, w, n) \in [1 .. n -> Digit]
  <2>1. 0 \in Digit
    BY DEF Digit
  <2>. QED BY <1>1, <2>1 DEF DigitsOf
<1>3. DOMAIN DigitsOf(ns, w, n) = 1 .. n
  BY DEF DigitsOf
<1>. QED BY <1>2, <1>3

\* Numbers of w bits each: the digits of each are the digits put into it.
LEMMA NumbersOfFacts ==
    ASSUME NEW w \in Nat \ {0}, NEW n \in Nat, NEW bs \in Seq(Digit), w * n <= Len(bs)
    PROVE  /\ NumbersOf(bs, w, n) \in Seq(0 .. Two[w] - 1)
           /\ Len(NumbersOf(bs, w, n)) = n
           /\ \A j \in 1 .. n, b \in 0 .. w - 1 :
                 Bit(NumbersOf(bs, w, n)[j], b) = bs[w * (j - 1) + b + 1]
<1>. DEFINE Part(j) == [k \in 1 .. w |-> bs[w * (j - 1) + k]]
            ns == NumbersOf(bs, w, n)
<1>1. ASSUME NEW j \in 1 .. n
      PROVE  Part(j) \in Seq(Digit) /\ Len(Part(j)) = w
  <2>1. ASSUME NEW k \in 1 .. w
        PROVE  bs[w * (j - 1) + k] \in Digit
    <3>1. j - 1 \in Nat /\ w * (j - 1) \in Nat /\ w * (j - 1) + w = w * j
      OBVIOUS
    <3>2. w * j <= w * n /\ w * n \in Nat /\ w * j \in Nat
      BY ProductMonotone
    <3>3. PICK a \in Nat : a = w * (j - 1)
      BY <3>1
    <3>4. a + w <= Len(bs)
      BY <3>1, <3>2, <3>3
    <3>5. a + k \in 1 .. Len(bs)
      BY <3>4
    <3>. QED BY <3>3, <3>5
  <2>2. Part(j) \in [1 .. w -> Digit] /\ DOMAIN Part(j) = 1 .. w
    BY <2>1
  <2>. HIDE DEF Part
  <2>. QED BY <2>2
<1>2. ns = [j \in 1 .. n |-> Number(Part(j))]
  BY DEF NumbersOf
<1>. HIDE DEF ns
<1>3. ASSUME NEW j \in 1 .. n
      PROVE  /\ ns[j] \in 0 .. Two[w] - 1
             /\ \A b \in 0 .. w - 1 : Bit(ns[j], b) = bs[w * (j - 1) + b + 1]
  <2>1. ns[j] = Number(Part(j))
    BY <1>2
  <2>2. \A b \in 0 .. w - 1 : Part(j)[b + 1] = bs[w * (j - 1) + b + 1]
    <3>1. ASSUME NEW b \in 0 .. w - 1
          PROVE  Part(j)[b + 1] = bs[w * (j - 1) + b + 1]
      <4>1. b + 1 \in 1 .. w /\ w * (j - 1) + b + 1 = w * (j - 1) + (b + 1)
        OBVIOUS
      <4>. QED BY <4>1
    <3>. QED BY <3>1
  <2>3. PICK d : d = Part(j)
    OBVIOUS
  <2>4. d \in Seq(Digit) /\ Len(d) = w
    BY <1>1, <2>3
  <2>5. Number(d) \in Nat /\ Number(d) < Two[w]
    <3>1. w \in 0 .. Len(d)
      BY <2>4
    <3>. QED BY <2>4, <3>1, SumsFacts
  <2>6. \A b \in 0 .. w - 1 : Bit(Number(d), b) = d[b + 1]
    BY <2>4, BitOfNumber
  <2>7. Two[w] \in Nat
    BY TwoFacts
  <2>. HIDE DEF Part
  <2>8. Number(d) \in 0 .. Two[w] - 1
    BY <2>5, <2>7
  <2>. QED BY <2>1, <2>2, <2>3, <2>6, <2>8
<1>4. ns \in [1 .. n -> 0 .. Two[w] - 1] /\ DOMAIN ns = 1 .. n
  <2>1. ns = [j \in 1 .. n |-> ns[j]]
    BY <1>2
  <2>. QED BY <1>3, <2>1
<1>5. ns \in Seq(0 .. Two[w] - 1) /\ Len(ns) = n
  <2>. DEFINE V == 0 .. Two[w] - 1
  <2>1. ns \in [1 .. n -> V] /\ DOMAIN ns = 1 .. n
    BY <1>4
  <2>. HIDE DEF V
  <2>2. ns \in Seq(V) /\ Len(ns) = n
    BY <2>1
  <2>. QED BY <2>2 DEF V
<1>. QED BY <1>3, <1>5 DEF ns

\* Packed ids are bytes.
LEMMA PackFacts ==
    ASSUME NEW w \in Nat \ {0}, NEW m \in Seq(0 .. Two[w] - 1)
    PROVE  /\ w * Len(m) \in Nat
           /\ Pack(m, w) \in Seq(Byte) /\ Len(Pack(m, w)) = Bytes(w * Len(m))
           /\ BitsOf(Pack(m, w)) = DigitsOf(m, w, ByteBits * Bytes(w * Len(m)))
<1>. DEFINE b == ByteBits
            n == Bytes(w * Len(m))
            ds == DigitsOf(m, w, b * n)
            p == Pack(m, w)
<1>1. b \in Nat \ {0} /\ w * Len(m) \in Nat
  BY SizesAssumption
<1>2. n \in Nat /\ b * n \in Nat
  <2>1. n \in Nat
    BY <1>1, BytesFacts
  <2>. HIDE DEF n
  <2>. QED BY <1>1, <2>1
<1>3. m \in Seq(Nat)
  <2>1. \A k \in 1 .. Len(m) : m[k] \in Nat
    <3>. DEFINE V == 0 .. Two[w] - 1
    <3>1. V \subseteq Nat
      OBVIOUS
    <3>2. \A k \in 1 .. Len(m) : m[k] \in V
      <4>. HIDE DEF V
      <4>1. m \in Seq(V)
        BY DEF V
      <4>. QED BY <4>1
    <3>. QED BY <3>1, <3>2
  <2>2. m \in [1 .. Len(m) -> Nat]
    BY <2>1
  <2>. QED BY <2>2
<1>. HIDE DEF n
<1>4. ds \in Seq(Digit) /\ Len(ds) = b * n
  BY <1>2, <1>3, DigitsOfFacts
<1>5. p = NumbersOf(ds, b, n)
  BY DEF Pack, n
<1>. HIDE DEF ds, p
<1>6. /\ p \in Seq(Byte) /\ Len(p) = n
      /\ \A j \in 1 .. n, h \in 0 .. b - 1 : Bit(p[j], h) = ds[b * (j - 1) + h + 1]
  BY <1>1, <1>2, <1>4, <1>5, NumbersOfFacts, SMTT(30) DEF Byte
<1>7. BitsOf(p) = [k \in 1 .. b * n |-> ds[k]]
  <2>1. ASSUME NEW k \in 1 .. b * n
        PROVE  k <= b * Len(p) /\ Bit(p[(k - 1) \div b + 1], (k - 1) % b) = ds[k]
    <3>. DEFINE v == k - 1
                q == v \div b
                r == v % b
    <3>1. v \in Nat /\ v < b * n
      BY <1>2
    <3>2. q \in Nat /\ r \in Nat /\ r < b /\ v = b * q + r
      BY <1>1, <3>1, DivisionFacts
    <3>. HIDE DEF q, r, v
    <3>3. q < n
      <4>1. CASE n <= q
        <5>1. b * n <= b * q /\ b * n \in Nat /\ b * q \in Nat
          BY <1>1, <1>2, <3>2, <4>1, ProductMonotone
        <5>. QED BY <3>1, <3>2, <5>1
      <4>. QED BY <1>2, <3>2, <4>1
    <3>4. q + 1 \in 1 .. n /\ (q + 1) - 1 = q /\ r \in 0 .. b - 1
      BY <1>1, <1>2, <3>2, <3>3
    <3>5. Bit(p[q + 1], r) = ds[b * q + r + 1]
      BY <1>6, <3>4
    <3>6. b * q + r + 1 = k
      BY <1>1, <3>2 DEF v
    <3>. QED BY <1>2, <1>6, <3>5, <3>6 DEF q, r, v
  <2>. HIDE DEF b
  <2>2. BitsOf(p) = [k \in 1 .. b * n |-> IF k <= b * Len(p)
                                         THEN Bit(p[(k - 1) \div b + 1], (k - 1) % b) ELSE 0]
    BY <1>6 DEF BitsOf, DigitsOf, b
  <2>. QED BY <2>1, <2>2
<1>8. BitsOf(p) = ds
  <2>1. ds = [k \in 1 .. b * n |-> ds[k]]
    BY <1>2, <1>4
  <2>. QED BY <1>7, <2>1
<1>. QED BY <1>1, <1>6, <1>8 DEF p, ds, n

\* Ids come back from what they are packed to.
LEMMA UnpackPack ==
    ASSUME NEW w \in Nat \ {0}, NEW m \in Seq(0 .. Two[w] - 1)
    PROVE  Unpack(Pack(m, w), w, Len(m)) = m
<1>. DEFINE V == 0 .. Two[w] - 1
            l == Len(m)
            n == ByteBits * Bytes(w * l)
            ds == DigitsOf(m, w, n)
<1>1. l \in Nat /\ w * l \in Nat /\ n \in Nat /\ w * l <= n /\ Two[w] \in Nat
  <2>1. w * l \in Nat
    OBVIOUS
  <2>2. Bytes(w * l) \in Nat /\ w * l <= ByteBits * Bytes(w * l)
    BY <2>1, BytesFacts
  <2>3. ByteBits \in Nat
    BY SizesAssumption
  <2>4. Two[w] \in Nat
    BY TwoFacts
  <2>5. l \in Nat
    OBVIOUS
  <2>. DEFINE p == Bytes(w * l)
  <2>6. p \in Nat
    BY <2>2
  <2>. HIDE DEF l, p
  <2>7. ByteBits * p \in Nat
    BY <2>3, <2>6
  <2>. QED BY <2>1, <2>2, <2>4, <2>5, <2>7 DEF p
<1>2. \A j \in 1 .. l : m[j] \in V
  <2>. HIDE DEF V
  <2>1. m \in Seq(V)
    BY DEF V
  <2>. QED BY <2>1
<1>. HIDE DEF l, n
<1>3. ASSUME NEW j \in 1 .. l
      PROVE  Number([k \in 1 .. w |-> ds[w * (j - 1) + k]]) = m[j]
  <2>1. ASSUME NEW k \in 1 .. w
        PROVE  ds[w * (j - 1) + k] = Bit(m[j], k - 1)
    <3>. DEFINE i0 == w * (j - 1)
    <3>1. i0 \in Nat /\ i0 + w = w * j
      BY <1>1
    <3>2. w * j <= w * l
      BY <1>1, ProductMonotone
    <3>. HIDE DEF i0
    <3>3. i0 + k \in 1 .. n /\ i0 + k <= w * l /\ (i0 + k) - 1 = i0 + (k - 1)
      BY <1>1, <3>1, <3>2
    <3>4. (i0 + (k - 1)) \div w = j - 1 /\ (i0 + (k - 1)) % w = k - 1
      <4>1. j - 1 \in Nat /\ i0 + (k - 1) \in Nat
        BY <1>1, <3>1
      <4>2. w * (j - 1) <= i0 + (k - 1) /\ i0 + (k - 1) < w * (j - 1) + w
        <5>1. w * (j - 1) = i0
          BY DEF i0
        <5>. QED BY <3>1, <5>1
      <4>3. (i0 + (k - 1)) - w * (j - 1) = k - 1
        <5>1. w * (j - 1) = i0
          BY DEF i0
        <5>. QED BY <3>1, <5>1
      <4>. QED BY <4>1, <4>2, <4>3, DivisionUnique
    <3>5. ds[i0 + k] = Bit(m[((i0 + k) - 1) \div w + 1], ((i0 + k) - 1) % w)
      BY <3>3 DEF DigitsOf, l
    <3>6. (j - 1) + 1 = j
      BY <1>1
    <3>. QED BY <3>3, <3>4, <3>5, <3>6 DEF i0
  <2>2. [k \in 1 .. w |-> ds[w * (j - 1) + k]] = Binary(m[j], w)
    <3>. HIDE DEF ds
    <3>. QED BY <2>1 DEF Binary
  <2>3. m[j] \in Nat /\ m[j] < Two[w]
    BY <1>1, <1>2
  <2>. QED BY <2>2, <2>3, NumberOfBinary
<1>4. Unpack(Pack(m, w), w, l) = [j \in 1 .. l |-> Number([k \in 1 .. w |-> ds[w * (j - 1) + k]])]
  <2>1. BitsOf(Pack(m, w)) = ds
    BY PackFacts DEF n, l
  <2>. HIDE DEF ds
  <2>. QED BY <2>1 DEF Unpack, NumbersOf
<1>5. m = [j \in 1 .. l |-> m[j]]
  BY DEF l
<1>. HIDE DEF ds
<1>. QED BY <1>3, <1>4, <1>5 DEF l

\* Past the ids the last byte is 0.
LEMMA PackedTail ==
    ASSUME NEW w \in Nat \ {0}, NEW m \in Seq(0 .. Two[w] - 1),
           NEW k \in w * Len(m) + 1 .. ByteBits * Bytes(w * Len(m))
    PROVE  BitsOf(Pack(m, w))[k] = 0
<1>1. BitsOf(Pack(m, w)) = DigitsOf(m, w, ByteBits * Bytes(w * Len(m)))
  BY PackFacts
<1>2. w * Len(m) \in Nat
  BY PackFacts
<1>. DEFINE n == ByteBits * Bytes(w * Len(m))
            l == w * Len(m)
<1>3. k \in 1 .. n /\ ~ (k <= l)
  <2>1. n \in Int
    <3>. DEFINE p == Bytes(w * Len(m))
    <3>1. p \in Nat /\ ByteBits \in Nat
      BY <1>2, BytesFacts, SizesAssumption
    <3>. HIDE DEF p
    <3>2. ByteBits * p \in Int
      BY <3>1
    <3>. QED BY <3>2 DEF p
  <2>. HIDE DEF n
  <2>2. k \in l + 1 .. n
    BY DEF n
  <2>. HIDE DEF l
  <2>3. l \in Nat
    BY <1>2 DEF l
  <2>. QED BY <2>1, <2>2, <2>3
<1>4. DigitsOf(m, w, n)[k] = IF k <= l THEN Bit(m[(k - 1) \div w + 1], (k - 1) % w) ELSE 0
  BY <1>3 DEF DigitsOf
<1>. HIDE DEF l
<1>. QED BY <1>1, <1>3, <1>4

\* The bits of an open byte go out with zeros above them.
LEMMA FlushFacts ==
    ASSUME NEW bs \in Seq(Digit)
    PROVE  /\ Flush(bs) \in Seq(Digit)
           /\ Len(bs) <= Len(Flush(bs))
           /\ \A k \in 1 .. Len(bs) : Flush(bs)[k] = bs[k]
           /\ \A k \in Len(bs) + 1 .. Len(Flush(bs)) : Flush(bs)[k] = 0
           /\ Bytes(Len(Flush(bs))) = Bytes(Len(bs))
<1>. DEFINE l == Len(bs)
            n == ByteBits * Bytes(l)
            z == [k \in 1 .. n - l |-> 0]
<1>1. l \in Nat /\ Bytes(l) \in Nat /\ n \in Nat /\ l <= n /\ Bytes(n) = Bytes(l)
  <2>1. l \in Nat
    OBVIOUS
  <2>. DEFINE p == Bytes(l)
  <2>2. p \in Nat /\ l <= ByteBits * p
    BY <2>1, BytesFacts
  <2>. HIDE DEF l, p
  <2>3. ByteBits * p \in Nat /\ Bytes(ByteBits * p) = p
    BY <2>2, BytesOfWhole
  <2>. QED BY <2>1, <2>2, <2>3 DEF p
<1>2. Flush(bs) = bs \o z
  BY DEF Flush
<1>. HIDE DEF n
<1>3. z \in Seq(Digit) /\ Len(z) = n - l /\ \A k \in 1 .. n - l : z[k] = 0
  <2>1. n - l \in Nat /\ z \in [1 .. n - l -> Digit] /\ DOMAIN z = 1 .. n - l
    BY <1>1 DEF Digit
  <2>2. \A k \in 1 .. n - l : z[k] = 0
    OBVIOUS
  <2>. HIDE DEF z
  <2>. QED BY <2>1, <2>2
<1>. HIDE DEF z
<1>4. Len(bs \o z) = n /\ bs \o z \in Seq(Digit)
  BY <1>1, <1>3
<1>5. \A k \in 1 .. l : (bs \o z)[k] = bs[k]
  BY <1>3
<1>6. \A k \in l + 1 .. n : (bs \o z)[k] = 0
  BY <1>1, <1>3
<1>. QED BY <1>1, <1>2, <1>4, <1>5, <1>6

-----------------------------------------------------------------------------
(* Contexts.                                                               *)

\* The places before j whose choice follows an s.
Places(m, s, j) == {k \in 1 .. j - 1 : Before(m, k) = s}

\* Places are finitely many.
LEMMA PlacesFacts ==
    ASSUME NEW m, NEW s, NEW j \in Nat
    PROVE  /\ IsFiniteSet(Places(m, s, j))
           /\ Uses(m, s, j) = Cardinality(Places(m, s, j))
           /\ Uses(m, s, j) \in Nat
<1>1. IsFiniteSet(1 .. j - 1)
  BY FS_Interval
<1>2. Places(m, s, j) \subseteq 1 .. j - 1
  BY DEF Places
<1>3. IsFiniteSet(Places(m, s, j))
  BY <1>1, <1>2, FS_Subset
<1>4. Uses(m, s, j) = Cardinality(Places(m, s, j))
  BY DEF Uses, Places
<1>. QED BY <1>3, <1>4, FS_CardinalityType

\* One more place counts if its choice follows an s.
LEMMA OneMoreUse ==
    ASSUME NEW m, NEW s, NEW j \in Nat \ {0}
    PROVE  Uses(m, s, j + 1) = Uses(m, s, j) + IF Before(m, j) = s THEN 1 ELSE 0
<1>0. j \in Nat /\ j + 1 \in Nat
  OBVIOUS
<1>1. 1 .. (j + 1) - 1 = (1 .. j - 1) \cup {j} /\ j \notin 1 .. j - 1
  OBVIOUS
<1>2. /\ IsFiniteSet(Places(m, s, j)) /\ Uses(m, s, j) = Cardinality(Places(m, s, j))
      /\ Uses(m, s, j) \in Nat
  BY <1>0, PlacesFacts
<1>3. Uses(m, s, j + 1) = Cardinality(Places(m, s, j + 1))
  BY <1>0, PlacesFacts
<1>4. CASE Before(m, j) = s
  <2>1. Places(m, s, j + 1) = Places(m, s, j) \cup {j} /\ j \notin Places(m, s, j)
    BY <1>1, <1>4 DEF Places
  <2>2. Cardinality(Places(m, s, j + 1)) = Cardinality(Places(m, s, j)) + 1
    BY <1>2, <2>1, FS_AddElement
  <2>. QED BY <1>2, <1>3, <1>4, <2>2
<1>5. CASE Before(m, j) # s
  <2>1. Places(m, s, j + 1) = Places(m, s, j)
    BY <1>1, <1>5 DEF Places
  <2>. QED BY <1>2, <1>3, <1>5, <2>1
<1>. QED BY <1>4, <1>5

\* Nothing is before the first place.
LEMMA UsesFacts ==
    ASSUME NEW m, NEW s
    PROVE  (\A j \in Nat : Uses(m, s, j) \in Nat) /\ Uses(m, s, 1) = 0
<1>1. \A j \in Nat : Uses(m, s, j) \in Nat
  BY PlacesFacts
<1>2. Uses(m, s, 1) = 0
  <2>1. Places(m, s, 1) = {}
    BY DEF Places
  <2>. QED BY <2>1, PlacesFacts, FS_EmptySet
<1>. QED BY <1>1, <1>2

\* Later places count no fewer.
LEMMA UsesGrow ==
    ASSUME NEW m, NEW s, NEW j \in Nat \ {0}, NEW k \in Nat, j <= k
    PROVE  Uses(m, s, j) <= Uses(m, s, k)
<1>. DEFINE T == {d \in Nat : Uses(m, s, j) <= Uses(m, s, j + d)}
<1>1. T = Nat
  <2>1. 0 \in T
    <3>1. Uses(m, s, j) \in Nat
      BY UsesFacts
    <3>2. j + 0 = j
      OBVIOUS
    <3>. QED BY <3>1, <3>2
  <2>2. ASSUME NEW d \in T
        PROVE  d + 1 \in T
    <3>1. j + d \in Nat \ {0} /\ j + (d + 1) = (j + d) + 1 /\ (j + d) + 1 \in Nat
      OBVIOUS
    <3>3. Uses(m, s, j) \in Nat /\ Uses(m, s, j + d) \in Nat /\ Uses(m, s, (j + d) + 1) \in Nat
      BY <3>1, UsesFacts
    <3>5. PICK h \in Nat \ {0} : h = j + d
      BY <3>1
    <3>6. Uses(m, s, h + 1) = Uses(m, s, h) + IF Before(m, h) = s THEN 1 ELSE 0
      BY OneMoreUse
    <3>2. Uses(m, s, (j + d) + 1) >= Uses(m, s, j + d)
      BY <3>3, <3>5, <3>6
    <3>4. Uses(m, s, j) <= Uses(m, s, j + d)
      OBVIOUS
    <3>. QED BY <3>1, <3>2, <3>3, <3>4
  <2>3. T \subseteq Nat
    OBVIOUS
  <2>. HIDE DEF T
  <2>. QED BY <2>1, <2>2, <2>3, NumberInduction
<1>2. k - j \in Nat /\ j + (k - j) = k
  OBVIOUS
<1>3. k - j \in T
  <2>. HIDE DEF T
  <2>. QED BY <1>1, <1>2
<1>. QED BY <1>2, <1>3

\* Followers are found at the number of those before them.
LEMMA FollowersFacts ==
    ASSUME NEW m \in Seq(Byte), NEW s
    PROVE  /\ Len(Followers(m, s)) = Uses(m, s, Len(m) + 1)
           /\ Uses(m, s, Len(m) + 1) = 0 => Followers(m, s) = <<>>
           /\ \A j \in 1 .. Len(m) : Before(m, j) = s =>
                 /\ Uses(m, s, j) + 1 \in 1 .. Uses(m, s, Len(m) + 1)
                 /\ Followers(m, s)[Uses(m, s, j) + 1] = m[j]
<1>. DEFINE l == Len(m)
            n == Uses(m, s, l + 1)
            At(p) == CHOOSE j \in DOMAIN m : Before(m, j) = s /\ Uses(m, s, j) = p - 1
<1>1. l \in Nat /\ l + 1 \in Nat /\ DOMAIN m = 1 .. l
  OBVIOUS
<1>2. n \in Nat
  BY <1>1, UsesFacts
<1>3. Followers(m, s) = [p \in 1 .. n |-> m[At(p)]]
  BY DEF Followers
<1>. HIDE DEF l, n
<1>4. ASSUME NEW j \in 1 .. l, Before(m, j) = s
      PROVE  /\ Uses(m, s, j) + 1 \in 1 .. n
             /\ At(Uses(m, s, j) + 1) = j
  <2>1. j \in Nat \ {0} /\ j + 1 \in Nat
    BY <1>1
  <2>2. Uses(m, s, j + 1) = Uses(m, s, j) + 1 /\ Uses(m, s, j) \in Nat
    BY <1>4, <2>1, UsesFacts, OneMoreUse
  <2>3. Uses(m, s, j + 1) <= n
    BY <1>1, <2>1, UsesGrow DEF n
  <2>4. ASSUME NEW h \in 1 .. l, Before(m, h) = s, Uses(m, s, h) = Uses(m, s, j)
        PROVE  h = j
    <3>1. h \in Nat \ {0} /\ h + 1 \in Nat
      BY <1>1
    <3>2. Uses(m, s, h + 1) = Uses(m, s, h) + 1
      BY <2>4, <3>1, UsesFacts, OneMoreUse
    <3>3. CASE h < j
      <4>1. Uses(m, s, h + 1) <= Uses(m, s, j)
        BY <2>1, <3>1, <3>3, UsesGrow
      <4>. QED BY <2>2, <2>4, <3>2, <4>1
    <3>4. CASE j < h
      <4>1. Uses(m, s, j + 1) <= Uses(m, s, h)
        BY <2>1, <3>1, <3>4, UsesGrow
      <4>. QED BY <2>2, <2>4, <4>1
    <3>. QED BY <2>1, <3>1, <3>3, <3>4
  <2>5. (Uses(m, s, j) + 1) - 1 = Uses(m, s, j)
    BY <2>2
  <2>6. \A h \in 1 .. l : Before(m, h) = s /\ Uses(m, s, h) = (Uses(m, s, j) + 1) - 1 => h = j
    BY <2>4, <2>5
  <2>7. Before(m, j) = s /\ Uses(m, s, j) = (Uses(m, s, j) + 1) - 1
    BY <1>4, <2>5
  <2>8. At(Uses(m, s, j) + 1) = j
    BY <1>1, <2>6, <2>7
  <2>9. Uses(m, s, j) + 1 \in 1 .. n
    BY <1>2, <2>2, <2>3
  <2>. QED BY <2>8, <2>9
<1>. HIDE DEF At
<1>5. DOMAIN Followers(m, s) = 1 .. n
  BY <1>3
<1>6. Len(Followers(m, s)) = n
  <2>. DEFINE f == Followers(m, s)
  <2>2. f = [p \in 1 .. n |-> f[p]]
    BY <1>3
  <2>. HIDE DEF f
  <2>3. Len(f) = n
    BY <1>2, <2>2
  <2>. QED BY <2>3 DEF f
<1>7. n = 0 => Followers(m, s) = <<>>
  BY <1>3
<1>8. \A j \in 1 .. l : Before(m, j) = s => Followers(m, s)[Uses(m, s, j) + 1] = m[j]
  BY <1>3, <1>4
<1>. QED BY <1>4, <1>6, <1>7, <1>8 DEF l, n

\* Every choice is one of the alphabet, and follows one.
LEMMA AlphabetFacts ==
    ASSUME NEW m \in Seq(Byte)
    PROVE  /\ Alphabet(m) \in Nat \ {0}
           /\ \A j \in 1 .. Len(m) : /\ m[j] \in Nat /\ m[j] < Alphabet(m)
                                     /\ Before(m, j) \in 0 .. Alphabet(m) - 1
<1>. DEFINE T == {0} \cup Range(m)
            n == Two[ByteBits]
<1>1. n \in Nat
  BY SizesAssumption, TwoFacts
<1>. HIDE DEF n
<1>2. \A j \in 1 .. Len(m) : m[j] \in Nat /\ m[j] <= n
  <2>1. \A b \in Byte : b \in Nat /\ b <= n
    BY <1>1 DEF Byte, n
  <2>2. \A j \in 1 .. Len(m) : m[j] \in Byte
    OBVIOUS
  <2>. QED BY <2>1, <2>2
<1>3. DOMAIN m = 1 .. Len(m)
  OBVIOUS
<1>4. T \subseteq Nat /\ T # {} /\ \A b \in T : b <= n
  BY <1>1, <1>2, <1>3 DEF Range
<1>5. \A j \in 1 .. Len(m) : m[j] \in T
  BY <1>3 DEF Range
<1>. HIDE DEF T
<1>6. Max(T) \in T /\ \A b \in T : b <= Max(T)
  BY <1>1, <1>4, MaxFacts
<1>7. Max(T) \in Nat /\ Alphabet(m) = 1 + Max(T)
  BY <1>4, <1>6 DEF Alphabet, T
<1>8. ASSUME NEW j \in 1 .. Len(m)
      PROVE  Before(m, j) \in 0 .. Alphabet(m) - 1
  <2>1. CASE j = 1
    BY <1>7, <2>1 DEF Before
  <2>2. CASE j # 1
    <3>1. j - 1 \in 1 .. Len(m)
      BY <2>2
    <3>2. m[j - 1] \in Nat /\ m[j - 1] <= Max(T)
      BY <1>2, <1>5, <1>6, <3>1
    <3>. QED BY <1>7, <2>2, <3>2 DEF Before
  <2>. QED BY <2>1, <2>2
<1>9. \A j \in 1 .. Len(m) : m[j] < Alphabet(m)
  <2>1. \A j \in 1 .. Len(m) : m[j] \in Nat /\ m[j] <= Max(T)
    BY <1>2, <1>5, <1>6
  <2>. QED BY <1>7, <2>1
<1>. QED BY <1>2, <1>7, <1>8, <1>9

\* A file of contexts has the followers of every choice, and so many in all.
LEMMA GroupsFacts ==
    ASSUME NEW m \in Seq(Byte), file = ContextFile(m)
    PROVE  /\ file.alphabet = Alphabet(m) /\ DOMAIN file.groups \subseteq 0 .. Alphabet(m) - 1
           /\ \A s \in 0 .. Alphabet(m) - 1 : Group(s) = Followers(m, s)
           /\ Total = Len(m)
<1>. DEFINE a == Alphabet(m)
            D == {s \in 0 .. a - 1 : Followers(m, s) # <<>>}
            G == [s \in D |-> Followers(m, s)]
            l == Len(m)
<1>1. a \in Nat \ {0} /\ l \in Nat
  BY AlphabetFacts
<1>2. file.alphabet = a /\ file.groups = G
  BY DEF ContextFile
<1>3. DOMAIN file.groups = D /\ D \subseteq 0 .. a - 1
  BY <1>2
<1>4. \A s \in 0 .. a - 1 : Group(s) = Followers(m, s)
  BY <1>2, <1>3 DEF Group
<1>. DEFINE Low(s) == {k \in 1 .. l : Before(m, k) < s}
            Body(f, s) == IF s = 0 THEN 0 ELSE f[s - 1] + Len(Group(s - 1))
            e == [s \in 0 .. a |-> Cardinality(Low(s))]
            S == CHOOSE n : n = [s \in 0 .. a |-> Body(n, s)]
<1>. HIDE DEF G, D, l, a
<1>5. \A s \in 0 .. a - 1 : Len(Group(s)) = Uses(m, s, l + 1) /\ Uses(m, s, l + 1) \in Nat
  <2>1. l + 1 \in Nat
    BY <1>1
  <2>. QED BY <1>4, <2>1, FollowersFacts, UsesFacts DEF l
<1>6. \A s \in 0 .. a : IsFiniteSet(Low(s))
  <2>1. IsFiniteSet(1 .. l)
    BY <1>1, FS_Interval
  <2>2. \A s \in 0 .. a : Low(s) \subseteq 1 .. l
    OBVIOUS
  <2>. QED BY <2>1, <2>2, FS_Subset
<1>7. \A k \in 1 .. l : Before(m, k) \in 0 .. a - 1
  BY AlphabetFacts DEF l, a
<1>8. ASSUME NEW s \in 0 .. a
      PROVE  Cardinality(Low(s)) = Body(e, s)
  <2>1. CASE s = 0
    <3>1. Low(0) = {}
      <4>1. \A k \in 1 .. l : ~ (Before(m, k) < 0)
        BY <1>1, <1>7
      <4>. QED BY <4>1
    <3>. QED BY <2>1, <3>1, FS_EmptySet
  <2>2. CASE s # 0
    <3>. DEFINE r == s - 1
                P == Places(m, r, l + 1)
    <3>1. r \in 0 .. a /\ r \in 0 .. a - 1 /\ r + 1 = s
      BY <1>1, <2>2
    <3>. HIDE DEF r
    <3>2. Low(s) = Low(r) \cup P /\ Low(r) \cap P = {}
      <4>1. \A k \in 1 .. l : /\ Before(m, k) < s <=> Before(m, k) < r \/ Before(m, k) = r
                              /\ ~ (Before(m, k) < r /\ Before(m, k) = r)
        BY <1>1, <1>7, <3>1
      <4>2. P = {k \in 1 .. l : Before(m, k) = r}
        <5>1. (l + 1) - 1 = l
          BY <1>1
        <5>. QED BY <5>1 DEF Places
      <4>. HIDE DEF P
      <4>. QED BY <4>1, <4>2
    <3>3. IsFiniteSet(P) /\ IsFiniteSet(Low(r))
      <4>1. IsFiniteSet(Low(s)) /\ P \subseteq Low(s)
        BY <1>6, <3>2
      <4>. HIDE DEF Low, P
      <4>. QED BY <1>6, <3>1, <4>1, FS_Subset
    <3>4. Cardinality(Low(s)) = Cardinality(Low(r)) + Cardinality(P)
      <4>. HIDE DEF Low, P
      <4>1. Cardinality(Low(r) \cap P) = 0
        BY <3>2, FS_EmptySet
      <4>2. Cardinality(Low(r) \cup P)
              = Cardinality(Low(r)) + Cardinality(P) - Cardinality(Low(r) \cap P)
        BY <3>3, FS_Union
      <4>3. Cardinality(Low(r)) \in Nat /\ Cardinality(P) \in Nat
        BY <3>3, FS_CardinalityType
      <4>. QED BY <3>2, <4>1, <4>2, <4>3
    <3>5. Cardinality(P) = Len(Group(r))
      <4>1. Cardinality(P) = Uses(m, r, l + 1)
        BY DEF Uses, Places
      <4>. QED BY <1>5, <3>1, <4>1
    <3>6. e[r] = Cardinality(Low(r))
      BY <3>1
    <3>. HIDE DEF e, Low, P
    <3>. QED BY <2>2, <3>4, <3>5, <3>6 DEF r
  <2>. QED BY <2>1, <2>2
<1>9. e = [s \in 0 .. a |-> Body(e, s)]
  <2>. DEFINE c(s) == Cardinality(Low(s))
              d(s) == Body(e, s)
  <2>1. e = [s \in 0 .. a |-> c(s)]
    OBVIOUS
  <2>2. \A s \in 0 .. a : c(s) = d(s)
    BY <1>8
  <2>3. e = [s \in 0 .. a |-> d(s)]
    <3>. HIDE DEF c, d, e
    <3>. QED BY <2>1, <2>2
  <2>. QED BY <2>3
<1>10. S = [s \in 0 .. a |-> Body(S, s)]
  <2>. HIDE DEF e, Body
  <2>. QED BY <1>9
<1>11. Total = S[a]
  BY <1>2 DEF Total
<1>. HIDE DEF S
<1>. DEFINE T == {s \in Nat : S[s] = e[s]}
<1>12. \A s \in 0 .. a : s \in T
  <2>1. 0 \in T
    <3>1. 0 \in 0 .. a
      BY <1>1
    <3>2. S[0] = 0 /\ e[0] = 0
      <4>. HIDE DEF e
      <4>. QED BY <1>9, <1>10, <3>1
    <3>. HIDE DEF e
    <3>. QED BY <3>2
  <2>2. \A s \in 0 .. a - 1 : s \in T => s + 1 \in T
    <3>. HIDE DEF e
    <3>1. ASSUME NEW s \in 0 .. a - 1, S[s] = e[s]
          PROVE  S[s + 1] = e[s + 1]
      <4>1. s + 1 \in 0 .. a /\ s + 1 # 0 /\ (s + 1) - 1 = s
        BY <1>1
      <4>2. S[s + 1] = S[s] + Len(Group(s)) /\ e[s + 1] = e[s] + Len(Group(s))
        BY <1>9, <1>10, <4>1
      <4>. QED BY <3>1, <4>2
    <3>. QED BY <3>1
  <2>. HIDE DEF T
  <2>. QED BY <1>1, <2>1, <2>2, BoundedInduction
<1>13. e[a] = l
  <2>1. Low(a) = 1 .. l
    <3>1. \A k \in 1 .. l : Before(m, k) < a
      BY <1>1, <1>7
    <3>. QED BY <3>1
  <2>2. Cardinality(1 .. l) = l
    BY <1>1, FS_Interval
  <2>3. e[a] = Cardinality(Low(a))
    BY <1>1
  <2>. QED BY <2>1, <2>2, <2>3
<1>14. Total = l
  <2>1. a \in T
    <3>. HIDE DEF T
    <3>. QED BY <1>1, <1>12
  <2>. HIDE DEF e
  <2>. QED BY <1>11, <1>13, <2>1
<1>. QED BY <1>2, <1>3, <1>4, <1>14 DEF a, l

-----------------------------------------------------------------------------
(* The table of the parse.                                                 *)

\* The last position with MinMatch bytes from it on.
Top == Len(bytes) - MinMatch + 1

\* A link leads nowhere or to a position before j.
Links(x, j) == x = None \/ x \in 1 .. j - 1

\* Heads lead to positions of the parse, and every such position that has a hash
\* is chained to one before it.
Table ==
    /\ DOMAIN head = Hashes
    /\ DOMAIN chain = 1 .. Len(bytes)
    /\ \A h \in Hashes : Links(head[h], i)
    /\ \A j \in 1 .. i - 1 : j <= Top => Links(chain[j], j)

\* What the parse goes through.
Parsing ==
    /\ bytes \in Seq(Byte)
    /\ i \in 1 .. Len(bytes) + 1

\* A position with MinMatch bytes from it on has a hash.
LEMMA HashFacts ==
    ASSUME Parsing, NEW j \in Nat \ {0}, j <= Top
    PROVE  HashAt(j) \in Hashes /\ j \in 1 .. Len(bytes)
<1>1. MinMatch \in Nat \ {0} /\ Len(bytes) \in Nat
  BY SizesAssumption DEF Parsing
<1>2. j + MinMatch - 1 <= Len(bytes) /\ j \in 1 .. Len(bytes)
  BY <1>1 DEF Top
<1>. DEFINE e == j + MinMatch - 1
            p == SubSeq(bytes, j, e)
<1>3. e \in Int /\ j <= e /\ e - j + 1 = MinMatch /\ j \in Int
  BY <1>1
<1>4. \A k \in j .. e : bytes[k] \in Byte
  <2>1. \A k \in j .. e : k \in 1 .. Len(bytes)
    BY <1>1, <1>2
  <2>. QED BY <2>1 DEF Parsing
<1>. HIDE DEF e
<1>5. p \in Seq(Byte) /\ Len(p) = MinMatch
  BY <1>3, <1>4, SubSeqProperties
<1>. HIDE DEF p
<1>6. p \in [1 .. MinMatch -> Byte]
  BY <1>5
<1>7. HashAt(j) = Hash(p)
  BY DEF HashAt, p, e
<1>. QED BY <1>2, <1>6, <1>7, HashAssumption

\* No walk of the chains leads to memory that was not written, or ahead.
LEMMA CandidateFacts ==
    ASSUME Parsing, Table, i <= Top, NEW t \in 0 .. MaxTrials
    PROVE  Links(Candidate[t], i)
<1>. DEFINE D == {None} \cup 1 .. i - 1
            g == [x \in D |-> IF x \in {None, Unwritten} \/ Far(x) THEN None ELSE chain[x]]
            n == MaxTrials
            Body(e, k) ==
                IF k = 0 THEN head[HashAt(i)]
                ELSE LET last == e[k - 1]
                     IN  IF last \in {None, Unwritten} \/ Far(last) THEN None ELSE chain[last]
<1>1. i \in Nat \ {0} /\ n \in Nat /\ Len(bytes) \in Nat /\ Top \in Int
  BY SizesAssumption DEF Parsing, Top
<1>2. head[HashAt(i)] \in D
  <2>1. HashAt(i) \in Hashes
    BY <1>1, HashFacts
  <2>. QED BY <2>1 DEF Table, Links
<1>3. \A x \in D : g[x] \in D
  <2>1. ASSUME NEW x \in 1 .. i - 1
        PROVE  chain[x] \in D
    <3>1. x <= Top
      BY <1>1
    <3>2. Links(chain[x], x)
      BY <3>1 DEF Table
    <3>3. 1 .. x - 1 \subseteq 1 .. i - 1
      BY <1>1
    <3>. QED BY <3>2, <3>3 DEF Links
  <2>. HIDE DEF Far
  <2>. QED BY <2>1
<1>. HIDE DEF D, n
<1>4. ASSUME NEW e, \A k \in 0 .. n : e[k] = IF k = 0 THEN head[HashAt(i)] ELSE g[e[k - 1]]
      PROVE  \A k \in 0 .. n : e[k] \in D
  <2>. DEFINE T == {k \in Nat : e[k] \in D}
  <2>. HIDE DEF g
  <2>1. 0 \in T
    BY <1>1, <1>2, <1>4
  <2>2. \A m \in 0 .. n - 1 : m \in T => m + 1 \in T
    <3>1. ASSUME NEW m \in 0 .. n - 1, e[m] \in D
          PROVE  e[m + 1] \in D
      <4>1. m + 1 \in 0 .. n /\ m + 1 # 0 /\ (m + 1) - 1 = m
        BY <1>1
      <4>2. e[m + 1] = g[e[m]]
        BY <1>4, <4>1
      <4>. QED BY <1>3, <3>1, <4>2
    <3>. QED BY <3>1
  <2>3. \A m \in 0 .. n : m \in T
    <3>. HIDE DEF T
    <3>. QED BY <1>1, <2>1, <2>2, BoundedInduction
  <2>. QED BY <2>3
<1>5. PICK e : Lists(e, n, head[HashAt(i)], [k \in 1 .. n |-> g])
  <2>. HIDE DEF g
  <2>. QED BY <1>1, RecursionExists
<1>6. e = [k \in 0 .. n |-> e[k]] /\ \A k \in 0 .. n : e[k] = IF k = 0 THEN head[HashAt(i)] ELSE g[e[k - 1]]
  <2>. HIDE DEF g
  <2>. DEFINE b(k) == IF k = 0 THEN head[HashAt(i)] ELSE [h \in 1 .. n |-> g][k][e[k - 1]]
  <2>1. e = [k \in 0 .. n |-> b(k)]
    BY <1>5 DEF Lists
  <2>2. e = [k \in 0 .. n |-> e[k]] /\ \A k \in 0 .. n : e[k] = b(k)
    <3>. HIDE DEF b
    <3>. QED BY <2>1
  <2>3. \A k \in 0 .. n : k # 0 => k \in 1 .. n
    BY <1>1
  <2>. QED BY <2>2, <2>3
<1>7. \A k \in 0 .. n : e[k] \in D
  <2>. HIDE DEF g
  <2>. QED BY <1>4, <1>6
<1>8. ASSUME NEW d, NEW k \in 0 .. n, k # 0 => d[k - 1] \in D
      PROVE  Body(d, k) = IF k = 0 THEN head[HashAt(i)] ELSE g[d[k - 1]]
  BY <1>8
<1>9. \A k \in 0 .. n : e[k] = Body(e, k)
  <2>1. ASSUME NEW k \in 0 .. n
        PROVE  e[k] = Body(e, k)
    <3>1. k # 0 => k - 1 \in 0 .. n
      BY <1>1
    <3>2. k # 0 => e[k - 1] \in D
      BY <1>7, <3>1
    <3>3. Body(e, k) = IF k = 0 THEN head[HashAt(i)] ELSE g[e[k - 1]]
      BY <1>8, <3>2
    <3>. HIDE DEF Body, g
    <3>. QED BY <1>6, <3>3
  <2>. QED BY <2>1
<1>10. e = [k \in 0 .. n |-> Body(e, k)]
  <2>1. e = [k \in 0 .. n |-> e[k]]
    BY <1>6
  <2>. HIDE DEF Body
  <2>. QED BY <1>9, <2>1
<1>11. Candidate = [k \in 0 .. n |-> Body(Candidate, k)]
  BY <1>10 DEF Candidate, n
<1>. DEFINE T == {k \in Nat : Candidate[k] \in D}
<1>12. 0 \in T
  <2>1. 0 \in 0 .. n
    BY <1>1
  <2>2. Candidate[0] = head[HashAt(i)]
    BY <1>11, <2>1
  <2>. QED BY <1>2, <2>2
<1>13. \A m \in 0 .. n - 1 : m \in T => m + 1 \in T
  <2>1. ASSUME NEW m \in 0 .. n - 1, Candidate[m] \in D
        PROVE  Candidate[m + 1] \in D
    <3>1. m + 1 \in 0 .. n /\ m + 1 # 0 /\ (m + 1) - 1 = m
      BY <1>1
    <3>2. Candidate[m + 1] = Body(Candidate, m + 1)
      <4>. HIDE DEF Body
      <4>. QED BY <1>11, <3>1
    <3>3. Body(Candidate, m + 1) = g[Candidate[m]]
      BY <2>1, <3>1
    <3>. HIDE DEF Body, g
    <3>. QED BY <1>3, <2>1, <3>2, <3>3
  <2>. QED BY <2>1
<1>14. t \in T
  <2>. HIDE DEF T
  <2>1. \A m \in 0 .. n : m \in T
    BY <1>1, <1>12, <1>13, BoundedInduction
  <2>. QED BY <2>1 DEF n
<1>. QED BY <1>14 DEF D, Links

\* A match is behind, within the window, and matches from shortest on.
LEMMA MatchesFacts ==
    ASSUME Parsing, Table, NEW j \in Matches
    PROVE  /\ j \in 1 .. i - 1 /\ i - j <= Window
           /\ Matching(j) \in MinMatch .. Left(i) /\ MinMatch <= Left(i)
           /\ \A k \in 0 .. Matching(j) - 1 : bytes[i + k] = bytes[j + k]
<1>1. i \in Nat \ {0} /\ Len(bytes) \in Nat /\ MinMatch \in Nat \ {0} /\ Window \in Nat
  BY SizesAssumption DEF Parsing
<1>2. ~ (Left(i) < MinMatch)
  BY DEF Matches
<1>3. PICK t \in 0 .. MaxTrials - 1 : j = Candidate[t]
  BY <1>2 DEF Matches
<1>4. j # None /\ ~ Far(j) /\ Matching(j) >= MinMatch
  BY <1>2 DEF Matches
<1>5. Left(i) \in Nat /\ MinMatch <= Left(i) /\ i <= Top
  BY <1>1, <1>2 DEF Left, Top, Parsing
<1>6. j \in 1 .. i - 1
  <2>1. t \in 0 .. MaxTrials
    BY SizesAssumption
  <2>2. Links(Candidate[t], i)
    BY <1>5, <2>1, CandidateFacts
  <2>. QED BY <1>3, <1>4, <2>2 DEF Links
<1>7. i - j <= Window
  BY <1>1, <1>4, <1>6 DEF Far
<1>. DEFINE T == {n \in 0 .. Left(i) : \A k \in 0 .. n - 1 : bytes[i + k] = bytes[j + k]}
<1>8. 0 \in T
  BY <1>5
<1>9. Max(T) \in T
  <2>1. T \subseteq Nat /\ T # {} /\ \A n \in T : n <= Left(i)
    BY <1>5, <1>8
  <2>. HIDE DEF T
  <2>. QED BY <1>5, <2>1, MaxFacts
<1>10. Matching(j) = Max(T)
  BY DEF Matching
<1>11. Matching(j) \in 0 .. Left(i) /\ \A k \in 0 .. Matching(j) - 1 : bytes[i + k] = bytes[j + k]
  BY <1>9, <1>10
<1>. QED BY <1>1, <1>4, <1>5, <1>6, <1>7, <1>11

\* What is inserted ends at the last position that has a hash, or before.
LEMMA LastInsertedFacts ==
    ASSUME Parsing, NEW j \in Nat
    PROVE  LastInserted(j) \in Int /\ LastInserted(j) <= j /\ LastInserted(j) <= Top
           /\ \A k \in Int : k <= j /\ k <= Top => k <= LastInserted(j)
<1>. DEFINE T == {j, Top}
<1>1. Top \in Int
  BY SizesAssumption DEF Top, Parsing
<1>2. LastInserted(j) = Min(T)
  BY DEF LastInserted, Top
<1>3. \E a \in T : \A b \in T : a <= b
  BY <1>1
<1>4. Min(T) \in T /\ \A b \in T : Min(T) <= b
  <2>. HIDE DEF T
  <2>. QED BY <1>3 DEF Min
<1>. QED BY <1>1, <1>2, <1>4

\* The table stays as it should when the parse moves on.
LEMMA TableMoves ==
    ASSUME Parsing, Table, NEW n \in Nat \ {0}, i' = i + n, bytes' = bytes,
           head' = Inserted(i, LastInserted(i + n - 1)).head,
           chain' = Inserted(i, LastInserted(i + n - 1)).chain
    PROVE  Table'
<1>. DEFINE z == LastInserted(i + n - 1)
            Same(h, a, b) == {j \in a .. b : HashAt(j) = h}
<1>1. i \in Nat \ {0} /\ i + n - 1 \in Nat /\ Top' = Top /\ Top \in Int /\ Len(bytes) \in Nat
  BY SizesAssumption DEF Parsing, Top
<1>2. z \in Int /\ z <= i + n - 1 /\ z <= Top /\ \A k \in Int : k <= i + n - 1 /\ k <= Top => k <= z
  BY <1>1, LastInsertedFacts
<1>. HIDE DEF z
<1>3. ASSUME NEW h \in Hashes, NEW b \in Int, i <= b + 1
      PROVE  Links(Latest(h, i, b), b + 1)
  <2>1. CASE Same(h, i, b) = {}
    <3>1. Latest(h, i, b) = head[h] /\ Links(head[h], i)
      BY <2>1 DEF Latest, Table
    <3>2. 1 .. i - 1 \subseteq 1 .. (b + 1) - 1
      BY <1>1, <1>3
    <3>. QED BY <3>1, <3>2 DEF Links
  <2>2. CASE Same(h, i, b) # {}
    <3>1. Latest(h, i, b) = Max(Same(h, i, b))
      BY <2>2 DEF Latest
    <3>2. Same(h, i, b) \subseteq i .. b
      OBVIOUS
    <3>. HIDE DEF Same
    <3>3. Same(h, i, b) \subseteq Nat /\ \A x \in Same(h, i, b) : x <= b
      BY <1>1, <3>2
    <3>4. b \in Nat
      BY <1>1, <1>3, <2>2, <3>2
    <3>5. Max(Same(h, i, b)) \in Same(h, i, b)
      BY <2>2, <3>3, <3>4, MaxFacts
    <3>6. Max(Same(h, i, b)) \in 1 .. (b + 1) - 1
      BY <1>1, <3>2, <3>4, <3>5
    <3>. QED BY <3>1, <3>6 DEF Links
  <2>. QED BY <2>1, <2>2
<1>4. ASSUME NEW h \in Hashes
      PROVE  Links(Latest(h, i, z), i + n)
  <2>1. CASE i <= z + 1
    <3>1. Links(Latest(h, i, z), z + 1)
      BY <1>2, <1>3, <2>1
    <3>2. 1 .. (z + 1) - 1 \subseteq 1 .. (i + n) - 1
      BY <1>1, <1>2
    <3>. QED BY <3>1, <3>2 DEF Links
  <2>2. CASE z + 1 < i
    <3>1. Same(h, i, z) = {}
      BY <1>1, <1>2, <2>2
    <3>2. Latest(h, i, z) = head[h] /\ Links(head[h], i)
      BY <3>1 DEF Latest, Table
    <3>3. 1 .. i - 1 \subseteq 1 .. (i + n) - 1
      BY <1>1
    <3>. QED BY <3>2, <3>3 DEF Links
  <2>. QED BY <1>1, <1>2, <2>1, <2>2
<1>5. DOMAIN head' = Hashes /\ \A h \in Hashes : Links(head'[h], i')
  <2>1. head' = [h \in Hashes |-> Latest(h, i, z)]
    BY DEF Inserted, Table, z
  <2>2. \A h \in Hashes : head'[h] = Latest(h, i, z)
    BY <2>1
  <2>. QED BY <1>4, <2>1, <2>2
<1>6. chain' = [j \in 1 .. Len(bytes) |->
                  IF j \in i .. z THEN Latest(HashAt(j), i, j - 1) ELSE chain[j]]
  BY DEF Inserted, Table, z
<1>7. ASSUME NEW j \in 1 .. (i + n) - 1, j <= Top
      PROVE  Links(chain'[j], j)
  <2>0. j \in Nat \ {0}
    BY <1>1
  <2>1. j \in 1 .. Len(bytes) /\ HashAt(j) \in Hashes
    BY <1>7, <2>0, HashFacts
  <2>2. CASE j < i
    <3>1. j \in 1 .. i - 1 /\ j \notin i .. z
      BY <1>1, <1>2, <2>0, <2>2
    <3>2. Links(chain[j], j)
      BY <1>7, <3>1 DEF Table
    <3>. QED BY <1>6, <2>1, <3>1, <3>2
  <2>3. CASE i <= j
    <3>1. j \in i .. z
      BY <1>1, <1>2, <1>7, <2>0, <2>3
    <3>2. j - 1 \in Int /\ i <= (j - 1) + 1 /\ (j - 1) + 1 = j
      BY <2>0, <2>3
    <3>3. Links(Latest(HashAt(j), i, j - 1), (j - 1) + 1)
      BY <1>3, <2>1, <3>2
    <3>. QED BY <1>6, <2>1, <3>1, <3>2, <3>3
  <2>. QED BY <1>1, <2>0, <2>2, <2>3
<1>. QED BY <1>1, <1>5, <1>6, <1>7 DEF Table

-----------------------------------------------------------------------------
(* The streams, as the decoder reads them.                                 *)

Known == [1 .. 3 -> Nat \ {0}]

\* How far bytes, literals and bits are read at the end of a sequence.
Marks == [pos : Nat \ {0}, lit : Nat, bit : Nat, known : Known]
FirstMark == [pos |-> 1, lit |-> 0, bit |-> 0, known |-> FirstRecent]

\* n literals after the first l are bytes bt from position p on.
Alike(ls, l, bt, p, n) == \A q \in 0 .. n - 1 : ls[l + 1 + q] = bt[p + q]

\* Read from mark a, codes c1, c2 and c3 give a run and a match that lead to mark b.
Leads(a, b, c1, c2, c3, bs, ls, bt) ==
    /\ c1 \in Nat /\ c2 \in Nat /\ c3 \in Nat
    /\ b.bit = a.bit + c1 + c2 + IF c3 < 3 THEN 0 ELSE c3 - 3
    /\ \E run \in Nat, length \in Nat, distance \in Nat \ {0} :
          /\ Coded(bs, c1, a.bit) = run
          /\ Coded(bs, c2, a.bit + c1) + MinMatch = length
          /\ distance = IF c3 < 3 THEN a.known[c3 + 1]
                                  ELSE Coded(bs, c3 - 3, a.bit + c1 + c2) + 1
          /\ b.pos = a.pos + run + length /\ b.lit = a.lit + run
          /\ b.known = Update(a.known, distance)
          /\ Alike(ls, a.lit, bt, a.pos, run)
          /\ distance <= Window /\ distance < a.pos + run
          /\ \A q \in 0 .. length - 1 :
                bt[a.pos + run + q] = bt[a.pos + run + q - distance]

\* Marks f are those of n sequences, one after the other.
Tape(f, n, cs, bs, ls, bt) ==
    /\ f[0] = FirstMark
    /\ \A k \in 0 .. n :
          /\ f[k] \in Marks
          /\ f[k].pos <= Len(bt) + 1 /\ f[k].bit <= Len(bs) /\ f[k].lit <= Len(ls)
          /\ k * MinMatch + f[k].lit < f[k].pos
    /\ \A k \in 1 .. n : Leads(f[k - 1], f[k], cs[1][k], cs[2][k], cs[3][k], bs, ls, bt)

\* t goes on where s ends.
Extends(s, t) == Len(s) <= Len(t) /\ \A k \in 1 .. Len(s) : t[k] = s[k]

\* Recent distances stay distances.
LEMMA UpdateKnown ==
    ASSUME NEW r \in Known, NEW d \in Nat \ {0}
    PROVE  Update(r, d) \in Known
  BY DEF Update, Known

\* Sequences are equal that have the same members.
LEMMA SameSequence ==
    ASSUME NEW S, NEW s \in Seq(S), NEW t \in Seq(S), Len(s) = Len(t),
           \A k \in 1 .. Len(s) : s[k] = t[k]
    PROVE  s = t
<1>1. s = [k \in 1 .. Len(s) |-> s[k]] /\ t = [k \in 1 .. Len(s) |-> t[k]]
  OBVIOUS
<1>. QED BY <1>1

\* What lies between two places of digits.
LEMMA SliceFacts ==
    ASSUME NEW S, NEW bs \in Seq(S), NEW at \in Nat, NEW n \in Nat, at + n <= Len(bs)
    PROVE  /\ SubSeq(bs, at + 1, at + n) \in Seq(S)
           /\ Len(SubSeq(bs, at + 1, at + n)) = n
           /\ \A k \in 1 .. n : SubSeq(bs, at + 1, at + n)[k] = bs[at + k]
<1>. DEFINE a == at + 1
            e == at + n
<1>1. a \in Int /\ e \in Int /\ e - a + 1 = n /\ (a <= e => e - a + 1 = n) /\ (~ (a <= e) => n = 0)
  OBVIOUS
<1>2. \A k \in a .. e : bs[k] \in S
  <2>1. \A k \in a .. e : k \in 1 .. Len(bs)
    OBVIOUS
  <2>. QED BY <2>1
<1>3. \A k \in 1 .. n : a + k - 1 = at + k
  OBVIOUS
<1>. HIDE DEF a, e
<1>4. /\ SubSeq(bs, a, e) \in Seq(S)
      /\ Len(SubSeq(bs, a, e)) = IF a <= e THEN e - a + 1 ELSE 0
      /\ \A k \in 1 .. e - a + 1 : SubSeq(bs, a, e)[k] = bs[a + k - 1]
  BY <1>1, <1>2, SubSeqProperties
<1>5. /\ SubSeq(bs, a, e) \in Seq(S) /\ Len(SubSeq(bs, a, e)) = n
      /\ \A k \in 1 .. n : SubSeq(bs, a, e)[k] = bs[at + k]
  BY <1>1, <1>3, <1>4
<1>. QED BY <1>5 DEF a, e

\* A number read of digits is read alike of digits that go on.
LEMMA CodedKept ==
    ASSUME NEW bs \in Seq(Digit), NEW ds \in Seq(Digit), Extends(bs, ds),
           NEW c \in Nat, NEW at \in Nat, at + c <= Len(bs)
    PROVE  Coded(ds, c, at) = Coded(bs, c, at)
<1>. DEFINE p == SubSeq(bs, at + 1, at + c)
            q == SubSeq(ds, at + 1, at + c)
<1>1. at + c <= Len(ds)
  BY DEF Extends
<1>2. /\ p \in Seq(Digit) /\ q \in Seq(Digit) /\ Len(p) = c /\ Len(q) = c
      /\ \A k \in 1 .. c : p[k] = bs[at + k] /\ q[k] = ds[at + k]
  BY <1>1, SliceFacts
<1>3. \A k \in 1 .. c : at + k \in 1 .. Len(bs)
  OBVIOUS
<1>4. \A k \in 1 .. c : p[k] = q[k]
  BY <1>2, <1>3 DEF Extends
<1>. HIDE DEF p, q
<1>5. p = q
  BY <1>2, <1>4, SameSequence
<1>. QED BY <1>5 DEF Coded, p, q

\* Where the bits below a number stand, its magnitude reads it.
LEMMA CodedBack ==
    ASSUME NEW bs \in Seq(Digit), NEW at \in Nat, NEW v \in Nat,
           at + Magnitude(v) <= Len(bs),
           \A k \in 1 .. Magnitude(v) : bs[at + k] = Below(v)[k]
    PROVE  Coded(bs, Magnitude(v), at) = v
<1>. DEFINE c == Magnitude(v)
            p == SubSeq(bs, at + 1, at + c)
<1>1. c \in Nat /\ Below(v) \in Seq(Digit) /\ Len(Below(v)) = c /\ Valued(c, Below(v)) = v
  BY ValuedBack
<1>. HIDE DEF c
<1>2. p \in Seq(Digit) /\ Len(p) = c /\ \A k \in 1 .. c : p[k] = bs[at + k]
  BY <1>1, SliceFacts, SMTT(30) DEF c
<1>3. \A k \in 1 .. c : p[k] = Below(v)[k]
  BY <1>2 DEF c
<1>. HIDE DEF p
<1>4. p = Below(v)
  BY <1>1, <1>2, <1>3, SameSequence
<1>. QED BY <1>1, <1>4 DEF Coded, p, c

\* More bits and literals leave what was read as it is.
LEMMA LeadsKept ==
    ASSUME NEW a \in Marks, NEW b \in Marks, NEW c1, NEW c2, NEW c3, NEW bt,
           NEW bs \in Seq(Digit), NEW ds \in Seq(Digit), Extends(bs, ds),
           NEW ls \in Seq(Byte), NEW ms \in Seq(Byte), Extends(ls, ms),
           Leads(a, b, c1, c2, c3, bs, ls, bt), b.bit <= Len(bs), b.lit <= Len(ls)
    PROVE  Leads(a, b, c1, c2, c3, ds, ms, bt)
<1>1. /\ c1 \in Nat /\ c2 \in Nat /\ c3 \in Nat
      /\ b.bit = a.bit + c1 + c2 + IF c3 < 3 THEN 0 ELSE c3 - 3
  BY DEF Leads
<1>2. PICK run \in Nat, length \in Nat, distance \in Nat \ {0} :
          /\ Coded(bs, c1, a.bit) = run
          /\ Coded(bs, c2, a.bit + c1) + MinMatch = length
          /\ distance = IF c3 < 3 THEN a.known[c3 + 1]
                                  ELSE Coded(bs, c3 - 3, a.bit + c1 + c2) + 1
          /\ b.pos = a.pos + run + length /\ b.lit = a.lit + run
          /\ b.known = Update(a.known, distance)
          /\ Alike(ls, a.lit, bt, a.pos, run)
          /\ distance <= Window /\ distance < a.pos + run
          /\ \A q \in 0 .. length - 1 :
                bt[a.pos + run + q] = bt[a.pos + run + q - distance]
  BY DEF Leads
<1>3. a.bit \in Nat /\ a.lit \in Nat /\ Len(bs) \in Nat /\ Len(ls) \in Nat
  BY DEF Marks
<1>4. /\ Coded(ds, c1, a.bit) = Coded(bs, c1, a.bit)
      /\ Coded(ds, c2, a.bit + c1) = Coded(bs, c2, a.bit + c1)
      /\ ~ (c3 < 3) => Coded(ds, c3 - 3, a.bit + c1 + c2) = Coded(bs, c3 - 3, a.bit + c1 + c2)
  <2>1. /\ a.bit + c1 \in Nat /\ a.bit + c1 + c2 \in Nat
        /\ a.bit + c1 <= Len(bs) /\ (a.bit + c1) + c2 <= Len(bs)
        /\ ~ (c3 < 3) => c3 - 3 \in Nat /\ (a.bit + c1 + c2) + (c3 - 3) <= Len(bs)
    <3>1. PICK p \in Nat : p = a.bit
      BY <1>3
    <3>2. PICK l \in Nat : l = Len(bs)
      BY <1>3
    <3>3. p + c1 + c2 + (IF c3 < 3 THEN 0 ELSE c3 - 3) <= l
      BY <1>1, <3>1, <3>2
    <3>4. /\ p + c1 \in Nat /\ p + c1 + c2 \in Nat
          /\ p + c1 <= l /\ (p + c1) + c2 <= l
          /\ ~ (c3 < 3) => c3 - 3 \in Nat /\ (p + c1 + c2) + (c3 - 3) <= l
      BY <1>1, <3>3
    <3>. QED BY <3>1, <3>2, <3>4
  <2>2. Coded(ds, c1, a.bit) = Coded(bs, c1, a.bit)
    BY <1>1, <1>3, <2>1, CodedKept
  <2>3. Coded(ds, c2, a.bit + c1) = Coded(bs, c2, a.bit + c1)
    BY <1>1, <2>1, CodedKept
  <2>4. ASSUME ~ (c3 < 3)
        PROVE  Coded(ds, c3 - 3, a.bit + c1 + c2) = Coded(bs, c3 - 3, a.bit + c1 + c2)
    BY <2>1, <2>4, CodedKept
  <2>. QED BY <2>2, <2>3, <2>4
<1>5. Alike(ms, a.lit, bt, a.pos, run)
  <2>1. \A q \in 0 .. run - 1 : a.lit + 1 + q \in 1 .. Len(ls)
    BY <1>2, <1>3, SMTT(30)
  <2>. QED BY <1>2, <2>1 DEF Alike, Extends
<1>6. distance = IF c3 < 3 THEN a.known[c3 + 1] ELSE Coded(ds, c3 - 3, a.bit + c1 + c2) + 1
  BY <1>2, <1>4
<1>7. Coded(ds, c1, a.bit) = run /\ Coded(ds, c2, a.bit + c1) + MinMatch = length
  BY <1>2, <1>4
<1>. SUFFICES \E r \in Nat, l \in Nat, d \in Nat \ {0} :
          /\ Coded(ds, c1, a.bit) = r
          /\ Coded(ds, c2, a.bit + c1) + MinMatch = l
          /\ d = IF c3 < 3 THEN a.known[c3 + 1] ELSE Coded(ds, c3 - 3, a.bit + c1 + c2) + 1
          /\ b.pos = a.pos + r + l /\ b.lit = a.lit + r
          /\ b.known = Update(a.known, d)
          /\ Alike(ms, a.lit, bt, a.pos, r)
          /\ d <= Window /\ d < a.pos + r
          /\ \A q \in 0 .. l - 1 : bt[a.pos + r + q] = bt[a.pos + r + q - d]
  BY <1>1, Zenon DEF Leads
<1>. WITNESS run \in Nat, length \in Nat, distance \in Nat \ {0}
<1>. QED BY <1>2, <1>5, <1>6, <1>7

\* So are all sequences.
LEMMA TapeKept ==
    ASSUME NEW f, NEW n \in Nat, NEW cs, NEW es, NEW bt,
           NEW bs \in Seq(Digit), NEW ds \in Seq(Digit), Extends(bs, ds),
           NEW ls \in Seq(Byte), NEW ms \in Seq(Byte), Extends(ls, ms),
           \A k \in 1 .. n : es[1][k] = cs[1][k] /\ es[2][k] = cs[2][k] /\ es[3][k] = cs[3][k],
           Tape(f, n, cs, bs, ls, bt)
    PROVE  Tape(f, n, es, ds, ms, bt)
<1>1. f[0] = FirstMark
  BY DEF Tape
<1>2. \A k \in 0 .. n :
          /\ f[k] \in Marks
          /\ f[k].pos <= Len(bt) + 1 /\ f[k].bit <= Len(ds) /\ f[k].lit <= Len(ms)
          /\ k * MinMatch + f[k].lit < f[k].pos
  <2>. SUFFICES ASSUME NEW k \in 0 .. n
                PROVE  /\ f[k] \in Marks
                       /\ f[k].pos <= Len(bt) + 1 /\ f[k].bit <= Len(ds) /\ f[k].lit <= Len(ms)
                       /\ k * MinMatch + f[k].lit < f[k].pos
    OBVIOUS
  <2>1. /\ f[k] \in Marks
        /\ f[k].pos <= Len(bt) + 1 /\ f[k].bit <= Len(bs) /\ f[k].lit <= Len(ls)
        /\ k * MinMatch + f[k].lit < f[k].pos
    BY DEF Tape
  <2>2. f[k].bit \in Nat /\ f[k].lit \in Nat
    BY <2>1 DEF Marks
  <2>3. Len(bs) <= Len(ds) /\ Len(ls) <= Len(ms)
    BY DEF Extends
  <2>4. Len(bs) \in Nat /\ Len(ls) \in Nat /\ Len(ds) \in Nat /\ Len(ms) \in Nat
    OBVIOUS
  <2>. QED BY <2>1, <2>2, <2>3, <2>4
<1>3. ASSUME NEW k \in 1 .. n
      PROVE  Leads(f[k - 1], f[k], es[1][k], es[2][k], es[3][k], ds, ms, bt)
  <2>1. k - 1 \in 0 .. n /\ k \in 0 .. n
    OBVIOUS
  <2>2. f[k - 1] \in Marks /\ f[k] \in Marks /\ f[k].bit <= Len(bs) /\ f[k].lit <= Len(ls)
    BY <2>1 DEF Tape
  <2>3. Leads(f[k - 1], f[k], cs[1][k], cs[2][k], cs[3][k], bs, ls, bt)
    BY DEF Tape
  <2>4. Leads(f[k - 1], f[k], cs[1][k], cs[2][k], cs[3][k], ds, ms, bt)
    BY <2>2, <2>3, LeadsKept
  <2>. QED BY <2>4
<1>. HIDE DEF Leads
<1>. QED BY <1>1, <1>2, <1>3 DEF Tape

\* One more sequence.
LEMMA TapeGrows ==
    ASSUME NEW f, NEW n \in Nat, NEW cs, NEW bs, NEW ls, NEW bt, Tape(f, n, cs, bs, ls, bt),
           NEW b \in Marks, b.pos <= Len(bt) + 1, b.bit <= Len(bs), b.lit <= Len(ls),
           (n + 1) * MinMatch + b.lit < b.pos,
           Leads(f[n], b, cs[1][n + 1], cs[2][n + 1], cs[3][n + 1], bs, ls, bt)
    PROVE  \E g : Tape(g, n + 1, cs, bs, ls, bt) /\ g[n + 1] = b
<1>. DEFINE z == n + 1
            g == [k \in 0 .. z |-> IF k = z THEN b ELSE f[k]]
<1>1. /\ z \in 0 .. z /\ 0 \in 0 .. z /\ z # 0 /\ n \in 0 .. z /\ z - 1 = n /\ n # z
      /\ \A k \in 0 .. z : k = z \/ k \in 0 .. n
      /\ \A k \in 1 .. z : k - 1 \in 0 .. z /\ k - 1 # z /\ k \in 0 .. z
                           /\ (k # z => k \in 1 .. n)
  OBVIOUS
<1>. HIDE DEF z
<1>2. g[z] = b /\ \A k \in 0 .. z : k # z => g[k] = f[k]
  BY <1>1
<1>. HIDE DEF g
<1>3. g[0] = FirstMark
  BY <1>1, <1>2 DEF Tape
<1>4. \A k \in 0 .. z :
          /\ g[k] \in Marks
          /\ g[k].pos <= Len(bt) + 1 /\ g[k].bit <= Len(bs) /\ g[k].lit <= Len(ls)
          /\ k * MinMatch + g[k].lit < g[k].pos
  <2>1. ASSUME NEW k \in 0 .. z, k # z
        PROVE  /\ g[k] \in Marks
               /\ g[k].pos <= Len(bt) + 1 /\ g[k].bit <= Len(bs) /\ g[k].lit <= Len(ls)
               /\ k * MinMatch + g[k].lit < g[k].pos
    <3>1. k \in 0 .. n /\ g[k] = f[k]
      BY <1>1, <1>2, <2>1
    <3>. QED BY <3>1 DEF Tape
  <2>. QED BY <1>1, <1>2, <2>1 DEF z
<1>5. \A k \in 1 .. z : Leads(g[k - 1], g[k], cs[1][k], cs[2][k], cs[3][k], bs, ls, bt)
  <2>1. ASSUME NEW k \in 1 .. z
        PROVE  Leads(g[k - 1], g[k], cs[1][k], cs[2][k], cs[3][k], bs, ls, bt)
    <3>1. g[k - 1] = f[k - 1]
      BY <1>1, <1>2
    <3>2. CASE k = z
      BY <1>1, <1>2, <3>1, <3>2 DEF z
    <3>3. CASE k # z
      <4>1. k \in 1 .. n /\ g[k] = f[k]
        BY <1>1, <1>2, <3>3
      <4>. QED BY <3>1, <4>1 DEF Tape
    <3>. QED BY <3>2, <3>3
  <2>. QED BY <2>1
<1>6. Tape(g, z, cs, bs, ls, bt)
  BY <1>3, <1>4, <1>5 DEF Tape
<1>. QED BY <1>2, <1>6 DEF z

-----------------------------------------------------------------------------
(* The streams, as the encoder writes them.                                *)

Streams ==
    /\ codes = <<codes[1], codes[2], codes[3]>>
    /\ codes[1] \in Seq(Nat) /\ codes[2] \in Seq(Nat) /\ codes[3] \in Seq(Nat)
    /\ Len(codes[1]) = Len(codes[2]) /\ Len(codes[3]) = Len(codes[2])
    /\ bits \in Seq(Digit) /\ literals \in Seq(Byte)
    /\ pending \in Nat /\ recent \in Known

\* What was written after mark a: literals up to where the parse is.
Ends(a) ==
    /\ a.pos + pending = i /\ a.lit + pending = Len(literals)
    /\ a.bit = Len(bits) /\ a.known = recent
    /\ Alike(literals, a.lit, bytes, a.pos, pending)

\* The streams tell of everything up to where the parse is.
Written == \E f, a : /\ Tape(f, Len(codes[2]), codes, bits, literals, bytes)
                     /\ a = f[Len(codes[2])] /\ Ends(a)

\* What a concatenation is.
LEMMA JoinFacts ==
    ASSUME NEW S, NEW s \in Seq(S), NEW t \in Seq(S)
    PROVE  /\ s \o t \in Seq(S) /\ Len(s \o t) = Len(s) + Len(t) /\ Extends(s, s \o t)
           /\ \A k \in 1 .. Len(t) : (s \o t)[Len(s) + k] = t[k]
<1>1. s \o t \in Seq(S) /\ Len(s \o t) = Len(s) + Len(t)
  OBVIOUS
<1>2. \A k \in 1 .. Len(s) : (s \o t)[k] = s[k]
  OBVIOUS
<1>3. \A k \in 1 .. Len(t) : (s \o t)[Len(s) + k] = t[k]
  OBVIOUS
<1>4. Len(s) <= Len(s \o t)
  BY <1>1
<1>. QED BY <1>1, <1>2, <1>3, <1>4 DEF Extends

\* What an Append is.
LEMMA AppendFacts ==
    ASSUME NEW S, NEW s \in Seq(S), NEW x \in S
    PROVE  /\ Append(s, x) \in Seq(S) /\ Len(Append(s, x)) = Len(s) + 1
           /\ Extends(s, Append(s, x)) /\ Append(s, x)[Len(s) + 1] = x
<1>1. /\ Append(s, x) \in Seq(S) /\ Len(Append(s, x)) = Len(s) + 1
      /\ \A k \in 1 .. Len(s) : Append(s, x)[k] = s[k]
      /\ Append(s, x)[Len(s) + 1] = x
  OBVIOUS
<1>. QED BY <1>1 DEF Extends

\* A sequence goes on with nothing.
LEMMA ExtendsItself == ASSUME NEW S, NEW s \in Seq(S) PROVE Extends(s, s)
  BY DEF Extends

\* A literal is told of at the end.
LEMMA LiteralStreams ==
    ASSUME Parsing, Streams, Written, Literal
    PROVE  Parsing' /\ Streams' /\ Written'
<1>. DEFINE n == Len(codes[2])
            ls == Append(literals, bytes[i])
<1>1. /\ i <= Len(bytes) /\ literals' = ls /\ pending' = pending + 1 /\ i' = i + 1
      /\ bytes' = bytes /\ recent' = recent /\ codes' = codes /\ bits' = bits
  BY DEF Literal
<1>2. i \in Nat \ {0} /\ Len(bytes) \in Nat /\ bytes[i] \in Byte /\ n \in Nat
  BY <1>1 DEF Parsing, Streams
<1>3. /\ ls \in Seq(Byte) /\ Len(ls) = Len(literals) + 1 /\ Extends(literals, ls)
      /\ ls[Len(literals) + 1] = bytes[i]
  BY <1>2, AppendFacts DEF Streams
<1>. HIDE DEF n, ls
<1>4. Parsing'
  BY <1>1, <1>2 DEF Parsing
<1>5. Streams'
  BY <1>1, <1>3, SMTT(30) DEF Streams
<1>6. PICK f, a : Tape(f, n, codes, bits, literals, bytes) /\ a = f[n] /\ Ends(a)
  BY DEF Written, n
<1>7. Tape(f, n, codes, bits, ls, bytes)
  <2>1. Extends(bits, bits)
    BY ExtendsItself DEF Streams
  <2>. QED BY <1>2, <1>3, <1>6, <2>1, TapeKept DEF Streams
<1>8. a \in Marks
  BY <1>2, <1>6 DEF Tape
<1>9. /\ a.pos + pending = i /\ a.lit + pending = Len(literals)
      /\ a.bit = Len(bits) /\ a.known = recent
      /\ Alike(literals, a.lit, bytes, a.pos, pending)
      /\ a.pos \in Nat \ {0} /\ a.lit \in Nat /\ pending \in Nat /\ Len(literals) \in Nat
  BY <1>6, <1>8 DEF Ends, Marks, Streams
<1>10. Alike(ls, a.lit, bytes, a.pos, pending + 1)
  <2>1. ASSUME NEW q \in 0 .. (pending + 1) - 1
        PROVE  ls[a.lit + 1 + q] = bytes[a.pos + q]
    <3>1. CASE q = pending
      <4>1. a.lit + 1 + q = Len(literals) + 1 /\ a.pos + q = i
        BY <1>9, <3>1
      <4>. QED BY <1>3, <4>1
    <3>2. CASE q # pending
      <4>1. q \in 0 .. pending - 1 /\ a.lit + 1 + q \in 1 .. Len(literals)
        BY <1>9, <3>2
      <4>2. literals[a.lit + 1 + q] = bytes[a.pos + q]
        BY <1>9, <4>1 DEF Alike
      <4>. QED BY <1>3, <4>1, <4>2 DEF Extends
    <3>. QED BY <3>1, <3>2
  <2>. QED BY <2>1 DEF Alike
<1>11. Ends(a)'
  <2>1. a.pos + (pending + 1) = i + 1 /\ a.lit + (pending + 1) = Len(literals) + 1
    BY <1>9
  <2>2. /\ a.pos + pending' = i' /\ a.lit + pending' = Len(literals')
        /\ a.bit = Len(bits') /\ a.known = recent'
    BY <1>1, <1>3, <1>9, <2>1
  <2>3. Alike(literals', a.lit, bytes', a.pos, pending')
    BY <1>1, <1>10
  <2>. QED BY <2>2, <2>3 DEF Ends
<1>12. Written'
  <2>1. Len(codes'[2]) = n
    BY <1>1 DEF n
  <2>2. Tape(f, Len(codes'[2]), codes', bits', literals', bytes')
    BY <1>1, <1>7, <2>1
  <2>3. a = f[Len(codes'[2])]
    BY <1>6, <2>1
  <2>. QED BY <1>11, <2>2, <2>3 DEF Written
<1>. QED BY <1>4, <1>5, <1>12

\* The match the encoder takes, and the code of its distance.
Longest == Max({Matching(j) : j \in Matches})
Distance == i - Max({j \in Matches : Matching(j) = Longest})
DistanceCode ==
    IF Distance \in Range(recent) THEN Min({r \in 1 .. 3 : recent[r] = Distance}) - 1
    ELSE 3 + Log2(Distance)

\* The match taken is behind, within the window, repeats what stands there, and its
\* distance is read back from its code.
LEMMA LongestFacts ==
    ASSUME Parsing, Table, recent \in Known, Matches # {}
    PROVE  /\ Longest \in MinMatch .. Left(i)
           /\ Distance \in 1 .. i - 1 /\ Distance <= Window
           /\ \A q \in 0 .. Longest - 1 : bytes[i + q] = bytes[i + q - Distance]
           /\ DistanceCode \in Nat
           /\ DistanceCode < 3 => recent[DistanceCode + 1] = Distance
           /\ ~ (DistanceCode < 3) => DistanceCode - 3 = Magnitude(Distance - 1)
<1>. DEFINE T == {Matching(j) : j \in Matches}
            U == {j \in Matches : Matching(j) = Longest}
<1>1. Left(i) \in Nat /\ i \in Nat \ {0} /\ Len(bytes) \in Nat /\ MinMatch \in Nat
  BY SizesAssumption DEF Parsing, Left
<1>2. \A j \in Matches : Matching(j) \in MinMatch .. Left(i) /\ j \in 1 .. i - 1
  BY MatchesFacts
<1>3. T \subseteq Nat /\ T # {} /\ \A b \in T : b <= Left(i)
  BY <1>1, <1>2
<1>4. Max(T) \in T
  <2>. HIDE DEF T
  <2>. QED BY <1>1, <1>3, MaxFacts
<1>5. Longest = Max(T)
  BY DEF Longest
<1>6. U \subseteq Nat /\ U # {} /\ \A b \in U : b <= i
  <2>1. PICK j \in Matches : Matching(j) = Longest
    BY <1>4, <1>5
  <2>2. j \in U
    BY <2>1
  <2>3. \A b \in U : b \in Nat /\ b <= i
    BY <1>1, <1>2
  <2>. HIDE DEF U
  <2>. QED BY <2>2, <2>3
<1>7. Max(U) \in U
  <2>. HIDE DEF U
  <2>. QED BY <1>1, <1>6, MaxFacts
<1>. DEFINE j == Max(U)
<1>8. j \in Matches /\ Matching(j) = Longest /\ Distance = i - j
  BY <1>7 DEF Distance
<1>. HIDE DEF j
<1>9. /\ j \in 1 .. i - 1 /\ i - j <= Window /\ Longest \in MinMatch .. Left(i)
      /\ \A k \in 0 .. Longest - 1 : bytes[i + k] = bytes[j + k]
  BY <1>8, MatchesFacts
<1>10. Distance \in 1 .. i - 1 /\ Distance <= Window
  BY <1>1, <1>8, <1>9
<1>11. \A q \in 0 .. Longest - 1 : bytes[i + q] = bytes[i + q - Distance]
  <2>1. ASSUME NEW q \in 0 .. Longest - 1
        PROVE  i + q - Distance = j + q
    <3>1. q \in Int
      BY <1>1, <1>9
    <3>. QED BY <1>1, <1>8, <1>9, <3>1
  <2>. QED BY <1>9, <2>1
<1>12. /\ DistanceCode \in Nat
       /\ DistanceCode < 3 => recent[DistanceCode + 1] = Distance
       /\ ~ (DistanceCode < 3) => DistanceCode - 3 = Magnitude(Distance - 1)
  <2>1. CASE Distance \in Range(recent)
    <3>. DEFINE R == {r \in 1 .. 3 : recent[r] = Distance}
    <3>1. R \subseteq Nat /\ R # {}
      BY <2>1 DEF Range, Known
    <3>2. Min(R) \in R
      <4>. HIDE DEF R
      <4>. QED BY <3>1, MinFacts
    <3>3. Min(R) \in 1 .. 3 /\ recent[Min(R)] = Distance
      BY <3>2
    <3>4. DistanceCode = Min(R) - 1
      BY <2>1 DEF DistanceCode
    <3>. HIDE DEF R
    <3>. QED BY <3>3, <3>4
  <2>2. CASE Distance \notin Range(recent)
    <3>1. DistanceCode = 3 + Log2(Distance)
      BY <2>2 DEF DistanceCode
    <3>2. (Distance - 1) + 1 = Distance /\ Distance \in Nat \ {0}
      BY <1>1, <1>10
    <3>3. Magnitude(Distance - 1) = Log2(Distance)
      BY <3>2 DEF Magnitude
    <3>4. Log2(Distance) \in Nat
      BY <3>2, Log2Facts
    <3>. QED BY <3>1, <3>3, <3>4
  <2>. QED BY <2>1, <2>2
<1>. QED BY <1>9, <1>10, <1>11, <1>12

\* Digits ds are bs and then b1, b2 and b3.
Follow(ds, bs, b1, b2, b3) ==
    /\ ds \in Seq(Digit) /\ Extends(bs, ds)
    /\ Len(ds) = Len(bs) + Len(b1) + Len(b2) + Len(b3)
    /\ \A k \in 1 .. Len(b1) : ds[Len(bs) + k] = b1[k]
    /\ \A k \in 1 .. Len(b2) : ds[Len(bs) + Len(b1) + k] = b2[k]
    /\ \A k \in 1 .. Len(b3) : ds[Len(bs) + Len(b1) + Len(b2) + k] = b3[k]
Joined(bs, b1, b2, b3) == bs \o b1 \o b2 \o b3

\* Three numbers written one after the other stand where they are read.
LEMMA JoinedThrice ==
    ASSUME NEW bs \in Seq(Digit), NEW b1 \in Seq(Digit), NEW b2 \in Seq(Digit),
           NEW b3 \in Seq(Digit), NEW ds, ds = Joined(bs, b1, b2, b3)
    PROVE  Follow(ds, bs, b1, b2, b3)
<1>1. PICK s1 \in Seq(Digit) : s1 = bs \o b1
  <2>1. bs \o b1 \in Seq(Digit)
    BY JoinFacts
  <2>. QED BY <2>1
<1>2. PICK s2 \in Seq(Digit) : s2 = s1 \o b2
  <2>1. s1 \o b2 \in Seq(Digit)
    BY JoinFacts
  <2>. QED BY <2>1
<1>3. ds = s2 \o b3
  BY <1>1, <1>2 DEF Joined
<1>4. Len(s1) = Len(bs) + Len(b1) /\ Extends(bs, s1) /\ \A k \in 1 .. Len(b1) : s1[Len(bs) + k] = b1[k]
  BY <1>1, JoinFacts
<1>5. Len(s2) = Len(s1) + Len(b2) /\ Extends(s1, s2) /\ \A k \in 1 .. Len(b2) : s2[Len(s1) + k] = b2[k]
  BY <1>2, JoinFacts
<1>6. /\ ds \in Seq(Digit) /\ Len(ds) = Len(s2) + Len(b3) /\ Extends(s2, ds)
      /\ \A k \in 1 .. Len(b3) : ds[Len(s2) + k] = b3[k]
  BY <1>3, JoinFacts
<1>7. Len(bs) \in Nat /\ Len(b1) \in Nat /\ Len(b2) \in Nat /\ Len(b3) \in Nat
  OBVIOUS
<1>8. \A k \in 1 .. Len(s1) : k \in 1 .. Len(s2) /\ s2[k] = s1[k]
  BY <1>4, <1>5, <1>7 DEF Extends
<1>9. \A k \in 1 .. Len(s2) : ds[k] = s2[k]
  BY <1>6 DEF Extends
<1>10. \A k \in 1 .. Len(b1) : Len(bs) + k \in 1 .. Len(s1)
  BY <1>4, <1>7
<1>11. \A k \in 1 .. Len(b2) : Len(s1) + k \in 1 .. Len(s2)
  BY <1>4, <1>5, <1>7
<1>12. \A k \in 1 .. Len(bs) : k \in 1 .. Len(s1) /\ s1[k] = bs[k]
  BY <1>4, <1>7 DEF Extends
<1>13. Len(ds) = Len(bs) + Len(b1) + Len(b2) + Len(b3)
  BY <1>4, <1>5, <1>6
<1>14. Extends(bs, ds)
  <2>1. Len(bs) <= Len(ds)
    BY <1>7, <1>13
  <2>. QED BY <1>8, <1>9, <1>12, <2>1 DEF Extends
<1>15. \A k \in 1 .. Len(b1) : ds[Len(bs) + k] = b1[k]
  BY <1>4, <1>8, <1>9, <1>10
<1>16. \A k \in 1 .. Len(b2) : ds[Len(bs) + Len(b1) + k] = b2[k]
  BY <1>4, <1>5, <1>9, <1>11
<1>17. \A k \in 1 .. Len(b3) : ds[Len(bs) + Len(b1) + Len(b2) + k] = b3[k]
  BY <1>4, <1>5, <1>6
<1>. QED BY <1>6, <1>13, <1>14, <1>15, <1>16, <1>17 DEF Follow

\* What the distance leaves open.
Open == IF DistanceCode < 3 THEN <<>> ELSE Below(Distance - 1)

\* What Match does, by these names.
LEMMA MatchMoves ==
    ASSUME Match
    PROVE  /\ i <= Len(bytes) /\ Matches # {}
           /\ codes' = <<Append(codes[1], Magnitude(pending)),
                         Append(codes[2], Magnitude(Longest - MinMatch)),
                         Append(codes[3], DistanceCode)>>
           /\ bits' = bits \o Below(pending) \o Below(Longest - MinMatch) \o Open
           /\ recent' = Update(recent, Distance) /\ pending' = 0
           /\ head' = Inserted(i, LastInserted(i + Longest - 1)).head
           /\ chain' = Inserted(i, LastInserted(i + Longest - 1)).chain
           /\ i' = i + Longest /\ bytes' = bytes /\ literals' = literals
  BY DEF Match, Longest, Distance, DistanceCode, Open

\* A match is told of by one more sequence.
LEMMA MatchStreams ==
    ASSUME Parsing, Table, Streams, Written, Match
    PROVE  Parsing' /\ Streams' /\ Written'
<1>. DEFINE n == Len(codes[2])
            L == Longest
            D == Distance
            c1 == Magnitude(pending)
            c2 == Magnitude(Longest - MinMatch)
            c3 == DistanceCode
            b1 == Below(pending)
            b2 == Below(Longest - MinMatch)
            b3 == Open
<1>1. PICK ds : ds = bits'
  OBVIOUS
<1>2. PICK es : es = codes'
  OBVIOUS
<1>3. /\ es = <<Append(codes[1], c1), Append(codes[2], c2), Append(codes[3], c3)>>
      /\ ds = bits \o b1 \o b2 \o b3
      /\ i <= Len(bytes) /\ Matches # {} /\ recent' = Update(recent, D) /\ pending' = 0
      /\ i' = i + L /\ bytes' = bytes /\ literals' = literals
  BY <1>1, <1>2, MatchMoves
<1>4. /\ i \in Nat \ {0} /\ Len(bytes) \in Nat /\ n \in Nat /\ MinMatch \in Nat \ {0}
      /\ pending \in Nat /\ recent \in Known /\ literals \in Seq(Byte) /\ bits \in Seq(Digit)
      /\ codes[1] \in Seq(Nat) /\ codes[2] \in Seq(Nat) /\ codes[3] \in Seq(Nat)
      /\ Len(codes[1]) = n /\ Len(codes[3]) = n
  BY SizesAssumption, SMTT(30) DEF Parsing, Streams
<1>5. /\ L \in MinMatch .. Left(i) /\ D \in 1 .. i - 1 /\ D <= Window
      /\ \A q \in 0 .. L - 1 : bytes[i + q] = bytes[i + q - D]
      /\ c3 \in Nat
      /\ c3 < 3 => recent[c3 + 1] = D
      /\ ~ (c3 < 3) => c3 - 3 = Magnitude(D - 1)
  BY <1>3, <1>4, LongestFacts
<1>6. /\ L - MinMatch \in Nat /\ D - 1 \in Nat /\ i + L \in 1 .. Len(bytes) + 1
      /\ L \in Nat /\ D \in Nat \ {0} /\ MinMatch <= L
  <2>1. Left(i) \in Int /\ i + Left(i) = Len(bytes) + 1
    BY <1>4 DEF Left
  <2>. HIDE DEF L, D
  <2>. QED BY <1>4, <1>5, <2>1, SMTT(30)
<1>7. /\ c1 \in Nat /\ b1 \in Seq(Digit) /\ Len(b1) = c1
      /\ c2 \in Nat /\ b2 \in Seq(Digit) /\ Len(b2) = c2
  BY <1>4, <1>6, ValuedBack
<1>8. /\ b3 \in Seq(Digit)
      /\ Len(b3) = IF c3 < 3 THEN 0 ELSE c3 - 3
      /\ ~ (c3 < 3) => b3 = Below(D - 1) /\ c3 - 3 = Magnitude(D - 1)
  <2>1. CASE c3 < 3
    <3>1. b3 = <<>>
      BY <2>1 DEF Open
    <3>. QED BY <2>1, <3>1
  <2>2. CASE ~ (c3 < 3)
    <3>1. b3 = Below(D - 1)
      BY <2>2 DEF Open
    <3>2. b3 \in Seq(Digit) /\ Len(b3) = Magnitude(D - 1)
      BY <1>6, <3>1, ValuedBack
    <3>. QED BY <1>5, <2>2, <3>1, <3>2
  <2>. QED BY <2>1, <2>2
<1>. DEFINE r == Update(recent, D)
<1>9. r \in Known
  BY <1>4, <1>6, UpdateKnown
<1>10. Parsing'
  BY <1>3, <1>6 DEF Parsing
<1>11. b1 = Below(pending) /\ b2 = Below(L - MinMatch) /\ c1 = Magnitude(pending) /\ c2 = Magnitude(L - MinMatch)
  OBVIOUS
<1>. HIDE DEF n, L, D, c1, c2, c3, b1, b2, b3, r
<1>12. /\ ds \in Seq(Digit) /\ Extends(bits, ds)
       /\ Len(ds) = Len(bits) + Len(b1) + Len(b2) + Len(b3)
       /\ \A k \in 1 .. Len(b1) : ds[Len(bits) + k] = b1[k]
       /\ \A k \in 1 .. Len(b2) : ds[Len(bits) + Len(b1) + k] = b2[k]
       /\ \A k \in 1 .. Len(b3) : ds[Len(bits) + Len(b1) + Len(b2) + k] = b3[k]
  <2>1. bits \in Seq(Digit) /\ b1 \in Seq(Digit) /\ b2 \in Seq(Digit) /\ b3 \in Seq(Digit)
    BY <1>4, <1>7, <1>8
  <2>2. ds = bits \o b1 \o b2 \o b3
    BY <1>3
  <2>3. ds = Joined(bits, b1, b2, b3)
    BY <2>2 DEF Joined
  <2>4. Follow(ds, bits, b1, b2, b3)
    BY <2>1, <2>3, JoinedThrice
  <2>. QED BY <2>4 DEF Follow
<1>13. /\ es = <<es[1], es[2], es[3]>>
       /\ es[1] \in Seq(Nat) /\ es[2] \in Seq(Nat) /\ es[3] \in Seq(Nat)
       /\ Len(es[1]) = n + 1 /\ Len(es[2]) = n + 1 /\ Len(es[3]) = n + 1
       /\ es[1][n + 1] = c1 /\ es[2][n + 1] = c2 /\ es[3][n + 1] = c3
       /\ \A k \in 1 .. n : es[1][k] = codes[1][k] /\ es[2][k] = codes[2][k] /\ es[3][k] = codes[3][k]
  <2>1. es[1] = Append(codes[1], c1) /\ es[2] = Append(codes[2], c2) /\ es[3] = Append(codes[3], c3)
    BY <1>3
  <2>2. es = <<es[1], es[2], es[3]>>
    BY <1>3
  <2>3. Len(codes[2]) = n
    BY DEF n
  <2>4. /\ es[1] \in Seq(Nat) /\ Len(es[1]) = n + 1 /\ Extends(codes[1], es[1]) /\ es[1][n + 1] = c1
    <3>1. codes[1] \in Seq(Nat) /\ c1 \in Nat /\ Len(codes[1]) = n
      BY <1>4, <1>7
    <3>. QED BY <2>1, <3>1, AppendFacts
  <2>5. /\ es[2] \in Seq(Nat) /\ Len(es[2]) = n + 1 /\ Extends(codes[2], es[2]) /\ es[2][n + 1] = c2
    <3>1. codes[2] \in Seq(Nat) /\ c2 \in Nat /\ Len(codes[2]) = n
      BY <1>4, <1>7, <2>3
    <3>. QED BY <2>1, <3>1, AppendFacts
  <2>6. /\ es[3] \in Seq(Nat) /\ Len(es[3]) = n + 1 /\ Extends(codes[3], es[3]) /\ es[3][n + 1] = c3
    <3>1. codes[3] \in Seq(Nat) /\ c3 \in Nat /\ Len(codes[3]) = n
      BY <1>4, <1>5
    <3>. QED BY <2>1, <3>1, AppendFacts, SMTT(30)
  <2>7. \A k \in 1 .. n : es[1][k] = codes[1][k] /\ es[2][k] = codes[2][k] /\ es[3][k] = codes[3][k]
    BY <1>4, <2>3, <2>4, <2>5, <2>6 DEF Extends
  <2>. QED BY <2>2, <2>4, <2>5, <2>6, <2>7
<1>14. Streams'
  <2>1. pending' \in Nat /\ recent' \in Known /\ literals' \in Seq(Byte) /\ bits' \in Seq(Digit)
    BY <1>1, <1>3, <1>4, <1>9, <1>12 DEF r
  <2>. QED BY <1>2, <1>13, <2>1 DEF Streams
<1>15. PICK f, a : Tape(f, n, codes, bits, literals, bytes) /\ a = f[n] /\ Ends(a)
  BY DEF Written, n
<1>16. Tape(f, n, es, ds, literals, bytes)
  <2>1. Extends(literals, literals)
    BY <1>4, ExtendsItself
  <2>. QED BY <1>4, <1>12, <1>13, <1>15, <2>1, TapeKept
<1>17. a \in Marks /\ n * MinMatch + a.lit < a.pos
  <2>1. n \in 0 .. n
    BY <1>4
  <2>. QED BY <1>15, <2>1 DEF Tape
<1>18. /\ a.pos + pending = i /\ a.lit + pending = Len(literals)
       /\ a.bit = Len(bits) /\ a.known = recent
       /\ Alike(literals, a.lit, bytes, a.pos, pending)
       /\ a.pos \in Nat \ {0} /\ a.lit \in Nat /\ a.bit \in Nat /\ Len(literals) \in Nat
  BY <1>4, <1>15, <1>17 DEF Ends, Marks
<1>. DEFINE b == [pos |-> i + L, lit |-> Len(literals), bit |-> Len(ds), known |-> r]
<1>19. /\ b \in Marks /\ b.pos = i + L /\ b.lit = Len(literals) /\ b.bit = Len(ds) /\ b.known = r
  <2>1. i + L \in Nat \ {0} /\ Len(ds) \in Nat
    BY <1>4, <1>6, <1>12
  <2>. QED BY <1>9, <1>18, <2>1 DEF Marks
<1>. HIDE DEF b
<1>20. (n + 1) * MinMatch + b.lit < b.pos
  <2>1. (n + 1) * MinMatch = n * MinMatch + MinMatch /\ n * MinMatch \in Nat
    BY <1>4
  <2>2. PICK p \in Nat : p = n * MinMatch
    BY <2>1
  <2>3. p + MinMatch + Len(literals) < i + L
    <3>1. p + a.lit < a.pos
      BY <1>17, <2>2
    <3>2. p + Len(literals) < i
      BY <1>4, <1>18, <3>1, SMTT(30)
    <3>. QED BY <1>4, <1>6, <1>18, <3>2, SMTT(30)
  <2>4. (n + 1) * MinMatch = p + MinMatch
    BY <2>1, <2>2
  <2>. QED BY <1>19, <2>3, <2>4
<1>21. Leads(a, b, c1, c2, c3, ds, literals, bytes)
  <2>0. PICK rn \in Nat, l \in Nat, d \in Nat \ {0} : rn = pending /\ l = L /\ d = D
    BY <1>4, <1>6
  <2>1. a.pos + pending + L = b.pos /\ b.lit = a.lit + pending /\ D < a.pos + pending
    <3>1. a.pos + pending + L = b.pos
      BY <1>18, <1>19
    <3>2. b.lit = a.lit + pending
      BY <1>18, <1>19
    <3>3. D < i
      BY <1>4, <1>5
    <3>. QED BY <1>18, <3>1, <3>2, <3>3
  <2>2. b.bit = a.bit + c1 + c2 + IF c3 < 3 THEN 0 ELSE c3 - 3
    BY <1>7, <1>8, <1>12, <1>18, <1>19
  <2>3. Len(bits) \in Nat /\ Len(ds) = Len(bits) + c1 + c2 + (IF c3 < 3 THEN 0 ELSE c3 - 3)
    BY <1>4, <1>7, <1>8, <1>12
  <2>4. Coded(ds, c1, a.bit) = pending
    <3>1. a.bit + c1 <= Len(ds)
      BY <1>5, <1>7, <1>18, <2>3
    <3>2. \A k \in 1 .. c1 : ds[a.bit + k] = b1[k]
      BY <1>7, <1>12, <1>18
    <3>. QED BY <1>4, <1>11, <1>12, <1>18, <3>1, <3>2, CodedBack, ZenonT(30)
  <2>5. Coded(ds, c2, a.bit + c1) + MinMatch = L
    <3>1. (a.bit + c1) + c2 <= Len(ds) /\ a.bit + c1 \in Nat
      BY <1>5, <1>7, <1>18, <2>3
    <3>2. \A k \in 1 .. c2 : ds[(a.bit + c1) + k] = b2[k]
      BY <1>7, <1>12, <1>18
    <3>3. Coded(ds, c2, a.bit + c1) = L - MinMatch
      BY <1>6, <1>11, <1>12, <3>1, <3>2, CodedBack, ZenonT(30)
    <3>. QED BY <1>4, <1>6, <3>3
  <2>6. D = IF c3 < 3 THEN a.known[c3 + 1] ELSE Coded(ds, c3 - 3, a.bit + c1 + c2) + 1
    <3>1. CASE c3 < 3
      BY <1>5, <1>18, <3>1
    <3>2. CASE ~ (c3 < 3)
      <4>1. (a.bit + c1 + c2) + (c3 - 3) <= Len(ds) /\ a.bit + c1 + c2 \in Nat
        BY <1>5, <1>7, <1>18, <2>3, <3>2
      <4>2. \A k \in 1 .. c3 - 3 : ds[(a.bit + c1 + c2) + k] = b3[k]
        BY <1>7, <1>8, <1>12, <1>18, <3>2
      <4>3. Coded(ds, c3 - 3, a.bit + c1 + c2) = D - 1
        <5>1. /\ c3 - 3 = Magnitude(D - 1) /\ b3 = Below(D - 1)
              /\ ds \in Seq(Digit) /\ D - 1 \in Nat
          BY <1>6, <1>8, <1>12, <3>2
        <5>. QED BY <4>1, <4>2, <5>1, CodedBack
      <4>. QED BY <1>6, <3>2, <4>3
    <3>. QED BY <3>1, <3>2
  <2>7. \A q \in 0 .. L - 1 : bytes[a.pos + pending + q] = bytes[a.pos + pending + q - D]
    BY <1>5, <1>18
  <2>8. b.known = Update(a.known, D)
    BY <1>18, <1>19 DEF r
  <2>. SUFFICES \E x \in Nat, y \in Nat, z \in Nat \ {0} :
          /\ Coded(ds, c1, a.bit) = x
          /\ Coded(ds, c2, a.bit + c1) + MinMatch = y
          /\ z = IF c3 < 3 THEN a.known[c3 + 1] ELSE Coded(ds, c3 - 3, a.bit + c1 + c2) + 1
          /\ b.pos = a.pos + x + y /\ b.lit = a.lit + x
          /\ b.known = Update(a.known, z)
          /\ Alike(literals, a.lit, bytes, a.pos, x)
          /\ z <= Window /\ z < a.pos + x
          /\ \A q \in 0 .. y - 1 : bytes[a.pos + x + q] = bytes[a.pos + x + q - z]
    BY <1>5, <1>7, <2>2, Zenon DEF Leads
  <2>. WITNESS rn \in Nat, l \in Nat, d \in Nat \ {0}
  <2>. QED BY <1>5, <1>18, <2>0, <2>1, <2>4, <2>5, <2>6, <2>7, <2>8
<1>22. PICK g : Tape(g, n + 1, es, ds, literals, bytes) /\ g[n + 1] = b
  <2>1. b.pos <= Len(bytes) + 1 /\ b.bit <= Len(ds) /\ b.lit <= Len(literals)
    <3>1. Len(ds) \in Int /\ Len(literals) \in Int
      BY <1>12, <1>18
    <3>. QED BY <1>4, <1>6, <1>19, <3>1
  <2>2. Leads(f[n], b, es[1][n + 1], es[2][n + 1], es[3][n + 1], ds, literals, bytes)
    BY <1>13, <1>15, <1>21
  <2>3. n \in Nat /\ b \in Marks
    BY <1>4, <1>19
  <2>. HIDE DEF Leads, Tape
  <2>. QED BY <1>16, <1>20, <2>1, <2>2, <2>3, TapeGrows
<1>23. PICK bb : bb = b
  OBVIOUS
<1>24. Ends(bb)'
  <2>1. bb.pos + 0 = i + L /\ bb.lit + 0 = Len(literals)
    <3>1. i + L \in Int
      BY <1>4, <1>6
    <3>. QED BY <1>18, <1>19, <1>23, <3>1
  <2>2. /\ bb.pos + pending' = i' /\ bb.lit + pending' = Len(literals')
        /\ bb.bit = Len(bits') /\ bb.known = recent'
    BY <1>1, <1>3, <1>19, <1>23, <2>1 DEF r
  <2>3. Alike(literals', bb.lit, bytes', bb.pos, pending')
    BY <1>3 DEF Alike
  <2>. QED BY <2>2, <2>3 DEF Ends
<1>25. Written'
  <2>1. Len(codes'[2]) = n + 1
    BY <1>2, <1>13
  <2>2. Tape(g, Len(codes'[2]), codes', bits', literals', bytes')
    BY <1>1, <1>2, <1>3, <1>22, <2>1
  <2>3. bb = g[Len(codes'[2])]
    BY <1>22, <1>23, <2>1
  <2>. QED BY <1>24, <2>2, <2>3 DEF Written
<1>. QED BY <1>10, <1>14, <1>25

-----------------------------------------------------------------------------
(* What is written of the map.                                             *)

\* The map fits its width, and bytes are the map packed.
Packed ==
    LET w == Width(Max(Range(ids)))
    IN  /\ w \in 1 .. ByteBits /\ ids \in Seq(0 .. Two[w] - 1)
        /\ bytes = Pack(ids, w)

\* The last run of literals, after mark a, ends what is told of bytes bt.
LastRun(a, c, bs, ls, bt) ==
    LET run == Len(bt) + 1 - a.pos
    IN  /\ run \in Nat /\ c \in Nat /\ a.bit + c <= Len(bs)
        /\ Coded(bs, c, a.bit) = run
        /\ a.lit + run = Len(ls)
        /\ Alike(ls, a.lit, bt, a.pos, run)
        /\ Bytes(a.bit + c) = Bytes(Len(bs))
        /\ \A j \in a.bit + c + 1 .. Len(bs) : bs[j] = 0

\* With marks f the file tells of map m.
Tells(fl, m, f) ==
    /\ fl.width \in 1 .. ByteBits /\ m \in Seq(0 .. Two[fl.width] - 1)
    /\ fl.matches \in Nat /\ fl.bits \in Seq(Digit) /\ fl.literals \in Seq(Byte)
    /\ Tape(f, fl.matches, fl.codes, fl.bits, fl.literals, Pack(m, fl.width))
    /\ LastRun(f[fl.matches], fl.codes[1][fl.matches + 1], fl.bits, fl.literals, Pack(m, fl.width))

\* The width chosen for a map with two choices holds every choice.
LEMMA WidthOfMap ==
    ASSUME NEW m \in Seq(Byte), NEW j \in DOMAIN m, m[j] # m[1]
    PROVE  /\ Width(Max(Range(m))) \in 1 .. ByteBits
           /\ m \in Seq(0 .. Two[Width(Max(Range(m)))] - 1)
<1>. DEFINE T == Range(m)
            x == Max(T)
            b == Two[ByteBits]
<1>1. b \in Nat \ {0}
  BY SizesAssumption, TwoFacts
<1>2. Byte = 0 .. b - 1
  BY DEF Byte
<1>3. 1 \in DOMAIN m /\ \A k \in DOMAIN m : m[k] \in Byte /\ m[k] \in T
  BY DEF Range
<1>4. T \subseteq Byte
  BY <1>3 DEF Range
<1>. HIDE DEF b, T
<1>5. T \subseteq Nat /\ T # {} /\ \A y \in T : y <= b
  BY <1>1, <1>2, <1>3, <1>4
<1>6. x \in T /\ \A y \in T : y <= x
  BY <1>1, <1>5, MaxFacts
<1>. HIDE DEF x
<1>7. x \in Nat \ {0} /\ x < b
  <2>1. x \in Nat /\ x < b
    BY <1>1, <1>2, <1>4, <1>6
  <2>2. m[j] <= x /\ m[1] <= x /\ m[j] \in Nat /\ m[1] \in Nat
    BY <1>1, <1>2, <1>3, <1>6
  <2>. QED BY <2>1, <2>2
<1>8. Width(x) \in 1 .. ByteBits /\ x < Two[Width(x)]
  BY <1>7, WidthFacts DEF b
<1>9. m \in Seq(0 .. Two[Width(x)] - 1)
  <2>. DEFINE e == Two[Width(x)]
  <2>1. e \in Nat /\ x < e
    <3>1. Width(x) \in Nat
      BY SizesAssumption, <1>8
    <3>. QED BY <1>8, <3>1, TwoFacts
  <2>. HIDE DEF e
  <2>2. \A k \in 1 .. Len(m) : m[k] \in 0 .. e - 1
    <3>1. ASSUME NEW k \in 1 .. Len(m)
          PROVE  m[k] \in 0 .. e - 1
      <4>1. k \in DOMAIN m
        OBVIOUS
      <4>2. m[k] \in Nat /\ m[k] <= x
        BY <1>3, <1>5, <1>6, <4>1
      <4>. QED BY <1>7, <2>1, <4>2
    <3>. QED BY <3>1
  <2>3. m = [k \in 1 .. Len(m) |-> m[k]] /\ Len(m) \in Nat
    OBVIOUS
  <2>4. PICK l \in Nat : l = Len(m)
    BY <2>3
  <2>. DEFINE E == 0 .. e - 1
  <2>5. \A k \in 1 .. l : m[k] \in E
    BY <2>2, <2>4
  <2>6. m \in Seq(E)
    <3>. HIDE DEF E
    <3>1. [k \in 1 .. l |-> m[k]] \in Seq(E)
      BY <2>5
    <3>. QED BY <2>3, <2>4, <3>1
  <2>. QED BY <2>6 DEF e
<1>. QED BY <1>8, <1>9 DEF x, T

\* What the encoder starts from.
Fresh ==
    /\ i = 1 /\ head = [h \in Hashes |-> None] /\ recent = FirstRecent /\ pending = 0
    /\ codes = <<<<>>, <<>>, <<>>>> /\ bits = <<>> /\ literals = <<>>

\* A map packed is bytes.
LEMMA PackIsBytes ==
    ASSUME NEW w \in 1 .. ByteBits, NEW m \in Seq(0 .. Two[w] - 1)
    PROVE  Pack(m, w) \in Seq(Byte) /\ Len(Pack(m, w)) = Bytes(w * Len(m)) /\ w \in Nat \ {0}
<1>1. w \in Nat \ {0}
  BY SizesAssumption
<1>. QED BY <1>1, PackFacts

\* The parse starts with a table that leads nowhere, nothing written and nothing told.
LEMMA PickParse ==
    ASSUME Fresh, Pick, pc' = "parse"
    PROVE  Parsing' /\ Table' /\ Streams' /\ Written' /\ Packed'
<1>1. PICK j \in DOMAIN ids' : ids'[j] # ids'[1]
  BY DEF Pick
<1>2. /\ ids' \in Seq(Byte)
      /\ bytes' = Pack(ids', Width(Max(Range(ids'))))
      /\ chain' = [k \in DOMAIN bytes' |-> Unwritten]
      /\ i' = 1 /\ head' = [h \in Hashes |-> None] /\ recent' = FirstRecent /\ pending' = 0
      /\ codes' = <<<<>>, <<>>, <<>>>> /\ bits' = <<>> /\ literals' = <<>>
  <2>1. ids' \in Inputs
    BY DEF Pick
  <2>2. ids' \in Seq(Byte)
    BY <2>1, InputsAssumption
  <2>. QED BY <1>1, <2>2 DEF Pick, Fresh
<1>3. Packed'
  <2>1. PICK m : m = ids'
    OBVIOUS
  <2>2. /\ Width(Max(Range(m))) \in 1 .. ByteBits
        /\ m \in Seq(0 .. Two[Width(Max(Range(m)))] - 1)
    BY <1>1, <1>2, <2>1, WidthOfMap
  <2>. QED BY <1>2, <2>1, <2>2 DEF Packed
<1>4. bytes' \in Seq(Byte)
  <2>1. PICK m, w : m = ids' /\ w = Width(Max(Range(ids')))
    OBVIOUS
  <2>2. w \in 1 .. ByteBits /\ m \in Seq(0 .. Two[w] - 1) /\ bytes' = Pack(m, w)
    BY <1>3, <2>1 DEF Packed
  <2>. QED BY <2>2, PackIsBytes
<1>5. Parsing'
  BY <1>2, <1>4 DEF Parsing
<1>6. Table'
  <2>0. \A s \in Seq(Byte) : DOMAIN s = 1 .. Len(s)
    OBVIOUS
  <2>1. DOMAIN bytes' = 1 .. Len(bytes')
    <3>1. PICK bt \in Seq(Byte) : bt = bytes'
      BY <1>4
    <3>. QED BY <2>0, <3>1
  <2>2. \A h \in Hashes : Links(head'[h], i')
    BY <1>2 DEF Links
  <2>3. 1 .. i' - 1 = {}
    BY <1>2
  <2>. QED BY <1>2, <2>1, <2>2, <2>3 DEF Table
<1>7. Streams'
  <2>1. <<>> \in Seq(Nat) /\ <<>> \in Seq(Digit) /\ <<>> \in Seq(Byte) /\ FirstRecent \in Known
    BY SizesAssumption DEF Known
  <2>2. codes'[1] = <<>> /\ codes'[2] = <<>> /\ codes'[3] = <<>>
    BY <1>2
  <2>. QED BY <1>2, <2>1, <2>2 DEF Streams
<1>8. Written'
  <2>. DEFINE f == [k \in 0 .. 0 |-> FirstMark]
  <2>0. PICK bt \in Seq(Byte) : bt = bytes'
    BY <1>4
  <2>1. PICK g, a : g = f /\ a = FirstMark
    OBVIOUS
  <2>2. g[0] = a /\ a \in Marks
    BY SizesAssumption, <2>1 DEF FirstMark, Marks, Known
  <2>3. a.pos = 1 /\ a.lit = 0 /\ a.bit = 0 /\ a.known = FirstRecent
    BY <2>1 DEF FirstMark
  <2>4. codes'[2] = <<>> /\ Len(codes'[2]) = 0 /\ Len(bits') = 0 /\ Len(literals') = 0
    BY <1>2
  <2>5. Ends(a)'
    <3>1. a.pos + pending' = i' /\ a.lit + pending' = Len(literals')
          /\ a.bit = Len(bits') /\ a.known = recent'
      BY <1>2, <2>3, <2>4
    <3>2. Alike(literals', a.lit, bytes', a.pos, pending')
      BY <1>2 DEF Alike
    <3>. QED BY <3>1, <3>2 DEF Ends
  <2>6. ASSUME NEW cs, NEW bs, NEW ls, Len(bs) = 0, Len(ls) = 0
        PROVE  Tape(g, 0, cs, bs, ls, bt)
    <3>1. \A k \in 0 .. 0 :
          /\ g[k] \in Marks
          /\ g[k].pos <= Len(bt) + 1 /\ g[k].bit <= Len(bs) /\ g[k].lit <= Len(ls)
          /\ k * MinMatch + g[k].lit < g[k].pos
      <4>1. g[0].pos <= Len(bt) + 1
        <5>1. Len(bt) \in Nat
          BY <2>0
        <5>. QED BY <2>2, <2>3, <5>1
      <4>2. 0 * MinMatch = 0
        BY SizesAssumption
      <4>. QED BY <2>2, <2>3, <2>6, <4>1, <4>2
    <3>2. g[0] = FirstMark /\ 1 .. 0 = {}
      BY <2>1, <2>2
    <3>. QED BY <3>1, <3>2 DEF Tape
  <2>7. Tape(g, Len(codes'[2]), codes', bits', literals', bytes')
    BY <2>0, <2>4, <2>6
  <2>. QED BY <2>2, <2>4, <2>5, <2>7 DEF Written
<1>. QED BY <1>3, <1>5, <1>6, <1>7, <1>8

\* What the encoder keeps of the parse tells of the map.
LEMMA KeepTells ==
    ASSUME Parsing, Streams, Written, Packed, i > Len(bytes)
    PROVE  \E f : Tells(LZFile, ids, f)
<1>. DEFINE n == Len(codes[2])
            c == Magnitude(pending)
            bl == Below(pending)
            w == Width(Max(Range(ids)))
<1>1. PICK f, a : Tape(f, n, codes, bits, literals, bytes) /\ a = f[n] /\ Ends(a)
  BY DEF Written
<1>2. PICK m, bt : m = ids /\ bt = bytes
  OBVIOUS
<1>3. PICK js, ds, es : js = bits \o bl /\ ds = Flush(js)
                        /\ es = <<Append(codes[1], c), codes[2], codes[3]>>
  OBVIOUS
<1>4. PICK fl : fl = LZFile
  OBVIOUS
<1>5. /\ fl.width = w /\ fl.matches = n /\ fl.codes = es /\ fl.bits = ds /\ fl.literals = literals
  BY <1>3, <1>4 DEF LZFile
<1>6. w \in 1 .. ByteBits /\ m \in Seq(0 .. Two[w] - 1) /\ bt = Pack(m, w)
  BY <1>2 DEF Packed
<1>7. /\ n \in Nat /\ Len(codes[1]) = n /\ codes[1] \in Seq(Nat) /\ bits \in Seq(Digit)
      /\ literals \in Seq(Byte) /\ pending \in Nat /\ bt \in Seq(Byte)
  BY <1>2 DEF Streams, Parsing
<1>8. c \in Nat /\ bl \in Seq(Digit) /\ Len(bl) = c
  BY <1>7, ValuedBack
<1>9. i = Len(bt) + 1 /\ Len(bt) \in Nat
  <2>1. i \in 1 .. Len(bt) + 1 /\ Len(bt) \in Nat /\ i > Len(bt)
    BY <1>2, <1>7 DEF Parsing
  <2>. QED BY <2>1
<1>. HIDE DEF n, w
<1>10. n \in 0 .. n
  BY <1>7
<1>11. a \in Marks
  BY <1>1, <1>10 DEF Tape
<1>12. /\ a.pos + pending = i /\ a.lit + pending = Len(literals) /\ a.bit = Len(bits)
       /\ Alike(literals, a.lit, bt, a.pos, pending)
       /\ a.pos \in Nat \ {0} /\ a.lit \in Nat /\ a.bit \in Nat
  BY <1>1, <1>2, <1>11 DEF Ends, Marks
<1>13. PICK v \in Nat : v = pending
  BY <1>7
<1>14. c = Magnitude(v) /\ bl = Below(v)
  BY <1>13
<1>. HIDE DEF c, bl
<1>15. /\ js \in Seq(Digit) /\ Len(js) = a.bit + c /\ Extends(bits, js)
       /\ \A k \in 1 .. c : js[a.bit + k] = bl[k]
  <2>1. /\ bits \o bl \in Seq(Digit) /\ Len(bits \o bl) = Len(bits) + Len(bl) /\ Extends(bits, bits \o bl)
        /\ \A k \in 1 .. Len(bl) : (bits \o bl)[Len(bits) + k] = bl[k]
    BY <1>7, <1>8, JoinFacts
  <2>. QED BY <1>3, <1>8, <1>12, <2>1
<1>16. /\ ds \in Seq(Digit) /\ Len(js) <= Len(ds)
       /\ \A k \in 1 .. Len(js) : ds[k] = js[k]
       /\ \A k \in Len(js) + 1 .. Len(ds) : ds[k] = 0
       /\ Bytes(Len(ds)) = Bytes(Len(js))
  BY <1>3, <1>15, FlushFacts
<1>17. Extends(bits, ds)
  <2>1. Len(bits) \in Nat /\ Len(js) \in Nat /\ Len(ds) \in Nat /\ Len(bits) <= Len(js)
    BY <1>7, <1>15, <1>16 DEF Extends
  <2>2. Len(bits) <= Len(ds)
    BY <1>16, <2>1
  <2>3. \A k \in 1 .. Len(bits) : k \in 1 .. Len(js) /\ js[k] = bits[k]
    BY <1>15, <2>1 DEF Extends
  <2>. QED BY <1>16, <2>2, <2>3 DEF Extends
<1>18. /\ \A k \in 1 .. n : es[1][k] = codes[1][k] /\ es[2][k] = codes[2][k] /\ es[3][k] = codes[3][k]
       /\ es[1][n + 1] = c
  <2>1. es[1] = Append(codes[1], c) /\ es[2] = codes[2] /\ es[3] = codes[3]
    BY <1>3
  <2>2. /\ Extends(codes[1], Append(codes[1], c)) /\ Append(codes[1], c)[n + 1] = c
    BY <1>7, <1>8, AppendFacts
  <2>. QED BY <1>7, <2>1, <2>2 DEF Extends
<1>19. Tape(f, n, es, ds, literals, bt)
  <2>1. Extends(literals, literals)
    BY <1>7, ExtendsItself
  <2>2. \A k \in 1 .. n : es[1][k] = codes[1][k] /\ es[2][k] = codes[2][k] /\ es[3][k] = codes[3][k]
    BY <1>18
  <2>3. bits \in Seq(Digit) /\ ds \in Seq(Digit) /\ literals \in Seq(Byte) /\ n \in Nat
    BY <1>7, <1>16
  <2>4. Tape(f, n, codes, bits, literals, bt)
    BY <1>1, <1>2
  <2>. HIDE DEF Tape, Extends
  <2>. QED BY <1>17, <2>1, <2>2, <2>3, <2>4, TapeKept
<1>20. LastRun(a, c, ds, literals, bt)
  <2>1. Len(bt) + 1 - a.pos = v /\ a.lit + v = Len(literals)
    <3>1. PICK p \in Nat : p = a.pos
      BY <1>12
    <3>2. p + v = Len(bt) + 1
      BY <1>9, <1>12, <1>13, <3>1
    <3>3. (Len(bt) + 1) - p = v
      BY <1>9, <3>2
    <3>4. Len(bt) + 1 - a.pos = v
      BY <3>1, <3>3
    <3>. QED BY <1>12, <1>13, <3>4
  <2>2. a.bit + c <= Len(ds)
    BY <1>15, <1>16
  <2>3. Coded(ds, c, a.bit) = v
    <3>1. \A k \in 1 .. c : a.bit + k \in 1 .. Len(js)
      BY <1>8, <1>12, <1>15
    <3>2. \A k \in 1 .. c : ds[a.bit + k] = bl[k]
      BY <1>15, <1>16, <3>1
    <3>. QED BY <1>12, <1>14, <1>16, <2>2, <3>2, CodedBack, ZenonT(30)
  <2>4. Alike(literals, a.lit, bt, a.pos, v)
    BY <1>12, <1>13
  <2>5. /\ Bytes(a.bit + c) = Bytes(Len(ds))
        /\ \A j \in a.bit + c + 1 .. Len(ds) : ds[j] = 0
    BY <1>15, <1>16
  <2>. QED BY <1>8, <2>1, <2>2, <2>3, <2>4, <2>5 DEF LastRun
<1>21. Tells(fl, m, f)
  <2>1. fl.width \in 1 .. ByteBits /\ m \in Seq(0 .. Two[fl.width] - 1)
    BY <1>5, <1>6
  <2>2. fl.matches \in Nat /\ fl.bits \in Seq(Digit) /\ fl.literals \in Seq(Byte)
    BY <1>5, <1>7, <1>16
  <2>3. Pack(m, fl.width) = bt
    BY <1>5, <1>6
  <2>4. Tape(f, fl.matches, fl.codes, fl.bits, fl.literals, Pack(m, fl.width))
    BY <1>5, <1>19, <2>3
  <2>5. fl.codes[1][fl.matches + 1] = c /\ f[fl.matches] = a
    BY <1>1, <1>5, <1>18
  <2>6. LastRun(f[fl.matches], fl.codes[1][fl.matches + 1], fl.bits, fl.literals, Pack(m, fl.width))
    BY <1>5, <1>20, <2>3, <2>5
  <2>. QED BY <2>1, <2>2, <2>4, <2>6 DEF Tells
<1>. QED BY <1>2, <1>4, <1>21

-----------------------------------------------------------------------------
(* The decoder's bytes.                                                    *)

\* The first n bytes.
Upto(bt, n) == [x \in 1 .. n |-> bt[x]]

\* What the first bytes are.
LEMMA UptoFacts ==
    ASSUME NEW bt \in Seq(Byte), NEW n \in Nat, n <= Len(bt)
    PROVE  /\ Upto(bt, n) \in Seq(Byte) /\ Len(Upto(bt, n)) = n
           /\ \A x \in 1 .. n : Upto(bt, n)[x] = bt[x]
           /\ n = Len(bt) => Upto(bt, n) = bt
<1>. DEFINE B == Byte
<1>. HIDE DEF B
<1>1. bt \in Seq(B)
  BY DEF B
<1>2. \A x \in 1 .. n : bt[x] \in B
  BY <1>1
<1>3. [x \in 1 .. n |-> bt[x]] \in Seq(B) /\ Len([x \in 1 .. n |-> bt[x]]) = n
  BY <1>2
<1>4. \A x \in 1 .. n : Upto(bt, n)[x] = bt[x]
  BY DEF Upto
<1>5. Upto(bt, n) \in Seq(B) /\ Len(Upto(bt, n)) = n
  BY <1>3 DEF Upto
<1>6. n = Len(bt) => Upto(bt, n) = bt
  BY <1>1, <1>4, <1>5, SameSequence
<1>. QED BY <1>4, <1>5, <1>6 DEF B

\* Bytes bt have, after the first p, a run of literals, after the first l.
HasRun(bt, ls, p, l, run) ==
    /\ bt \in Seq(Byte) /\ ls \in Seq(Byte) /\ p \in Nat /\ l \in Nat /\ run \in Nat
    /\ p + run <= Len(bt) /\ l + run <= Len(ls)
    /\ Alike(ls, l, bt, p + 1, run)

\* Bytes bt have, after the first p, l bytes that stand distance d before.
HasMatch(bt, p, l, d) ==
    /\ bt \in Seq(Byte) /\ p \in Nat /\ l \in Nat /\ p + l <= Len(bt)
    /\ d \in Nat \ {0} /\ d <= p
    /\ \A q \in 0 .. l - 1 : bt[p + 1 + q] = bt[p + 1 + q - d]

\* With the run of literals the first p bytes are the first p + run.
RunLeadsOn(bt, ls, p, l, run) ==
    Upto(bt, p) \o SubSeq(ls, l + 1, l + run) = Upto(bt, p + run)

\* A run of literals goes on with the bytes.
LEMMA RunJoined ==
    ASSUME NEW bt, NEW ls, NEW p, NEW l, NEW run, HasRun(bt, ls, p, l, run)
    PROVE  RunLeadsOn(bt, ls, p, l, run)
<1>0. /\ bt \in Seq(Byte) /\ ls \in Seq(Byte) /\ p \in Nat /\ l \in Nat /\ run \in Nat
      /\ p + run <= Len(bt) /\ l + run <= Len(ls)
      /\ Alike(ls, l, bt, p + 1, run)
  BY DEF HasRun
<1>. DEFINE s == Upto(bt, p)
            t == SubSeq(ls, l + 1, l + run)
            u == Upto(bt, p + run)
<1>1. Len(bt) \in Nat /\ p <= Len(bt) /\ p + run \in Nat
  BY <1>0
<1>2. s \in Seq(Byte) /\ Len(s) = p /\ \A x \in 1 .. p : s[x] = bt[x]
  BY <1>0, <1>1, UptoFacts
<1>3. t \in Seq(Byte) /\ Len(t) = run /\ \A k \in 1 .. run : t[k] = ls[l + k]
  BY <1>0, SliceFacts, ZenonT(30)
<1>4. u \in Seq(Byte) /\ Len(u) = p + run /\ \A x \in 1 .. p + run : u[x] = bt[x]
  BY <1>0, <1>1, UptoFacts
<1>. HIDE DEF s, t, u
<1>5. /\ s \o t \in Seq(Byte) /\ Len(s \o t) = p + run
      /\ \A x \in 1 .. p : (s \o t)[x] = s[x]
      /\ \A k \in 1 .. run : (s \o t)[p + k] = t[k]
  <2>1. /\ s \o t \in Seq(Byte) /\ Len(s \o t) = Len(s) + Len(t) /\ Extends(s, s \o t)
        /\ \A k \in 1 .. Len(t) : (s \o t)[Len(s) + k] = t[k]
    <3>1. s \in Seq(Byte) /\ t \in Seq(Byte)
      BY <1>2, <1>3
    <3>. QED BY <3>1, JoinFacts, Zenon
  <2>. QED BY <1>2, <1>3, <2>1 DEF Extends
<1>6. \A k \in 1 .. run : t[k] = bt[p + k]
  <2>1. ASSUME NEW k \in 1 .. run
        PROVE  t[k] = bt[p + k]
    <3>1. k - 1 \in 0 .. run - 1 /\ l + 1 + (k - 1) = l + k /\ (p + 1) + (k - 1) = p + k
      BY <1>0
    <3>2. ls[l + 1 + (k - 1)] = bt[(p + 1) + (k - 1)]
      BY <1>0, <3>1 DEF Alike
    <3>. QED BY <1>3, <3>1, <3>2
  <2>. QED BY <2>1
<1>7. ASSUME NEW x \in 1 .. p + run
      PROVE  (s \o t)[x] = u[x]
  <2>1. CASE x <= p
    <3>1. x \in 1 .. p
      BY <1>0, <2>1
    <3>. QED BY <1>2, <1>4, <1>5, <3>1
  <2>2. CASE x > p
    <3>1. x - p \in 1 .. run /\ p + (x - p) = x
      BY <1>0, <2>2
    <3>. QED BY <1>4, <1>5, <1>6, <3>1
  <2>3. x <= p \/ x > p
    BY <1>0
  <2>. QED BY <2>1, <2>2, <2>3
<1>8. s \o t = u
  BY <1>4, <1>5, <1>7, SameSequence
<1>. QED BY <1>8 DEF RunLeadsOn, s, t, u

\* A match copied byte by byte goes on with the bytes, though it may overlap.
LEMMA CopiedFacts ==
    ASSUME NEW bt, NEW p, NEW l, NEW d, HasMatch(bt, p, l, d)
    PROVE  Copied(Upto(bt, p), d, l) = Upto(bt, p + l)
<1>. DEFINE s == Upto(bt, p)
            u == Upto(bt, p + l)
            z == Len(s) + l
            Body(f, x) == IF x <= Len(s) THEN s[x] ELSE f[x - d]
            C == CHOOSE o : o = [x \in 1 .. z |-> Body(o, x)]
<1>0. /\ bt \in Seq(Byte) /\ p \in Nat /\ l \in Nat /\ p + l <= Len(bt)
      /\ d \in Nat \ {0} /\ d <= p
      /\ \A q \in 0 .. l - 1 : bt[p + 1 + q] = bt[p + 1 + q - d]
  BY DEF HasMatch
<1>1. Len(bt) \in Nat /\ p <= Len(bt) /\ p + l \in Nat
  BY <1>0
<1>2. Len(s) = p /\ \A x \in 1 .. p : s[x] = bt[x]
  BY <1>0, <1>1, UptoFacts
<1>3. \A x \in 1 .. p + l : u[x] = bt[x]
  BY <1>0, <1>1, UptoFacts
<1>4. u = [x \in 1 .. p + l |-> u[x]]
  BY DEF Upto
<1>5. Copied(s, d, l) = C
  BY DEF Copied
<1>. HIDE DEF s, u
<1>6. z = p + l
  BY <1>2
<1>7. ASSUME NEW x \in 1 .. p + l
      PROVE  u[x] = Body(u, x)
  <2>1. CASE x <= p
    <3>1. x \in 1 .. p
      BY <1>0, <2>1
    <3>. QED BY <1>2, <1>3, <2>1, <3>1
  <2>2. CASE x > p
    <3>1. x - (p + 1) \in 0 .. l - 1 /\ p + 1 + (x - (p + 1)) = x /\ x - d \in 1 .. p + l
      BY <1>0, <2>2
    <3>2. bt[x] = bt[x - d]
      <4>1. PICK q \in 0 .. l - 1 : q = x - (p + 1)
        BY <3>1
      <4>2. p + 1 + q = x
        BY <3>1, <4>1
      <4>3. bt[p + 1 + q] = bt[p + 1 + q - d]
        BY <1>0
      <4>4. p + 1 + q - d = x - d
        BY <1>0, <4>2
      <4>. QED BY <4>2, <4>3, <4>4, Zenon
    <3>. QED BY <1>0, <1>2, <1>3, <2>2, <3>1, <3>2
  <2>. QED BY <1>0, <2>1, <2>2
<1>8. C = [x \in 1 .. z |-> Body(C, x)]
  <2>1. u = [x \in 1 .. z |-> Body(u, x)]
    <3>. HIDE DEF Body, z
    <3>. QED BY <1>4, <1>6, <1>7
  <2>. HIDE DEF Body, z
  <2>. QED BY <2>1
<1>. HIDE DEF C
<1>9. \A x \in 1 .. p + l : C[x] = u[x]
  <2>. DEFINE T == {x \in 1 .. p + l : C[x] # u[x]}
  <2>. SUFFICES ASSUME T # {} PROVE FALSE
    OBVIOUS
  <2>1. T \subseteq Nat
    BY <1>0
  <2>2. PICK a \in T : \A b \in T : a <= b
    <3>. HIDE DEF T
    <3>. QED BY <2>1, LeastNumber
  <2>3. a \in 1 .. p + l /\ C[a] # u[a]
    OBVIOUS
  <2>4. C[a] = Body(C, a) /\ u[a] = Body(u, a)
    <3>. HIDE DEF Body, T
    <3>. QED BY <1>6, <1>7, <1>8, <2>3
  <2>5. a > p
    BY <1>0, <1>2, <2>3, <2>4
  <2>6. a - d \in 1 .. p + l /\ ~ (a <= a - d)
    BY <1>0, <2>3, <2>5
  <2>7. C[a - d] = u[a - d]
    BY <2>2, <2>6
  <2>. QED BY <1>0, <1>2, <2>3, <2>4, <2>5, <2>7
<1>10. C = [x \in 1 .. p + l |-> C[x]]
  <2>. HIDE DEF Body
  <2>1. C = [x \in 1 .. z |-> C[x]]
    BY <1>8
  <2>. QED BY <1>6, <2>1
<1>11. C = u
  BY <1>4, <1>9, <1>10
<1>. QED BY <1>5, <1>11 DEF s, u

-----------------------------------------------------------------------------
(* The decoder of sequences.                                               *)

\* The decoder has read what the marks tell of, up to the last it has taken.
Reading(f) ==
    LET k == read.sequences
    IN  /\ k \in 0 .. file.matches
        /\ out = Upto(Pack(ids, file.width), f[k].pos - 1)
        /\ read.literals = f[k].lit /\ read.bits = f[k].bit /\ known = f[k].known

\* What a telling file is like.
LEMMA TellsFacts ==
    ASSUME NEW fl, NEW m, NEW f, Tells(fl, m, f), NEW bt, bt = Pack(m, fl.width)
    PROVE  /\ fl.width \in Nat \ {0} /\ m \in Seq(0 .. Two[fl.width] - 1)
           /\ bt \in Seq(Byte) /\ Len(bt) = Bytes(Len(m) * fl.width)
           /\ fl.matches \in Nat /\ fl.bits \in Seq(Digit) /\ fl.literals \in Seq(Byte)
           /\ f[0] = FirstMark
           /\ \A k \in 0 .. fl.matches :
                 /\ f[k] \in Marks /\ f[k].pos <= Len(bt) + 1
                 /\ f[k].bit <= Len(fl.bits) /\ f[k].lit <= Len(fl.literals)
                 /\ k * MinMatch + f[k].lit < f[k].pos
           /\ \A k \in 1 .. fl.matches :
                 Leads(f[k - 1], f[k], fl.codes[1][k], fl.codes[2][k], fl.codes[3][k],
                       fl.bits, fl.literals, bt)
           /\ LastRun(f[fl.matches], fl.codes[1][fl.matches + 1], fl.bits, fl.literals, bt)
<1>1. PICK w \in 1 .. ByteBits : w = fl.width
  BY DEF Tells
<1>2. m \in Seq(0 .. Two[w] - 1)
  BY <1>1 DEF Tells
<1>3. bt \in Seq(Byte) /\ Len(bt) = Bytes(w * Len(m)) /\ w \in Nat \ {0}
  BY <1>1, <1>2, PackIsBytes
<1>4. w * Len(m) = Len(m) * w
  BY <1>2, <1>3
<1>5. Len(bt) = Bytes(Len(m) * w)
  BY <1>3, <1>4
<1>. HIDE DEF Leads, LastRun
<1>6. LastRun(f[fl.matches], fl.codes[1][fl.matches + 1], fl.bits, fl.literals, bt)
  BY DEF Tells
<1>7. Tape(f, fl.matches, fl.codes, fl.bits, fl.literals, bt)
      /\ fl.matches \in Nat /\ fl.bits \in Seq(Digit) /\ fl.literals \in Seq(Byte)
  BY DEF Tells
<1>. QED BY <1>1, <1>2, <1>3, <1>5, <1>6, <1>7 DEF Tape

\* A file that tells of the map is not refused when it is opened,
LEMMA OpenTells ==
    ASSUME NEW f, Tells(file, ids, f), OpenSequences,
           out = <<>>, known = FirstRecent, read = [sequences |-> 0, literals |-> 0, bits |-> 0]
    PROVE  pc' = "sequences" /\ Tells(file, ids, f)' /\ Reading(f)'
<1>. DEFINE n == file.matches
            lits == file.literals
            c == file.codes[1][n + 1]
            a == f[n]
<1>1. PICK bt : bt = Pack(ids, file.width)
  OBVIOUS
<1>2. /\ bt \in Seq(Byte) /\ Len(bt) = PackedBytes
      /\ n \in Nat /\ lits \in Seq(Byte)
      /\ f[0] = FirstMark /\ a \in Marks /\ n * MinMatch + a.lit < a.pos
      /\ LastRun(a, c, file.bits, lits, bt)
  <2>1. n \in Nat
    BY <1>1, TellsFacts
  <2>2. n \in 0 .. n
    BY <2>1
  <2>. QED BY <1>1, <2>2, TellsFacts DEF PackedBytes
<1>. HIDE DEF a, c, n, lits
<1>3. PICK run \in Nat : run = Len(bt) + 1 - a.pos /\ a.lit + run = Len(lits)
  BY <1>2 DEF LastRun
<1>4. a.pos \in Nat /\ a.lit \in Nat /\ Len(bt) \in Nat /\ MinMatch \in Nat \ {0} /\ n * MinMatch \in Nat
  BY SizesAssumption, <1>2 DEF Marks
<1>5. PICK y \in Nat : y = n * MinMatch
  BY <1>4
<1>6. y <= Len(bt) /\ Len(lits) <= Len(bt)
  <2>1. PICK p \in Nat, t \in Nat, s \in Nat : p = a.pos /\ t = a.lit /\ s = Len(bt)
    BY <1>4
  <2>2. y + t < p /\ p + run = s + 1
    BY <1>2, <1>3, <1>5, <2>1, SMTT(30)
  <2>3. y <= s /\ t + run <= s
    BY <2>2
  <2>. QED BY <1>3, <2>1, <2>3
<1>7. n <= PackedBytes \div MinMatch
  <2>. DEFINE q == PackedBytes \div MinMatch
  <2>0. PackedBytes \in Nat
    BY <1>2, <1>4
  <2>1. q \in Nat /\ PackedBytes < MinMatch * q + MinMatch
    <3>. DEFINE r == PackedBytes % MinMatch
    <3>1. q \in Nat /\ r \in Nat /\ r < MinMatch /\ PackedBytes = MinMatch * q + r
      BY <1>4, <2>0, DivisionFacts
    <3>. HIDE DEF q, r
    <3>2. MinMatch * q \in Nat
      BY <1>4, <3>1
    <3>3. PICK g \in Nat : g = MinMatch * q
      BY <3>2
    <3>. QED BY <1>4, <2>0, <3>1, <3>3
  <2>. HIDE DEF q
  <2>2. SUFFICES ASSUME q + 1 <= n PROVE FALSE
    BY <1>2, <2>1 DEF q
  <2>3. MinMatch * (q + 1) <= MinMatch * n
    BY <1>2, <1>4, <2>1, <2>2, ProductMonotone
  <2>4. MinMatch * (q + 1) = MinMatch * q + MinMatch /\ MinMatch * n = n * MinMatch
        /\ MinMatch * q \in Nat
    BY <1>2, <1>4, <2>1
  <2>5. PICK g \in Nat : g = MinMatch * q
    BY <2>4
  <2>6. g + MinMatch <= y
    BY <1>5, <2>3, <2>4, <2>5
  <2>7. PackedBytes < g + MinMatch
    BY <2>1, <2>5
  <2>. QED BY <1>2, <1>4, <1>6, <2>0, <2>6, <2>7
<1>8. file.width \in 1 .. ByteBits
  BY DEF Tells
<1>9. pc' = "sequences" /\ UNCHANGED <<encoder, file, decoder>>
  BY <1>2, <1>6, <1>7, <1>8 DEF OpenSequences, n, lits
<1>10. ids' = ids /\ file' = file /\ out' = out /\ read' = read /\ known' = known
  BY <1>9 DEF encoder, decoder
<1>11. Tells(file, ids, f)'
  BY <1>10
<1>12. Reading(f)'
  <2>1. out' = <<>> /\ known' = FirstRecent /\ read'.sequences = 0 /\ read'.literals = 0 /\ read'.bits = 0
    BY <1>10
  <2>2. f[0].pos = 1 /\ f[0].lit = 0 /\ f[0].bit = 0 /\ f[0].known = FirstRecent
    BY <1>2 DEF FirstMark
  <2>3. Upto(Pack(ids', file'.width), f[0].pos - 1) = <<>>
    <3>1. f[0].pos - 1 = 0
      BY <2>2
    <3>2. \A b : [x \in 1 .. 0 |-> b[x]] = <<>>
      OBVIOUS
    <3>. QED BY <3>1, <3>2 DEF Upto
  <2>4. 0 \in 0 .. file'.matches
    BY <1>2, <1>10 DEF n
  <2>. QED BY <2>1, <2>2, <2>3, <2>4 DEF Reading
<1>. QED BY <1>9, <1>11, <1>12

\* nor at any sequence, which gives back the bytes up to the next mark,
LEMMA ReadTells ==
    ASSUME NEW f, Tells(file, ids, f), Reading(f), ReadSequence
    PROVE  pc' = "sequences" /\ Tells(file, ids, f)' /\ Reading(f)'
<1>1. PICK bt : bt = Pack(ids, file.width)
  OBVIOUS
<1>2. PICK n : n = file.matches
  OBVIOUS
<1>3. /\ bt \in Seq(Byte) /\ Len(bt) = PackedBytes /\ n \in Nat
      /\ file.bits \in Seq(Digit) /\ file.literals \in Seq(Byte)
  BY <1>1, <1>2, TellsFacts DEF PackedBytes
<1>4. PICK k \in 1 .. n : k = read.sequences + 1
  <2>1. read.sequences \in 0 .. n /\ read.sequences + 1 <= n
    BY <1>2 DEF Reading, ReadSequence
  <2>. QED BY <1>3, <2>1
<1>5. k - 1 \in 0 .. n /\ k \in 0 .. n /\ k - 1 = read.sequences
  <2>1. read.sequences \in 0 .. n
    BY <1>2 DEF Reading
  <2>. QED BY <1>3, <1>4, <2>1
<1>6. PICK a \in Marks, b \in Marks : a = f[k - 1] /\ b = f[k]
  BY <1>2, <1>5, TellsFacts
<1>7. PICK c1, c2, c3 : c1 = file.codes[1][k] /\ c2 = file.codes[2][k] /\ c3 = file.codes[3][k]
  OBVIOUS
<1>8. Leads(a, b, c1, c2, c3, file.bits, file.literals, bt)
      /\ b.pos <= Len(bt) + 1 /\ b.bit <= Len(file.bits) /\ b.lit <= Len(file.literals)
      /\ (k - 1) * MinMatch + a.lit < a.pos
  BY <1>1, <1>2, <1>5, <1>6, <1>7, TellsFacts
<1>9. PICK run \in Nat, length \in Nat, distance \in Nat \ {0} :
          /\ Coded(file.bits, c1, a.bit) = run
          /\ Coded(file.bits, c2, a.bit + c1) + MinMatch = length
          /\ distance = IF c3 < 3 THEN a.known[c3 + 1]
                                  ELSE Coded(file.bits, c3 - 3, a.bit + c1 + c2) + 1
          /\ b.pos = a.pos + run + length /\ b.lit = a.lit + run
          /\ b.known = Update(a.known, distance)
          /\ Alike(file.literals, a.lit, bt, a.pos, run)
          /\ distance <= Window /\ distance < a.pos + run
          /\ \A q \in 0 .. length - 1 :
                bt[a.pos + run + q] = bt[a.pos + run + q - distance]
  BY <1>8 DEF Leads
<1>10. /\ c1 \in Nat /\ c2 \in Nat /\ c3 \in Nat
       /\ b.bit = a.bit + c1 + c2 + IF c3 < 3 THEN 0 ELSE c3 - 3
  BY <1>8 DEF Leads
<1>11. PICK p \in Nat, l \in Nat, t \in Nat, len \in Nat, lits \in Nat :
          a.pos = p + 1 /\ a.lit = l /\ a.bit = t /\ len = Len(bt) /\ lits = Len(file.literals)
  <2>1. a.pos - 1 \in Nat /\ a.lit \in Nat /\ a.bit \in Nat /\ Len(bt) \in Nat
        /\ Len(file.literals) \in Nat /\ a.pos = (a.pos - 1) + 1
    BY <1>3 DEF Marks
  <2>. QED BY <2>1
<1>12. /\ out = Upto(bt, p) /\ read.literals = l /\ read.bits = t /\ known = a.known
  <2>1. out = Upto(bt, a.pos - 1) /\ read.literals = a.lit /\ read.bits = a.bit /\ known = a.known
    BY <1>1, <1>5, <1>6 DEF Reading
  <2>2. a.pos - 1 = p
    BY <1>11
  <2>. QED BY <1>11, <2>1, <2>2
<1>13. /\ p + run + length <= len /\ l + run <= lits /\ distance <= p + run
       /\ b.pos = p + run + length + 1 /\ b.lit = l + run
       /\ p + run + length \in Nat /\ p + run \in Nat /\ (p + run) + 1 = a.pos + run
  <2>1. b.pos = p + 1 + run + length /\ b.lit = l + run /\ distance < p + 1 + run
    BY <1>9, <1>11
  <2>2. b.pos <= len + 1 /\ b.lit <= lits
    BY <1>8, <1>11
  <2>3. p + 1 + run + length <= len + 1 /\ l + run <= lits
    BY <2>1, <2>2
  <2>4. (p + run) + 1 = a.pos + run
    BY <1>11
  <2>. QED BY <2>1, <2>3, <2>4
<1>14. Run(k) = run /\ AfterRun(k) = t + c1
  BY <1>7, <1>9, <1>11, <1>12 DEF Run, AfterRun
<1>15. WithRun(k) = Upto(bt, p + run) /\ Len(WithRun(k)) = p + run /\ Len(out) = p
  <2>1. WithRun(k) = Upto(bt, p) \o SubSeq(file.literals, l + 1, l + run)
    BY <1>12, <1>14 DEF WithRun
  <2>2. Alike(file.literals, l, bt, p + 1, run)
    BY <1>9, <1>11
  <2>3. p + run <= Len(bt) /\ l + run <= Len(file.literals) /\ p <= Len(bt)
    BY <1>11, <1>13
  <2>4. WithRun(k) = Upto(bt, p + run)
    <3>1. bt \in Seq(Byte) /\ file.literals \in Seq(Byte)
      BY <1>3
    <3>2. HasRun(bt, file.literals, p, l, run)
      BY <2>2, <2>3, <3>1 DEF HasRun
    <3>3. RunLeadsOn(bt, file.literals, p, l, run)
      BY <3>2, RunJoined
    <3>4. Upto(bt, p) \o SubSeq(file.literals, l + 1, l + run) = Upto(bt, p + run)
      BY <3>3, Zenon DEF RunLeadsOn
    <3>. QED BY <2>1, <3>4, Zenon
  <2>5. Len(Upto(bt, p + run)) = p + run /\ Len(Upto(bt, p)) = p
    BY <1>3, <1>13, <2>3, UptoFacts
  <2>. QED BY <1>12, <2>4, <2>5
<1>16. RunFits(k)
  <2>1. t + c1 <= Len(file.bits)
    <3>1. t + c1 <= b.bit /\ b.bit \in Nat
      BY <1>10, <1>11
    <3>2. Len(file.bits) \in Nat
      BY <1>3
    <3>. QED BY <1>8, <1>10, <3>1, <3>2
  <2>2. run <= lits - l /\ run <= len - p
    BY <1>13
  <2>. QED BY <1>3, <1>11, <1>12, <1>14, <1>15, <2>1, <2>2 DEF RunFits
<1>. DEFINE afterLength == AfterRun(k) + c2
            end == afterLength + (IF c3 < 3 THEN 0 ELSE c3 - 3)
            dist == IF c3 < 3 THEN known[c3 + 1] ELSE Coded(file.bits, c3 - 3, afterLength) + 1
            leng == Coded(file.bits, c2, AfterRun(k)) + MinMatch
<1>17. afterLength = a.bit + c1 + c2 /\ end = b.bit /\ dist = distance /\ leng = length
  <2>1. afterLength = a.bit + c1 + c2
    BY <1>10, <1>11, <1>14
  <2>2. end = b.bit
    BY <1>10, <2>1
  <2>3. dist = distance
    BY <1>9, <1>12, <2>1
  <2>4. leng = length
    BY <1>9, <1>11, <1>14
  <2>. QED BY <2>1, <2>2, <2>3, <2>4
<1>18. /\ RunFits(k) /\ end <= Len(file.bits)
       /\ dist <= Window /\ dist <= Len(WithRun(k))
       /\ leng <= PackedBytes - Len(WithRun(k))
  <2>1. length <= len - (p + run)
    BY <1>13
  <2>. HIDE DEF end, dist, leng
  <2>. QED BY <1>3, <1>8, <1>9, <1>11, <1>13, <1>15, <1>16, <1>17, <2>1
<1>19. /\ pc = "sequences"
       /\ out' = Copied(WithRun(k), dist, leng)
       /\ read' = [sequences |-> k, literals |-> read.literals + Run(k), bits |-> end]
       /\ known' = Update(known, dist)
       /\ UNCHANGED <<pc, encoder, file, taken>>
  <2>. HIDE DEF end, dist, leng, afterLength
  <2>1. read.sequences + 1 = k
    BY <1>4
  <2>. QED BY <1>7, <1>18, <2>1 DEF ReadSequence, end, dist, leng, afterLength
<1>20. pc' = "sequences" /\ ids' = ids /\ file' = file
  BY <1>19 DEF encoder
<1>21. Tells(file, ids, f)'
  BY <1>20
<1>22. out' = Upto(bt, b.pos - 1)
  <2>. HIDE DEF end, dist, leng
  <2>1. \A q \in 0 .. length - 1 : bt[(p + run) + 1 + q] = bt[(p + run) + 1 + q - distance]
    BY <1>9, <1>13
  <2>2. (p + run) + length <= Len(bt)
    BY <1>11, <1>13
  <2>3. Copied(Upto(bt, p + run), distance, length) = Upto(bt, (p + run) + length)
    <3>1. bt \in Seq(Byte) /\ p + run \in Nat /\ distance <= p + run
      BY <1>3, <1>13
    <3>2. HasMatch(bt, p + run, length, distance)
      BY <2>1, <2>2, <3>1 DEF HasMatch
    <3>. QED BY <3>2, CopiedFacts
  <2>4. b.pos - 1 = (p + run) + length
    BY <1>13
  <2>. QED BY <1>15, <1>17, <1>19, <2>3, <2>4
<1>23. /\ read'.sequences = k /\ read'.literals = b.lit /\ read'.bits = b.bit /\ known' = b.known
  <2>. HIDE DEF end, dist, leng
  <2>. QED BY <1>9, <1>12, <1>13, <1>14, <1>17, <1>19
<1>24. Reading(f)'
  <2>1. Pack(ids', file'.width) = bt /\ file'.matches = n
    BY <1>1, <1>2, <1>20
  <2>. QED BY <1>5, <1>6, <1>22, <1>23, <2>1 DEF Reading
<1>. QED BY <1>20, <1>21, <1>24

\* nor at the end, when every byte and every choice is back.
LEMMA CloseTells ==
    ASSUME NEW f, Tells(file, ids, f), Reading(f), CloseSequences
    PROVE  pc' = "done" /\ out' = ids /\ ids' = ids
<1>1. PICK bt, w, m : bt = Pack(m, w) /\ w = file.width /\ m = ids
  OBVIOUS
<1>2. PICK n : n = file.matches
  OBVIOUS
<1>3. /\ bt \in Seq(Byte) /\ Len(bt) = PackedBytes /\ n \in Nat
      /\ file.bits \in Seq(Digit) /\ file.literals \in Seq(Byte)
      /\ w \in Nat \ {0} /\ m \in Seq(0 .. Two[w] - 1)
  BY <1>1, <1>2, TellsFacts DEF PackedBytes
<1>4. PICK k \in Nat : k = n + 1
  BY <1>3
<1>5. read.sequences = n
  BY <1>2 DEF CloseSequences
<1>6. PICK a \in Marks : a = f[n]
  <2>1. n \in 0 .. n
    BY <1>3
  <2>. QED BY <1>2, <2>1, TellsFacts
<1>7. PICK c : c = file.codes[1][k]
  OBVIOUS
<1>8. LastRun(a, c, file.bits, file.literals, bt)
  BY <1>1, <1>2, <1>4, <1>6, <1>7, TellsFacts
<1>9. PICK run \in Nat : run = Len(bt) + 1 - a.pos
  BY <1>8 DEF LastRun
<1>10. /\ c \in Nat /\ a.bit + c <= Len(file.bits)
       /\ Coded(file.bits, c, a.bit) = run
       /\ a.lit + run = Len(file.literals)
       /\ Alike(file.literals, a.lit, bt, a.pos, run)
       /\ Bytes(a.bit + c) = Bytes(Len(file.bits))
       /\ \A j \in a.bit + c + 1 .. Len(file.bits) : file.bits[j] = 0
  BY <1>8, <1>9 DEF LastRun
<1>11. PICK p \in Nat, l \in Nat, t \in Nat, len \in Nat :
          a.pos = p + 1 /\ a.lit = l /\ a.bit = t /\ len = Len(bt)
  <2>1. a.pos - 1 \in Nat /\ a.lit \in Nat /\ a.bit \in Nat /\ Len(bt) \in Nat
        /\ a.pos = (a.pos - 1) + 1
    BY <1>3 DEF Marks
  <2>. QED BY <2>1
<1>12. out = Upto(bt, p) /\ read.literals = l /\ read.bits = t
  <2>1. out = Upto(bt, a.pos - 1) /\ read.literals = a.lit /\ read.bits = a.bit
    BY <1>1, <1>5, <1>6 DEF Reading
  <2>2. a.pos - 1 = p
    BY <1>11
  <2>. QED BY <1>11, <2>1, <2>2
<1>13. p + run = len /\ p + run <= Len(bt) /\ l + run = Len(file.literals) /\ p <= Len(bt)
  BY <1>9, <1>10, <1>11
<1>14. Run(k) = run /\ AfterRun(k) = t + c
  BY <1>7, <1>10, <1>11, <1>12 DEF Run, AfterRun
<1>15. WithRun(k) = bt /\ Len(out) = p
  <2>1. WithRun(k) = Upto(bt, p) \o SubSeq(file.literals, l + 1, l + run)
    BY <1>12, <1>14 DEF WithRun
  <2>2. Alike(file.literals, l, bt, p + 1, run)
    BY <1>10, <1>11
  <2>3. l + run <= Len(file.literals)
    BY <1>3, <1>13
  <2>4. WithRun(k) = Upto(bt, p + run)
    <3>1. bt \in Seq(Byte) /\ file.literals \in Seq(Byte)
      BY <1>3
    <3>2. HasRun(bt, file.literals, p, l, run)
      BY <1>13, <2>2, <2>3, <3>1 DEF HasRun
    <3>3. RunLeadsOn(bt, file.literals, p, l, run)
      BY <3>2, RunJoined
    <3>4. Upto(bt, p) \o SubSeq(file.literals, l + 1, l + run) = Upto(bt, p + run)
      BY <3>3, Zenon DEF RunLeadsOn
    <3>. QED BY <2>1, <3>4, Zenon
  <2>5. Upto(bt, p + run) = bt /\ Len(Upto(bt, p)) = p
    BY <1>3, <1>11, <1>13, UptoFacts
  <2>. QED BY <1>12, <2>4, <2>5
<1>16. RunFits(k)
  <2>1. run <= Len(file.literals) - l /\ run <= len - p
    <3>1. PICK s \in Nat : s = Len(file.literals)
      BY <1>3
    <3>. QED BY <1>13, <3>1
  <2>. QED BY <1>3, <1>10, <1>11, <1>12, <1>14, <1>15, <2>1 DEF RunFits
<1>17. BitsOf(bt) = BitsOf(Pack(m, w)) /\ Len(bt) = Bytes(w * Len(m)) /\ Len(m) * w = w * Len(m)
  <2>1. Len(bt) = Bytes(w * Len(m)) /\ w * Len(m) = Len(m) * w
    BY <1>1, <1>3, PackFacts
  <2>. QED BY <1>1, <2>1
<1>18. \A j \in Len(ids) * file.width + 1 .. Len(BitsOf(WithRun(k))) : BitsOf(WithRun(k))[j] = 0
  <2>1. Len(BitsOf(bt)) = ByteBits * Len(bt)
    <3>1. ByteBits * Len(bt) \in Nat /\ ByteBits \in Nat \ {0}
      BY SizesAssumption, <1>3
    <3>2. bt \in Seq(Nat)
      <4>. DEFINE B == Byte
      <4>1. B \subseteq Nat /\ bt \in Seq(B)
        BY <1>3 DEF Byte
      <4>. HIDE DEF B
      <4>2. \A j \in 1 .. Len(bt) : bt[j] \in Nat
        <5>1. \A j \in 1 .. Len(bt) : bt[j] \in B
          BY <4>1
        <5>. QED BY <4>1, <5>1
      <4>3. bt = [j \in 1 .. Len(bt) |-> bt[j]] /\ Len(bt) \in Nat
        BY <4>1
      <4>4. [j \in 1 .. Len(bt) |-> bt[j]] \in Seq(Nat)
        BY <4>2, <4>3
      <4>. QED BY <4>3, <4>4
    <3>. HIDE DEF DigitsOf
    <3>. QED BY <3>1, <3>2, DigitsOfFacts DEF BitsOf
  <2>2. \A j \in w * Len(m) + 1 .. ByteBits * Bytes(w * Len(m)) : BitsOf(bt)[j] = 0
    BY <1>3, <1>17, PackedTail
  <2>. QED BY <1>1, <1>15, <1>17, <2>1, <2>2
<1>19. read.literals + Run(k) = Len(file.literals)
  BY <1>12, <1>13, <1>14
<1>20. Len(WithRun(k)) = PackedBytes
  BY <1>3, <1>15
<1>21. /\ Bytes(AfterRun(k)) = Bytes(Len(file.bits))
       /\ \A j \in AfterRun(k) + 1 .. Len(file.bits) : file.bits[j] = 0
  BY <1>10, <1>11, <1>14
<1>22. Finish(Unpack(WithRun(k), file.width, Len(ids)))
  <2>1. file.matches + 1 = k
    BY <1>2, <1>4
  <2>. HIDE DEF Finish, Refuse, RunFits
  <2>. QED BY <1>16, <1>18, <1>19, <1>20, <1>21, <2>1 DEF CloseSequences
<1>23. Unpack(WithRun(k), file.width, Len(ids)) = ids
  <2>1. Unpack(Pack(m, w), w, Len(m)) = m
    BY <1>3, UnpackPack
  <2>. QED BY <1>1, <1>15, <2>1
<1>. QED BY <1>22, <1>23 DEF Finish, encoder

-----------------------------------------------------------------------------
(* The decoder of contexts.                                                *)

\* The choices so far are those of the map, taken one by one from their groups.
Counting ==
    /\ ids \in Seq(Byte) /\ file = ContextFile(ids)
    /\ out \in Seq(Byte) /\ Extends(out, ids)
    /\ DOMAIN taken = 0 .. Alphabet(ids) - 1
    /\ \A s \in 0 .. Alphabet(ids) - 1 : taken[s] = Uses(ids, s, Len(out) + 1)

\* Contexts are not refused when they are opened,
LEMMA OpenCounts ==
    ASSUME ids \in Seq(Byte), file = ContextFile(ids), out = <<>>, OpenContexts
    PROVE  pc' = "contexts" /\ Counting'
<1>1. /\ DOMAIN file.groups \subseteq 0 .. file.alphabet - 1 /\ Total = Len(ids)
      /\ file.alphabet = Alphabet(ids)
  BY GroupsFacts
<1>2. /\ taken' = [s \in 0 .. Alphabet(ids) - 1 |-> 0] /\ pc' = "contexts"
      /\ UNCHANGED <<encoder, file, out, read, known>>
  BY <1>1 DEF OpenContexts
<1>3. ids' = ids /\ file' = file /\ out' = <<>>
  BY <1>2 DEF encoder
<1>4. \A s : Uses(ids, s, 1) = 0
  BY UsesFacts
<1>5. <<>> \in Seq(Byte) /\ Len(<<>>) = 0 /\ Len(<<>>) + 1 = 1 /\ Extends(<<>>, ids)
  BY DEF Extends
<1>. QED BY <1>2, <1>3, <1>4, <1>5 DEF Counting

\* nor at any choice, which is that of the map,
LEMMA ReadCounts ==
    ASSUME Counting, ReadContext
    PROVE  pc' = "contexts" /\ Counting'
<1>1. PICK m : m = ids
  OBVIOUS
<1>2. PICK l, j : l = Len(out) /\ j = Len(out) + 1
  OBVIOUS
<1>3. /\ m \in Seq(Byte) /\ file = ContextFile(m) /\ out \in Seq(Byte) /\ Extends(out, m)
      /\ DOMAIN taken = 0 .. Alphabet(m) - 1
      /\ \A s \in 0 .. Alphabet(m) - 1 : taken[s] = Uses(m, s, j)
  BY <1>1, <1>2 DEF Counting
<1>4. l \in Nat /\ Len(m) \in Nat /\ l < Len(m) /\ j \in 1 .. Len(m) /\ j = l + 1 /\ j \in Nat \ {0}
  BY <1>1, <1>2, <1>3 DEF ReadContext
<1>. DEFINE last == Before(Append(out, 0), Len(out) + 1)
            at == taken[last] + 1
<1>5. last = Before(m, j)
  <2>1. CASE l = 0
    <3>1. j = 1 /\ Len(out) + 1 = 1
      BY <1>2, <1>4, <2>1
    <3>. QED BY <3>1 DEF Before
  <2>2. CASE l # 0
    <3>1. j # 1 /\ j - 1 = l /\ l \in 1 .. Len(out)
      BY <1>2, <1>4, <2>2
    <3>2. out[l] = m[l]
      BY <1>3, <3>1 DEF Extends
    <3>3. Append(out, 0)[l] = out[l]
      BY <1>3, <3>1
    <3>4. last = IF j = 1 THEN 0 ELSE Append(out, 0)[j - 1]
      BY <1>2 DEF Before
    <3>. QED BY <3>1, <3>2, <3>3, <3>4 DEF Before
  <2>. QED BY <2>1, <2>2
<1>6. PICK s : s = Before(m, j)
  OBVIOUS
<1>7. s \in 0 .. Alphabet(m) - 1 /\ m[j] < Alphabet(m)
  BY <1>3, <1>4, <1>6, AlphabetFacts
<1>8. at = Uses(m, s, j) + 1
  BY <1>3, <1>5, <1>6, <1>7
<1>9. /\ Group(s) = Followers(m, s) /\ file.alphabet = Alphabet(m)
  BY <1>3, <1>7, GroupsFacts
<1>10. /\ Uses(m, s, j) + 1 \in 1 .. Len(Followers(m, s))
       /\ Followers(m, s)[Uses(m, s, j) + 1] = m[j]
  BY <1>3, <1>4, <1>6, FollowersFacts
<1>11. at <= Len(Group(s)) /\ Group(s)[at] = m[j] /\ Group(s)[at] < file.alphabet
  <2>1. Len(Followers(m, s)) \in Nat
    <3>1. Len(m) + 1 \in Nat
      BY <1>4
    <3>. QED BY <1>3, <3>1, FollowersFacts, UsesFacts
  <2>. HIDE DEF at
  <2>. QED BY <1>7, <1>8, <1>9, <1>10, <2>1
<1>12. /\ out' = Append(out, m[j]) /\ taken' = [taken EXCEPT ![s] = at]
       /\ UNCHANGED <<pc, encoder, file, read, known>> /\ pc = "contexts"
  <2>1. last = s
    BY <1>5, <1>6
  <2>. HIDE DEF last
  <2>2. /\ out' = Append(out, Group(last)[at]) /\ taken' = [taken EXCEPT ![last] = at]
        /\ UNCHANGED <<pc, encoder, file, read, known>> /\ pc = "contexts"
    BY <1>11, <2>1 DEF ReadContext, last
  <2>. HIDE DEF at
  <2>. QED BY <1>11, <2>1, <2>2
<1>13. ids' = m /\ file' = ContextFile(m) /\ pc' = "contexts"
  BY <1>1, <1>3, <1>12 DEF encoder
<1>14. PICK o : o = out'
  OBVIOUS
<1>15. o \in Seq(Byte) /\ Len(o) = l + 1 /\ Extends(o, m)
  <2>1. m[j] \in Byte
    BY <1>3, <1>4
  <2>2. /\ Append(out, m[j]) \in Seq(Byte) /\ Len(Append(out, m[j])) = Len(out) + 1
        /\ Extends(out, Append(out, m[j])) /\ Append(out, m[j])[Len(out) + 1] = m[j]
    BY <1>3, <2>1, AppendFacts
  <2>3. o = Append(out, m[j])
    BY <1>12, <1>14
  <2>4. o \in Seq(Byte) /\ Len(o) = l + 1 /\ Extends(out, o) /\ o[j] = m[j]
    BY <1>2, <2>2, <2>3
  <2>5. ASSUME NEW k \in 1 .. l + 1
        PROVE  m[k] = o[k]
    <3>1. CASE k = j
      BY <2>4, <3>1
    <3>2. CASE k # j
      <4>1. k \in 1 .. Len(out)
        BY <1>2, <1>4, <3>2
      <4>. QED BY <1>3, <2>4, <4>1 DEF Extends
    <3>. QED BY <3>1, <3>2
  <2>. QED BY <1>4, <2>4, <2>5 DEF Extends
<1>16. \A r \in 0 .. Alphabet(m) - 1 : taken'[r] = Uses(m, r, j + 1)
  <2>1. ASSUME NEW r \in 0 .. Alphabet(m) - 1
        PROVE  taken'[r] = Uses(m, r, j + 1)
    <3>1. Uses(m, r, j + 1) = Uses(m, r, j) + (IF Before(m, j) = r THEN 1 ELSE 0)
      BY <1>4, OneMoreUse
    <3>2. Uses(m, r, j) \in Nat
      BY <1>4, UsesFacts
    <3>. HIDE DEF at
    <3>3. CASE r = s
      <4>1. taken'[r] = at
        BY <1>3, <1>12, <2>1, <3>3
      <4>. QED BY <1>6, <1>8, <3>1, <3>3, <4>1
    <3>4. CASE r # s
      <4>1. taken'[r] = taken[r]
        BY <1>3, <1>12, <2>1, <3>4
      <4>2. taken[r] = Uses(m, r, j)
        BY <1>3, <2>1
      <4>. QED BY <1>6, <3>1, <3>2, <3>4, <4>1, <4>2
    <3>. QED BY <3>3, <3>4
  <2>. QED BY <2>1
<1>17. DOMAIN taken' = 0 .. Alphabet(m) - 1
  BY <1>3, <1>12
<1>18. Len(out') + 1 = j + 1
  BY <1>4, <1>14, <1>15
<1>19. Counting'
  BY <1>3, <1>13, <1>14, <1>15, <1>16, <1>17, <1>18 DEF Counting
<1>. QED BY <1>13, <1>19

\* nor at the end, when every group is used up.
LEMMA CloseCounts ==
    ASSUME Counting, CloseContexts
    PROVE  pc' = "done" /\ out' = ids /\ ids' = ids
<1>1. Len(out) = Len(ids)
  BY DEF CloseContexts
<1>2. /\ ids \in Seq(Byte) /\ file = ContextFile(ids) /\ out \in Seq(Byte) /\ Extends(out, ids)
      /\ DOMAIN taken = 0 .. Alphabet(ids) - 1
      /\ \A s \in 0 .. Alphabet(ids) - 1 : taken[s] = Uses(ids, s, Len(ids) + 1)
  BY <1>1 DEF Counting
<1>3. \A s \in DOMAIN taken : taken[s] = Len(Group(s))
  BY <1>2, FollowersFacts, GroupsFacts
<1>4. out = ids
  BY <1>1, <1>2, SameSequence DEF Extends
<1>5. Finish(out)
  BY <1>3 DEF CloseContexts
<1>. QED BY <1>4, <1>5 DEF Finish, encoder

-----------------------------------------------------------------------------
(* The invariant.                                                          *)

Started ==
    /\ out = <<>> /\ known = FirstRecent
    /\ read = [sequences |-> 0, literals |-> 0, bits |-> 0]

\* What the decoder is given: the code of the map, in one of three forms.
Told ==
    \/ file.tag = 0 /\ \A j \in DOMAIN ids : ids[j] = file.value
    \/ file = ContextFile(ids)
    \/ file.tag = 2 /\ \E f : Tells(file, ids, f)

Inv ==
    /\ pc \in {"map", "parse", "read", "contexts", "sequences", "done"}
    /\ pc = "map" => Fresh /\ Started
    /\ pc = "parse" =>
          Started /\ ids \in Seq(Byte) /\ Parsing /\ Table /\ Streams /\ Written /\ Packed
    /\ pc = "read" => Started /\ ids \in Seq(Byte) /\ Told
    /\ pc = "contexts" => Counting
    /\ pc = "sequences" => \E f : Tells(file, ids, f) /\ Reading(f)
    /\ pc = "done" => out = ids

\* The invariant holds at the start, and after every step.
LEMMA InitHolds == Init => Inv
  BY DEF Init, Inv, Fresh, Started

LEMMA PickHolds == Inv /\ Pick => Inv'
<1>. SUFFICES ASSUME Inv, Pick PROVE Inv'
  OBVIOUS
<1>1. pc = "map" /\ Fresh /\ Started
  BY DEF Pick, Inv
<1>2. Started' /\ ids' \in Seq(Byte)
  <2>1. ids' \in Seq(Byte)
    BY InputsAssumption DEF Pick
  <2>. QED BY <1>1, <2>1 DEF Pick, Started, decoder
<1>3. CASE \A j \in DOMAIN ids' : ids'[j] = ids'[1]
  <2>1. file' = [tag |-> 0, value |-> ids'[1]] /\ pc' = "read"
    BY <1>3 DEF Pick
  <2>2. Told'
    BY <1>3, <2>1 DEF Told
  <2>. QED BY <1>2, <2>1, <2>2 DEF Inv
<1>4. CASE ~ \A j \in DOMAIN ids' : ids'[j] = ids'[1]
  <2>1. pc' = "parse"
    BY <1>4 DEF Pick
  <2>2. Parsing' /\ Table' /\ Streams' /\ Written' /\ Packed'
    BY <1>1, <2>1, PickParse
  <2>. QED BY <1>2, <2>1, <2>2 DEF Inv
<1>. QED BY <1>3, <1>4

LEMMA LiteralHolds == Inv /\ Literal => Inv'
<1>. SUFFICES ASSUME Inv, Literal PROVE Inv'
  OBVIOUS
<1>1. pc = "parse" /\ Started /\ ids \in Seq(Byte) /\ Parsing /\ Table /\ Streams /\ Written /\ Packed
  BY DEF Literal, Inv
<1>2. pc' = "parse" /\ Started' /\ ids' \in Seq(Byte) /\ Packed'
  BY <1>1 DEF Literal, Started, Packed, decoder
<1>3. Parsing' /\ Streams' /\ Written'
  BY <1>1, LiteralStreams
<1>4. Table'
  <2>1. i + 1 - 1 = i
    BY <1>1 DEF Parsing
  <2>2. i' = i + 1 /\ bytes' = bytes
        /\ head' = Inserted(i, LastInserted(i + 1 - 1)).head
        /\ chain' = Inserted(i, LastInserted(i + 1 - 1)).chain
    BY <2>1 DEF Literal
  <2>3. 1 \in Nat \ {0}
    OBVIOUS
  <2>. HIDE DEF Table, Parsing, Inserted, LastInserted
  <2>. QED BY <1>1, <2>2, <2>3, TableMoves
<1>. QED BY <1>2, <1>3, <1>4 DEF Inv

LEMMA MatchHolds == Inv /\ Match => Inv'
<1>. SUFFICES ASSUME Inv, Match PROVE Inv'
  OBVIOUS
<1>1. pc = "parse" /\ Started /\ ids \in Seq(Byte) /\ Parsing /\ Table /\ Streams /\ Written /\ Packed
  BY DEF Match, Inv
<1>2. pc' = "parse" /\ Started' /\ ids' \in Seq(Byte) /\ Packed'
  BY <1>1 DEF Match, Started, Packed, decoder
<1>3. Parsing' /\ Streams' /\ Written'
  BY <1>1, MatchStreams
<1>4. Table'
  <2>1. PICK n : n = Longest
    OBVIOUS
  <2>2. n \in Nat \ {0}
    <3>1. recent \in Known /\ Matches # {}
      BY <1>1, MatchMoves DEF Streams
    <3>2. Longest \in MinMatch .. Left(i)
      BY <1>1, <3>1, LongestFacts
    <3>. QED BY SizesAssumption, <2>1, <3>2
  <2>3. i' = i + n /\ bytes' = bytes
        /\ head' = Inserted(i, LastInserted(i + n - 1)).head
        /\ chain' = Inserted(i, LastInserted(i + n - 1)).chain
    BY <2>1, MatchMoves
  <2>. QED BY <1>1, <2>2, <2>3, TableMoves
<1>. QED BY <1>2, <1>3, <1>4 DEF Inv

LEMMA KeepHolds == Inv /\ Keep => Inv'
<1>. SUFFICES ASSUME Inv, Keep PROVE Inv'
  OBVIOUS
<1>1. pc = "parse" /\ Started /\ ids \in Seq(Byte) /\ Parsing /\ Streams /\ Written /\ Packed
      /\ i > Len(bytes)
  BY DEF Keep, Inv
<1>2. pc' = "read" /\ Started' /\ ids' = ids /\ ids' \in Seq(Byte)
  BY <1>1 DEF Keep, Started, encoder, decoder
<1>3. Told'
  <2>1. CASE file' = ContextFile(ids)
    BY <1>2, <2>1 DEF Told
  <2>2. CASE file' = LZFile
    <3>1. PICK f : Tells(LZFile, ids, f)
      BY <1>1, KeepTells
    <3>2. Tells(file', ids', f)
      BY <1>2, <2>2, <3>1
    <3>3. file'.tag = 2
      BY <2>2 DEF LZFile
    <3>. QED BY <3>2, <3>3 DEF Told
  <2>. QED BY <2>1, <2>2 DEF Keep
<1>. QED BY <1>2, <1>3 DEF Inv

\* The tag says which form the code has.
LEMMA ToldByTag ==
    ASSUME Told
    PROVE  /\ file.tag = 0 => \A j \in DOMAIN ids : ids[j] = file.value
           /\ file.tag = 1 => file = ContextFile(ids)
           /\ file.tag = 2 => \E f : Tells(file, ids, f)
<1>1. ContextFile(ids).tag = 1
  BY DEF ContextFile
<1>. QED BY <1>1 DEF Told

LEMMA ReadConstantHolds == Inv /\ ReadConstant => Inv'
<1>. SUFFICES ASSUME Inv, ReadConstant PROVE Inv'
  OBVIOUS
<1>1. pc = "read" /\ ids \in Seq(Byte) /\ Told /\ file.tag = 0
  BY DEF Inv, ReadConstant
<1>2. \A j \in DOMAIN ids : ids[j] = file.value
  BY <1>1, ToldByTag
<1>3. ids = [j \in 1 .. Len(ids) |-> file.value]
  <2>1. ids = [j \in 1 .. Len(ids) |-> ids[j]] /\ DOMAIN ids = 1 .. Len(ids)
    BY <1>1
  <2>. QED BY <1>2, <2>1
<1>4. pc' = "done" /\ out' = ids /\ ids' = ids
  BY <1>3 DEF ReadConstant, Finish, encoder
<1>. QED BY <1>4 DEF Inv

LEMMA ContextsHold ==
    ASSUME Inv, OpenContexts \/ ReadContext \/ CloseContexts
    PROVE  Inv'
<1>1. CASE OpenContexts
  <2>1. pc = "read" /\ ids \in Seq(Byte) /\ Told /\ file.tag = 1 /\ out = <<>>
    BY <1>1 DEF Inv, OpenContexts, Started
  <2>2. file = ContextFile(ids)
    BY <2>1, ToldByTag
  <2>3. pc' = "contexts" /\ Counting'
    BY <1>1, <2>1, <2>2, OpenCounts
  <2>. QED BY <2>3 DEF Inv
<1>2. CASE ReadContext
  <2>1. Counting
    BY <1>2 DEF Inv, ReadContext
  <2>2. pc' = "contexts" /\ Counting'
    BY <1>2, <2>1, ReadCounts
  <2>. QED BY <2>2 DEF Inv
<1>3. CASE CloseContexts
  <2>1. Counting
    BY <1>3 DEF Inv, CloseContexts
  <2>2. pc' = "done" /\ out' = ids /\ ids' = ids
    BY <1>3, <2>1, CloseCounts
  <2>. QED BY <2>2 DEF Inv
<1>. QED BY <1>1, <1>2, <1>3

LEMMA SequencesHold ==
    ASSUME Inv, OpenSequences \/ ReadSequence \/ CloseSequences
    PROVE  Inv'
<1>1. CASE OpenSequences
  <2>1. pc = "read" /\ Told /\ file.tag = 2 /\ Started
    BY <1>1 DEF Inv, OpenSequences
  <2>2. PICK f : Tells(file, ids, f)
    BY <2>1, ToldByTag
  <2>3. pc' = "sequences" /\ Tells(file, ids, f)' /\ Reading(f)'
    BY <1>1, <2>1, <2>2, OpenTells DEF Started
  <2>. QED BY <2>3 DEF Inv
<1>2. CASE ReadSequence
  <2>1. PICK f : Tells(file, ids, f) /\ Reading(f)
    BY <1>2 DEF Inv, ReadSequence
  <2>2. pc' = "sequences" /\ Tells(file, ids, f)' /\ Reading(f)'
    BY <1>2, <2>1, ReadTells
  <2>. QED BY <2>2 DEF Inv
<1>3. CASE CloseSequences
  <2>1. PICK f : Tells(file, ids, f) /\ Reading(f)
    BY <1>3 DEF Inv, CloseSequences
  <2>2. pc' = "done" /\ out' = ids /\ ids' = ids
    BY <1>3, <2>1, CloseTells
  <2>. QED BY <2>2 DEF Inv
<1>. QED BY <1>1, <1>2, <1>3

LEMMA NextHolds == Inv /\ [Next]_vars => Inv'
<1>. SUFFICES ASSUME Inv, [Next]_vars PROVE Inv'
  OBVIOUS
<1>1. CASE UNCHANGED vars
  <2>1. /\ pc' = pc /\ ids' = ids /\ bytes' = bytes /\ i' = i /\ head' = head /\ chain' = chain
        /\ recent' = recent /\ pending' = pending /\ codes' = codes /\ bits' = bits
        /\ literals' = literals /\ file' = file
        /\ out' = out /\ taken' = taken /\ read' = read /\ known' = known
    BY <1>1 DEF vars, encoder, decoder
  <2>2. (Fresh' <=> Fresh) /\ (Started' <=> Started)
    BY <2>1 DEF Fresh, Started
  <2>3. (Parsing' <=> Parsing) /\ (Table' <=> Table) /\ (Streams' <=> Streams) /\ (Packed' <=> Packed)
    BY <2>1 DEF Parsing, Table, Top, Streams, Packed
  <2>4. Written => Written'
    <3>. SUFFICES ASSUME Written PROVE Written'
      OBVIOUS
    <3>1. PICK f, a : Tape(f, Len(codes[2]), codes, bits, literals, bytes)
                      /\ a = f[Len(codes[2])] /\ Ends(a)
      BY DEF Written
    <3>2. Ends(a)'
      BY <2>1, <3>1 DEF Ends
    <3>. QED BY <2>1, <3>1, <3>2 DEF Written
  <2>5. Told => Told'
    BY <2>1 DEF Told
  <2>6. Counting => Counting'
    BY <2>1 DEF Counting
  <2>7. (\E f : Tells(file, ids, f) /\ Reading(f)) => (\E f : Tells(file, ids, f) /\ Reading(f))'
    BY <2>1 DEF Reading
  <2>. QED BY <2>1, <2>2, <2>3, <2>4, <2>5, <2>6, <2>7 DEF Inv
<1>. QED BY <1>1, PickHolds, LiteralHolds, MatchHolds, KeepHolds, ReadConstantHolds,
            ContextsHold, SequencesHold DEF Next

\* The invariant holds always.
THEOREM Inductive == Spec => []Inv
  BY InitHolds, NextHolds, PTL DEF Spec

\* Whatever code was kept, the decoder never refuses what the encoder wrote
\* and restores every choice.
THEOREM MapsRestored == Spec => []DecodesIds
<1>1. Inv => DecodesIds
  BY DEF Inv, DecodesIds
<1>. QED BY <1>1, Inductive, PTL

\* The encoder never follows a chain into memory nothing was written to.
THEOREM ChainsWritten == Spec => []ChainReadsWritten
<1>1. Inv => ChainReadsWritten
  <2>. SUFFICES ASSUME Inv, pc = "parse", Left(i) >= MinMatch, NEW t \in 0 .. MaxTrials
                PROVE  Candidate[t] # Unwritten
    BY DEF ChainReadsWritten
  <2>1. Parsing /\ Table
    BY DEF Inv
  <2>2. i <= Top
    BY SizesAssumption, <2>1 DEF Parsing, Left, Top
  <2>3. Links(Candidate[t], i)
    BY <2>1, <2>2, CandidateFacts
  <2>4. 1 .. i - 1 \subseteq Nat
    BY <2>1 DEF Parsing
  <2>. QED BY MarksAssumption, <2>3, <2>4 DEF Links
<1>. QED BY <1>1, Inductive, PTL

=============================================================================
