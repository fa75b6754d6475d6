--------------------------- MODULE LaneRansProofs ---------------------------
(***************************************************************************)
(* What LaneRans promises, for every width, number of lanes, table and     *)
(* message: the decoder retraces the encoder, the message comes back, and  *)
(* the space set aside is enough.                                          *)
(***************************************************************************)
EXTENDS LaneRans, FiniteSetTheorems, SequenceTheorems, WellFoundedInduction, TLAPS

-----------------------------------------------------------------------------
(* Induction over numbers, with a set for the predicate.                   *)

Less == {p \in Nat \X Nat : p[1] < p[2]}

\* A set of numbers that is not empty has a least one.
LEMMA LeastNumber ==
    ASSUME NEW T, T \subseteq Nat, T # {}
    PROVE  \E a \in T : \A b \in T : a <= b
<1>1. IsWellFoundedOn(Less, Nat)
  <2>1. IsWellFoundedOn(OpToRel(<, Nat), Nat)
    BY NatLessThanWellFounded
  <2>2. OpToRel(<, Nat) = Less
    BY DEF OpToRel, Less
  <2>. QED BY <2>1, <2>2
<1>2. PICK a \in T : \A b \in T : ~ (<<b, a>> \in Less)
  BY <1>1, WFMin, Zenon
<1>3. ASSUME NEW b \in T
      PROVE  a <= b
  <2>1. a \in Nat /\ b \in Nat /\ ~ (<<b, a>> \in Less)
    BY <1>2
  <2>2. b < a => <<b, a>> \in Less
    BY <2>1 DEF Less
  <2>. QED BY <2>1, <2>2
<1>. QED BY <1>3

\* A set with zero and all successors of its numbers has all numbers.
LEMMA NumberInduction ==
    ASSUME NEW T, T \subseteq Nat, 0 \in T, \A n \in T : n + 1 \in T
    PROVE  T = Nat
<1>. SUFFICES ASSUME T # Nat PROVE FALSE
  OBVIOUS
<1>1. PICK a \in Nat \ T : \A b \in Nat \ T : a <= b
  <2>. DEFINE U == Nat \ T
  <2>1. U \subseteq Nat /\ U # {}
    OBVIOUS
  <2>. HIDE DEF U
  <2>2. \E a \in U : \A b \in U : a <= b
    BY <2>1, LeastNumber
  <2>. QED BY <2>2 DEF U
<1>2. a # 0 /\ a - 1 \in Nat /\ ~ (a <= a - 1)
  BY <1>1
<1>3. a - 1 \in T
  BY <1>1, <1>2
<1>4. (a - 1) + 1 = a
  BY <1>1
<1>. QED BY <1>1, <1>3, <1>4

\* The same up to a bound.
LEMMA BoundedInduction ==
    ASSUME NEW n \in Nat, NEW T, 0 \in T, \A m \in 0 .. n - 1 : m \in T => m + 1 \in T
    PROVE  \A m \in 0 .. n : m \in T
<1>. DEFINE U == {m \in Nat : m <= n => m \in T}
<1>1. 0 \in U
  OBVIOUS
<1>2. ASSUME NEW m \in U
      PROVE  m + 1 \in U
  <2>1. m \in Nat /\ (m <= n => m \in T)
    OBVIOUS
  <2>2. m + 1 <= n => m \in 0 .. n - 1 /\ m <= n
    BY <2>1
  <2>. QED BY <2>1, <2>2
<1>3. U = Nat
  <2>1. U \subseteq Nat
    OBVIOUS
  <2>. HIDE DEF U
  <2>. QED BY <1>1, <1>2, <2>1, NumberInduction
<1>. QED BY <1>3

\* e lists a, g[1] of that, g[2] of that, and so on up to n.
Lists(e, n, a, g) == e = [k \in 0 .. n |-> IF k = 0 THEN a ELSE g[k][e[k - 1]]]

\* Values that each follow from the one before can be listed.
LEMMA RecursionExists ==
    ASSUME NEW n \in Nat, NEW a, NEW g
    PROVE  \E e : Lists(e, n, a, g)
<1>. DEFINE Part(e, m) == e = [k \in 0 .. m |-> IF k = 0 THEN a ELSE g[k][e[k - 1]]]
            T == {m \in Nat : \E e : Part(e, m)}
<1>1. 0 \in T
  <2>. DEFINE e == [k \in 0 .. 0 |-> a]
  <2>1. \A k \in 0 .. 0 : k = 0
    OBVIOUS
  <2>2. Part(e, 0)
    BY <2>1
  <2>. QED BY <2>2
<1>2. ASSUME NEW m \in T
      PROVE  m + 1 \in T
  <2>1. m \in Nat
    OBVIOUS
  <2>2. PICK e : Part(e, m)
    OBVIOUS
  <2>. DEFINE z == m + 1
              K == 0 .. m
              H == 0 .. z
              f == [k \in H |-> IF k = z THEN g[z][e[m]] ELSE e[k]]
              Step(d, k) == IF k = 0 THEN a ELSE g[k][d[k - 1]]
  <2>. HIDE DEF T
  <2>3. /\ z \in H /\ m \in K /\ z - 1 = m /\ z # 0
        /\ \A k \in H : k = z \/ k \in K
        /\ \A k \in K : k \in H /\ k # z
        /\ \A k \in K : k # 0 => k - 1 \in K
    BY <2>1
  <2>4. \A k \in K : e[k] = Step(e, k)
    <3>1. e = [k \in K |-> Step(e, k)]
      BY <2>2
    <3>. DEFINE b(k) == Step(e, k)
    <3>2. e = [k \in K |-> b(k)]
      BY <3>1
    <3>. HIDE DEF b, K
    <3>3. \A k \in K : e[k] = b(k)
      BY <3>2
    <3>. QED BY <3>3 DEF b
  <2>. HIDE DEF K, H
  <2>5. \A k \in H : f[k] = IF k = z THEN g[z][e[m]] ELSE e[k]
    OBVIOUS
  <2>6. f = [k \in H |-> f[k]]
    OBVIOUS
  <2>. HIDE DEF f, z
  <2>7. ASSUME NEW k \in H
        PROVE  f[k] = Step(f, k)
    <3>1. CASE k = z
      <4>1. f[m] = e[m] /\ f[z] = g[z][e[m]]
        BY <2>3, <2>5
      <4>. QED BY <2>3, <3>1, <4>1
    <3>2. CASE k # z
      <4>1. k \in K /\ f[k] = e[k] /\ e[k] = Step(e, k)
        BY <2>3, <2>4, <2>5, <3>2
      <4>2. k # 0 => f[k - 1] = e[k - 1]
        BY <2>3, <2>5, <4>1
      <4>. QED BY <4>1, <4>2
    <3>. QED BY <3>1, <3>2
  <2>8. f = [k \in H |-> Step(f, k)]
    <3>. HIDE DEF Step
    <3>. QED BY <2>6, <2>7
  <2>9. Part(f, m + 1)
    BY <2>8 DEF H, z
  <2>. HIDE DEF Part
  <2>. QED BY <2>1, <2>9 DEF T
<1>3. T = Nat
  <2>1. T \subseteq Nat
    OBVIOUS
  <2>. HIDE DEF T
  <2>. QED BY <1>1, <1>2, <2>1, NumberInduction
<1>4. \E e : Part(e, n)
  BY <1>3
<1>. QED BY <1>4 DEF Lists

\* Numbers that each follow from the one before: the list is unique and of numbers.
LEMMA NumbersExist ==
    ASSUME NEW n \in Nat, NEW a \in Nat, NEW g \in [1 .. n -> [Nat -> Nat]]
    PROVE  \E e \in [0 .. n -> Nat] : Lists(e, n, a, g)
<1>1. PICK e : Lists(e, n, a, g)
  BY RecursionExists
<1>. DEFINE T == {m \in Nat : m \in 0 .. n /\ e[m] \in Nat}
<1>2. 0 \in T
  BY <1>1 DEF Lists
<1>3. ASSUME NEW m \in 0 .. n - 1, m \in T
      PROVE  m + 1 \in T
  <2>1. m + 1 \in 0 .. n /\ m + 1 \in 1 .. n /\ m + 1 # 0 /\ (m + 1) - 1 = m
    OBVIOUS
  <2>2. e[m + 1] = g[m + 1][e[m]]
    BY <1>1, <2>1 DEF Lists
  <2>3. g[m + 1] \in [Nat -> Nat] /\ e[m] \in Nat
    BY <1>3, <2>1
  <2>4. g[m + 1][e[m]] \in Nat
    BY <2>3
  <2>5. e[m + 1] \in Nat
    BY <2>2, <2>4
  <2>. QED BY <2>1, <2>5
<1>4. \A m \in 0 .. n : m \in T
  <2>. HIDE DEF T
  <2>. QED BY <1>2, <1>3, BoundedInduction
<1>5. \A m \in 0 .. n : e[m] \in Nat
  BY <1>4
<1>6. e \in [0 .. n -> Nat]
  <2>1. e = [k \in 0 .. n |-> e[k]]
    BY <1>1 DEF Lists
  <2>. QED BY <1>5, <2>1
<1>. QED BY <1>1, <1>6

-----------------------------------------------------------------------------
(* Powers of two.                                                          *)

N == MBits + WideBits

\* Each is twice the one before.
LEMMA TwoFacts ==
    /\ N \in Nat /\ Two \in [0 .. N -> Nat]
    /\ Two[0] = 1
    /\ \A k \in 0 .. N : k # 0 => Two[k] = 2 * Two[k - 1]
<1>1. N \in Nat
  BY WidthAssumption DEF N
<1>. DEFINE g == [k \in 1 .. N |-> [v \in Nat |-> 2 * v]]
<1>2. g \in [1 .. N -> [Nat -> Nat]]
  OBVIOUS
<1>3. \A k \in 1 .. N, v \in Nat : g[k][v] = 2 * v
  OBVIOUS
<1>. HIDE DEF g
<1>4. PICK e \in [0 .. N -> Nat] : Lists(e, N, 1, g)
  BY <1>1, <1>2, NumbersExist
<1>5. e = [k \in 0 .. N |-> IF k = 0 THEN 1 ELSE 2 * e[k - 1]]
  <2>1. ASSUME NEW k \in 0 .. N
        PROVE  (IF k = 0 THEN 1 ELSE g[k][e[k - 1]]) = IF k = 0 THEN 1 ELSE 2 * e[k - 1]
    <3>1. k # 0 => k \in 1 .. N /\ k - 1 \in 0 .. N
      BY <1>1
    <3>2. k # 0 => e[k - 1] \in Nat
      BY <3>1
    <3>. QED BY <1>3, <3>1, <3>2
  <2>. QED BY <1>4, <2>1 DEF Lists
<1>6. Two = [k \in 0 .. N |-> IF k = 0 THEN 1 ELSE 2 * Two[k - 1]]
  BY <1>5 DEF Two, N
<1>. DEFINE T == {m \in Nat : m \in 0 .. N /\ Two[m] \in Nat}
<1>7. 0 \in T
  BY <1>1, <1>6
<1>8. ASSUME NEW m \in 0 .. N - 1, m \in T
      PROVE  m + 1 \in T
  <2>1. m + 1 \in 0 .. N /\ m + 1 # 0 /\ (m + 1) - 1 = m
    BY <1>1
  <2>. QED BY <1>6, <1>8, <2>1
<1>9. \A m \in 0 .. N : m \in T
  <2>. HIDE DEF T
  <2>. QED BY <1>1, <1>7, <1>8, BoundedInduction
<1>10. Two \in [0 .. N -> Nat]
  <2>1. Two = [k \in 0 .. N |-> Two[k]]
    BY <1>6
  <2>2. \A m \in 0 .. N : Two[m] \in Nat
    BY <1>9
  <2>. QED BY <2>1, <2>2
<1>11. Two[0] = 1 /\ \A k \in 0 .. N : k # 0 => Two[k] = 2 * Two[k - 1]
  BY <1>1, <1>6
<1>. QED BY <1>1, <1>10, <1>11

\* Exponents add up.
LEMMA TwoSum ==
    ASSUME NEW a \in Nat, NEW b \in Nat, a + b <= N
    PROVE  Two[a + b] = Two[a] * Two[b]
<1>. DEFINE T == {m \in Nat : m \in 0 .. b /\ Two[a + m] = Two[a] * Two[m]}
<1>1. a \in 0 .. N /\ b \in 0 .. N /\ N \in Nat /\ Two[a] \in Nat
  BY TwoFacts
<1>2. 0 \in T
  BY <1>1, TwoFacts
<1>3. ASSUME NEW m \in 0 .. b - 1, m \in T
      PROVE  m + 1 \in T
  <2>1. /\ a + m \in 0 .. N /\ m \in 0 .. N /\ m + 1 \in 0 .. N /\ m + 1 # 0
        /\ a + (m + 1) \in 0 .. N /\ a + (m + 1) # 0
        /\ (a + (m + 1)) - 1 = a + m /\ (m + 1) - 1 = m /\ m + 1 \in 0 .. b
    BY <1>1
  <2>2. Two[a + (m + 1)] = 2 * Two[a + m] /\ Two[m + 1] = 2 * Two[m]
    BY <2>1, TwoFacts
  <2>3. Two[a + m] = Two[a] * Two[m]
    BY <1>3
  <2>4. Two[m] \in Nat
    BY <2>1, TwoFacts
  <2>5. 2 * (Two[a] * Two[m]) = Two[a] * (2 * Two[m])
    BY <1>1, <2>4
  <2>. QED BY <2>1, <2>2, <2>3, <2>5
<1>4. \A m \in 0 .. b : m \in T
  <2>. HIDE DEF T
  <2>. QED BY <1>2, <1>3, BoundedInduction
<1>5. b \in T
  BY <1>4
<1>. QED BY <1>5

\* No power is zero.
LEMMA TwoPositive ==
    ASSUME NEW b \in 0 .. N
    PROVE  Two[b] \in Nat \ {0}
<1>. DEFINE T == {m \in Nat : m \in 0 .. b /\ Two[m] \in Nat \ {0}}
<1>1. N \in Nat /\ b \in Nat
  BY TwoFacts
<1>2. 0 \in T
  BY <1>1, TwoFacts
<1>3. ASSUME NEW m \in 0 .. b - 1, m \in T
      PROVE  m + 1 \in T
  <2>1. m + 1 \in 0 .. N /\ m + 1 # 0 /\ (m + 1) - 1 = m /\ m + 1 \in 0 .. b
    BY <1>1
  <2>2. Two[m + 1] = 2 * Two[m]
    BY <2>1, TwoFacts
  <2>. QED BY <1>3, <2>1, <2>2
<1>4. \A m \in 0 .. b : m \in T
  <2>. HIDE DEF T
  <2>. QED BY <1>1, <1>2, <1>3, BoundedInduction
<1>. QED BY <1>1, <1>4

-----------------------------------------------------------------------------
(* Division.                                                               *)

\* What quotient and remainder are.
LEMMA DivisionFacts ==
    ASSUME NEW v \in Nat, NEW d \in Nat \ {0}
    PROVE  /\ v \div d \in Nat /\ v % d \in Nat /\ v % d < d
           /\ v = d * (v \div d) + (v % d)
<1>1. \A u \in Int, k \in Nat \ {0} :
          u = k * (u \div k) + (u % k) /\ u % k \in 0 .. k - 1 /\ u \div k \in Int
  OBVIOUS
<1>2. v = d * (v \div d) + (v % d) /\ v % d \in 0 .. d - 1 /\ v \div d \in Int
  BY <1>1
<1>. DEFINE q == v \div d
            r == v % d
<1>3. q \in Int /\ r \in 0 .. d - 1 /\ v = d * q + r
  BY <1>2
<1>. HIDE DEF q, r
<1>4. q >= 0
  <2>. SUFFICES ASSUME q < 0 PROVE FALSE
    BY <1>3
  <2>1. PICK c \in Nat : q = - 1 - c
    <3>1. - 1 - q \in Nat /\ q = - 1 - (- 1 - q)
      BY <1>3
    <3>. QED BY <3>1
  <2>2. d * q = - d - d * c /\ d * c \in Nat
    BY <2>1
  <2>. QED BY <1>3, <2>2
<1>. QED BY <1>3, <1>4 DEF q, r

\* The quotient is the one number between whose multiples the dividend lies.
LEMMA DivisionUnique ==
    ASSUME NEW v \in Nat, NEW d \in Nat \ {0}, NEW q \in Nat, d * q <= v, v < d * q + d
    PROVE  v \div d = q /\ v % d = v - d * q
<1>. DEFINE p == v \div d
            r == v % d
<1>1. p \in Nat /\ r \in Nat /\ r < d /\ v = d * p + r
  BY DivisionFacts
<1>. HIDE DEF p, r
<1>2. CASE p < q
  <2>1. p + 1 <= q
    BY <1>1, <1>2
  <2>2. PICK c \in Nat : q = p + 1 + c
    <3>1. q - (p + 1) \in Nat /\ q = p + 1 + (q - (p + 1))
      BY <1>1, <2>1
    <3>. QED BY <3>1
  <2>3. d * q = d * p + d + d * c /\ d * c \in Nat
    BY <1>1, <2>2
  <2>. QED BY <1>1, <2>3
<1>3. CASE p > q
  <2>1. PICK c \in Nat : p = q + 1 + c
    <3>1. p - (q + 1) \in Nat /\ p = q + 1 + (p - (q + 1))
      BY <1>1, <1>3
    <3>. QED BY <3>1
  <2>2. d * p = d * q + d + d * c /\ d * c \in Nat
    BY <1>1, <2>1
  <2>. QED BY <1>1, <2>2
<1>4. p = q => r = v - d * q
  BY <1>1
<1>. QED BY <1>1, <1>2, <1>3, <1>4 DEF p, r

\* A product grows with either factor.
LEMMA ProductMonotone ==
    ASSUME NEW a \in Nat, NEW b \in Nat, NEW c \in Nat, NEW d \in Nat, a <= c, b <= d
    PROVE  a * b \in Nat /\ c * d \in Nat /\ a * b <= c * d
<1>1. PICK u \in Nat : c = a + u
  <2>1. c - a \in Nat /\ c = a + (c - a)
    OBVIOUS
  <2>. QED BY <2>1
<1>2. PICK v \in Nat : d = b + v
  <2>1. d - b \in Nat /\ d = b + (d - b)
    OBVIOUS
  <2>. QED BY <2>1
<1>3. c * d = a * b + a * v + u * b + u * v
  BY <1>1, <1>2
<1>4. a * b \in Nat /\ a * v \in Nat /\ u * b \in Nat /\ u * v \in Nat
  OBVIOUS
<1>. QED BY <1>3, <1>4

-----------------------------------------------------------------------------
(* The widths.                                                             *)

\* States per slot at the lower end of a lane's range.
Q == Two[WordBits - 1 - MBits]

\* How the widths are related.
LEMMA WidthFacts ==
    /\ M \in Nat /\ M >= 2 /\ B \in Nat /\ B >= 2 /\ L \in Nat /\ L >= 1 /\ Wide \in Nat
    /\ Q \in Nat /\ Q >= 1
    /\ L = Q * M /\ B = 2 * L /\ M * M <= B /\ B * B <= Wide
    /\ L \div M = Q
<1>1. /\ MBits \in Nat /\ WordBits \in Nat /\ WideBits \in Nat
      /\ MBits >= 1 /\ 2 * MBits <= WordBits /\ 2 * WordBits <= WideBits
      /\ N = MBits + WideBits
  BY WidthAssumption DEF N
<1>2. /\ MBits \in 0 .. N /\ WordBits \in 0 .. N /\ WideBits \in 0 .. N
      /\ WordBits - 1 \in 0 .. N /\ WordBits - 1 - MBits \in 0 .. N /\ MBits - 1 \in 0 .. N
      /\ WordBits # 0 /\ MBits # 0
      /\ WordBits - 1 - MBits \in Nat
  BY <1>1
<1>3. M \in Nat \ {0} /\ B \in Nat \ {0} /\ L \in Nat \ {0} /\ Wide \in Nat \ {0} /\ Q \in Nat \ {0}
  BY <1>2, TwoPositive DEF M, B, L, Wide, Q
<1>4. L = Q * M
  <2>1. (WordBits - 1 - MBits) + MBits = WordBits - 1 /\ WordBits - 1 <= N
    BY <1>1
  <2>. DEFINE q == WordBits - 1 - MBits
  <2>2. q \in Nat /\ q + MBits = WordBits - 1 /\ q + MBits <= N /\ MBits \in Nat
    BY <1>1, <1>2, <2>1
  <2>. HIDE DEF q
  <2>3. Two[q + MBits] = Two[q] * Two[MBits]
    BY <2>2, TwoSum
  <2>4. Two[WordBits - 1] = Two[q] * Two[MBits]
    BY <2>2, <2>3
  <2>. QED BY <2>4 DEF L, Q, M, q
<1>5. B = 2 * L
  BY <1>2, TwoFacts DEF B, L
<1>6. M >= 2
  <2>1. M = 2 * Two[MBits - 1] /\ Two[MBits - 1] \in Nat \ {0}
    BY <1>2, TwoFacts, TwoPositive DEF M
  <2>. QED BY <2>1
<1>7. M * M <= B
  <2>. DEFINE c == MBits + MBits
              d == WordBits - c
  <2>1. c \in Nat /\ d \in Nat /\ c + d = WordBits /\ c + d <= N /\ c <= N /\ d \in 0 .. N
    BY <1>1
  <2>2. Two[c] = M * M
    BY <1>1, <2>1, TwoSum DEF M
  <2>. HIDE DEF c, d
  <2>3. Two[c + d] = Two[c] * Two[d] /\ Two[d] \in Nat \ {0}
    BY <2>1, TwoSum, TwoPositive
  <2>4. B = (M * M) * Two[d]
    BY <2>1, <2>2, <2>3 DEF B
  <2>5. M * M \in Nat /\ 1 <= Two[d] /\ (M * M) * 1 = M * M
    BY <1>3, <2>3
  <2>6. (M * M) * 1 <= (M * M) * Two[d]
    BY <2>3, <2>5, ProductMonotone
  <2>. QED BY <2>4, <2>5, <2>6
<1>8. B * B <= Wide
  <2>. DEFINE c == WordBits + WordBits
              d == WideBits - c
  <2>1. c \in Nat /\ d \in Nat /\ c + d = WideBits /\ c + d <= N /\ c <= N /\ d \in 0 .. N
    BY <1>1
  <2>2. Two[c] = B * B
    BY <1>1, <2>1, TwoSum DEF B
  <2>. HIDE DEF c, d
  <2>3. Two[c + d] = Two[c] * Two[d] /\ Two[d] \in Nat \ {0}
    BY <2>1, TwoSum, TwoPositive
  <2>4. Wide = (B * B) * Two[d]
    BY <2>1, <2>2, <2>3 DEF Wide
  <2>5. B * B \in Nat /\ 1 <= Two[d] /\ (B * B) * 1 = B * B
    BY <1>3, <2>3
  <2>6. (B * B) * 1 <= (B * B) * Two[d]
    BY <2>3, <2>5, ProductMonotone
  <2>. QED BY <2>4, <2>5, <2>6
<1>9. L \div M = Q
  <2>1. M * Q <= L /\ L < M * Q + M
    BY <1>3, <1>4
  <2>. QED BY <1>3, <2>1, DivisionUnique
<1>10. B >= 2
  BY <1>3, <1>5
<1>. QED BY <1>3, <1>4, <1>5, <1>6, <1>7, <1>8, <1>9, <1>10

-----------------------------------------------------------------------------
(* Division by a frequency as a multiplication.                            *)

\* Dividing twice is dividing by the product.
LEMMA DivisionTwice ==
    ASSUME NEW v \in Nat, NEW c \in Nat \ {0}, NEW d \in Nat \ {0}
    PROVE  c * d \in Nat \ {0} /\ (v \div c) \div d = v \div (c * d)
<1>. DEFINE h == v \div c
            p == h \div d
            r == v % c
            t == h % d
<1>1. h \in Nat /\ r \in Nat /\ r < c /\ v = c * h + r
  BY DivisionFacts
<1>. HIDE DEF h, r
<1>2. p \in Nat /\ t \in Nat /\ t < d /\ h = d * p + t
  BY <1>1, DivisionFacts
<1>. HIDE DEF p, t
<1>3. v = (c * d) * p + (c * t + r)
  BY <1>1, <1>2
<1>4. c * (t + 1) <= c * d /\ c * (t + 1) = c * t + c /\ c * t \in Nat
  <2>1. t + 1 <= d /\ t + 1 \in Nat
    BY <1>2
  <2>2. c * (t + 1) <= c * d
    BY <2>1, ProductMonotone
  <2>. QED BY <1>2, <2>2
<1>5. c * d \in Nat \ {0}
  BY <1>1, <1>4
<1>. DEFINE e == c * d
<1>6. e * p <= v /\ v < e * p + e
  BY <1>1, <1>2, <1>3, <1>4, <1>5
<1>7. v \div e = p
  BY <1>2, <1>5, <1>6, DivisionUnique
<1>. QED BY <1>5, <1>7 DEF p, h

\* R is (w * k) / f, rounded up, e is what rounding added, and v is small enough.
Reciprocal(R, f, w, k, e, v) == R * f = w * k + e /\ e < f /\ f <= 2 * k /\ 2 * v <= w

\* Multiplying by R is dividing by f.
Divides(R, f, w, k, v) == ((v * R) \div w) \div k = v \div f

\* A reciprocal that is rounded up divides.
LEMMA RoundedUp ==
    ASSUME NEW f \in Nat \ {0}, NEW v \in Nat, NEW w \in Nat \ {0}, NEW k \in Nat \ {0},
           NEW a \in Nat, NEW b \in Nat, Reciprocal(a, f, w, k, b, v)
    PROVE  Divides(a, f, w, k, v)
<1>. USE DEF Reciprocal, Divides
<1>. DEFINE q == v \div f
            r == v % f
            P == w * k
            g == v * a
<1>1. q \in Nat /\ r \in Nat /\ r < f /\ v = f * q + r
  BY DivisionFacts
<1>. HIDE DEF q, r
<1>2. P \in Nat \ {0} /\ (g \div w) \div k = g \div P
  <2>1. g \in Nat
    OBVIOUS
  <2>. HIDE DEF g
  <2>. QED BY <2>1, DivisionTwice
<1>3. g \in Nat /\ f * g = v * P + v * b
  <2>1. f * g = v * (a * f)
    OBVIOUS
  <2>2. v * (P + b) = v * P + v * b
    BY <1>2
  <2>. QED BY <2>1, <2>2
<1>4. v * b < P
  <2>1. CASE v = 0
    BY <1>2, <2>1
  <2>2. CASE v # 0
    <3>1. v * (b + 1) <= v * (2 * k)
      BY ProductMonotone
    <3>2. (2 * v) * k <= w * k
      BY ProductMonotone
    <3>3. v * (b + 1) = v * b + v /\ v * (2 * k) = (2 * v) * k /\ v * b \in Nat
      OBVIOUS
    <3>. QED BY <2>2, <3>1, <3>2, <3>3
  <2>. QED BY <2>1, <2>2
<1>. HIDE DEF P, g
<1>5. v * P = f * (q * P) + r * P
  BY <1>1, <1>2
<1>6. q * P \in Nat /\ r * P \in Nat /\ v * b \in Nat /\ f * P \in Nat /\ f * (q * P) \in Nat
  BY <1>1, <1>2
<1>7. r * P + P <= f * P
  <2>1. r + 1 \in Nat /\ r + 1 <= f
    BY <1>1
  <2>2. (r + 1) * P <= f * P
    BY <1>2, <2>1, ProductMonotone
  <2>. QED BY <1>1, <1>2, <2>2
<1>8. q * P <= g
  <2>. SUFFICES ASSUME g + 1 <= q * P PROVE FALSE
    BY <1>3, <1>6
  <2>1. f * (g + 1) <= f * (q * P)
    BY <1>3, <1>6, ProductMonotone
  <2>2. f * (g + 1) = f * g + f
    BY <1>3
  <2>. QED BY <1>3, <1>5, <1>6, <2>1, <2>2
<1>9. g < q * P + P
  <2>. SUFFICES ASSUME q * P + P <= g PROVE FALSE
    BY <1>2, <1>3, <1>6
  <2>1. f * (q * P + P) <= f * g
    BY <1>2, <1>3, <1>6, ProductMonotone
  <2>2. f * (q * P + P) = f * (q * P) + f * P
    BY <1>2, <1>6
  <2>. DEFINE vp == v * P
              ve == v * b
              fg == f * g
              fq == f * (q * P)
              fp == f * P
              rp == r * P
  <2>3. fg = vp + ve /\ vp = fq + rp /\ ve < P /\ rp + P <= fp /\ fq + fp <= fg
    BY <1>3, <1>4, <1>5, <1>7, <2>1, <2>2
  <2>4. vp \in Nat /\ ve \in Nat /\ fg \in Nat /\ fq \in Nat /\ fp \in Nat /\ rp \in Nat /\ P \in Nat
    BY <1>2, <1>3, <1>6
  <2>. HIDE DEF vp, ve, fg, fq, fp, rp
  <2>. QED BY <2>3, <2>4
<1>10. g \div P = q
  <2>1. P * q = q * P
    BY <1>1, <1>2
  <2>2. P * q <= g /\ g < P * q + P
    BY <1>8, <1>9, <2>1
  <2>. QED BY <1>1, <1>2, <1>3, <2>2, DivisionUnique
<1>. QED BY <1>2, <1>10 DEF q, g

\* The logarithm, rounded up, of a frequency.
LEMMA CeilFacts ==
    ASSUME NEW f \in Nat, 2 <= f, f <= M
    PROVE  /\ CeilLog2(f) \in 1 .. MBits
           /\ Two[CeilLog2(f) - 1] \in Nat \ {0}
           /\ Two[CeilLog2(f) - 1] < f /\ f <= 2 * Two[CeilLog2(f) - 1]
<1>. DEFINE T == {k \in 1 .. MBits : Two[k] >= f}
            OK(k) == Two[k] >= f /\ \A h \in 1 .. k-1 : Two[h] < f
<1>1. MBits \in Nat /\ MBits >= 1 /\ N \in Nat /\ 0 .. MBits \subseteq 0 .. N
  BY WidthAssumption DEF N
<1>2. \A k \in 0 .. MBits : Two[k] \in Nat \ {0}
  BY <1>1, TwoPositive
<1>3. T \subseteq Nat /\ T # {}
  <2>1. MBits \in T
    BY <1>1 DEF M
  <2>. QED BY <2>1
<1>4. PICK a \in T : \A b \in T : a <= b
  <2>. HIDE DEF T
  <2>. QED BY <1>3, LeastNumber
<1>5. OK(a)
  <2>1. Two[a] >= f /\ a \in 1 .. MBits
    OBVIOUS
  <2>2. ASSUME NEW h \in 1 .. a-1
        PROVE  Two[h] < f
    <3>1. h \in 1 .. MBits /\ ~ (a <= h)
      BY <1>1, <2>1
    <3>2. h \notin T
      BY <1>4, <3>1
    <3>3. Two[h] \in Nat
      BY <1>2, <3>1
    <3>. QED BY <3>1, <3>2, <3>3
  <2>. QED BY <2>1, <2>2
<1>. DEFINE c == CeilLog2(f)
<1>6. c \in 1 .. MBits /\ OK(c)
  <2>1. a \in 1 .. MBits
    OBVIOUS
  <2>2. c = CHOOSE k \in 1 .. MBits : OK(k)
    BY DEF CeilLog2
  <2>. HIDE DEF OK, T, c
  <2>. QED BY <1>5, <2>1, <2>2
<1>. HIDE DEF c
<1>7. c - 1 \in 0 .. MBits /\ c \in 0 .. N /\ c # 0
  BY <1>1, <1>6
<1>8. Two[c] = 2 * Two[c - 1] /\ Two[c - 1] \in Nat \ {0}
  BY <1>2, <1>7, TwoFacts
<1>9. Two[c - 1] < f
  <2>1. CASE c = 1
    <3>1. Two[c - 1] = 1
      BY <2>1, TwoFacts
    <3>. QED BY <3>1
  <2>2. CASE c # 1
    <3>1. c - 1 \in 1 .. c - 1
      BY <1>6, <2>2
    <3>. QED BY <1>6, <3>1
  <2>. QED BY <2>1, <2>2
<1>. QED BY <1>6, <1>8, <1>9 DEF c

\* What ransBuildEncTable computes divides exactly, for every state a lane can be in.
LEMMA QuotientExact ==
    ASSUME NEW f \in Nat, 2 <= f, f <= M, NEW v \in Nat, 2 * v <= Wide
    PROVE  Quotient(v, f) = v \div f
<1>. DEFINE c == CeilLog2(f)
            k == Two[c - 1]
            e == c + WideBits - 1
            P == Two[e]
            R == Rcp(f)
<1>1. c \in 1 .. MBits /\ k \in Nat \ {0} /\ k < f /\ f <= 2 * k
  BY CeilFacts
<1>2. M \in Nat /\ Wide \in Nat \ {0}
  <2>1. WideBits \in 0 .. N
    BY WidthAssumption DEF N
  <2>. QED BY <2>1, WidthFacts, TwoPositive DEF Wide
<1>. HIDE DEF c
<1>3. P = Wide * k /\ P \in Nat
  <2>. DEFINE a == c - 1
  <2>1. a \in Nat /\ WideBits \in Nat /\ WideBits + a = e /\ WideBits + a <= N /\ e \in 0 .. N
    BY <1>1, WidthAssumption DEF N
  <2>. HIDE DEF a, e
  <2>2. Two[WideBits + a] = Two[WideBits] * Two[a]
    BY <2>1, TwoSum
  <2>3. Two[a] = k
    BY DEF a
  <2>. QED BY <2>1, <2>2, <2>3, TwoFacts DEF Wide
<1>4. R = (P + f - 1) \div f /\ f # 1
  BY DEF Rcp, c
<1>. HIDE DEF P, R, k
<1>5. PICK d \in Nat : R \in Nat /\ R * f = P + d /\ d < f
  <2>. DEFINE u == P + f - 1
              s == u % f
  <2>1. u \in Nat
    BY <1>3
  <2>. HIDE DEF u
  <2>2. u \div f \in Nat /\ s \in Nat /\ s < f /\ u = f * (u \div f) + s
    BY <2>1, DivisionFacts
  <2>3. R = u \div f
    BY <1>4 DEF u
  <2>4. R \in Nat /\ u = f * R + s /\ f * R = R * f
    BY <2>2, <2>3
  <2>. HIDE DEF s
  <2>. DEFINE d == f - 1 - s
  <2>5. d \in Nat /\ d < f
    BY <2>2
  <2>6. R * f = P + d
    <3>1. R * f = u - s
      BY <2>2, <2>4
    <3>. QED BY <1>3, <2>2, <3>1 DEF u
  <2>. QED BY <2>4, <2>5, <2>6
<1>6. Divides(R, f, Wide, k, v)
  <2>1. Reciprocal(R, f, Wide, k, d, v)
    BY <1>1, <1>3, <1>5 DEF Reciprocal
  <2>2. f \in Nat \ {0} /\ Wide \in Nat \ {0} /\ k \in Nat \ {0} /\ R \in Nat
    BY <1>1, <1>2, <1>5
  <2>. QED BY <2>1, <2>2, RoundedUp
<1>7. Two[Shift(f)] = k
  BY <1>4 DEF Shift, k, c
<1>. QED BY <1>6, <1>7 DEF Divides, Quotient, MulHi, R

-----------------------------------------------------------------------------
(* Slots.                                                                  *)

\* Every start is the start before it and that symbol's frequency.
LEMMA StartsFacts ==
    ASSUME NEW f \in [Symbols -> Nat]
    PROVE  /\ Starts(f) \in [0 .. Size -> Nat]
           /\ Starts(f)[0] = 0
           /\ \A s \in Symbols : Starts(f)[s + 1] = Starts(f)[s] + f[s]
<1>1. Size \in Nat /\ Size >= 1
  BY SizeAssumption
<1>. DEFINE g == [k \in 1 .. Size |-> [v \in Nat |-> v + f[k - 1]]]
<1>2. \A k \in 1 .. Size : k - 1 \in Symbols /\ f[k - 1] \in Nat
  BY <1>1 DEF Symbols
<1>3. g \in [1 .. Size -> [Nat -> Nat]]
  BY <1>2
<1>4. \A k \in 1 .. Size, v \in Nat : g[k][v] = v + f[k - 1]
  OBVIOUS
<1>. HIDE DEF g
<1>5. PICK e \in [0 .. Size -> Nat] : Lists(e, Size, 0, g)
  BY <1>1, <1>3, NumbersExist
<1>6. e = [s \in 0 .. Size |-> IF s = 0 THEN 0 ELSE e[s - 1] + f[s - 1]]
  <2>1. ASSUME NEW k \in 0 .. Size
        PROVE  (IF k = 0 THEN 0 ELSE g[k][e[k - 1]]) = IF k = 0 THEN 0 ELSE e[k - 1] + f[k - 1]
    <3>1. k # 0 => k \in 1 .. Size /\ k - 1 \in 0 .. Size
      BY <1>1
    <3>2. k # 0 => e[k - 1] \in Nat
      BY <3>1
    <3>. QED BY <1>4, <3>1, <3>2
  <2>. QED BY <1>5, <2>1 DEF Lists
<1>. DEFINE d == Starts(f)
<1>7. d = [s \in 0 .. Size |-> IF s = 0 THEN 0 ELSE d[s - 1] + f[s - 1]]
  BY <1>6 DEF Starts
<1>. HIDE DEF d
<1>8. d[0] = 0
  BY <1>1, <1>7
<1>9. \A s \in Symbols : s \in 0 .. Size /\ s + 1 \in 0 .. Size /\ d[s + 1] = d[s] + f[s]
  <2>. SUFFICES ASSUME NEW s \in Symbols
                PROVE  s \in 0 .. Size /\ s + 1 \in 0 .. Size /\ d[s + 1] = d[s] + f[s]
    OBVIOUS
  <2>1. s \in 0 .. Size /\ s + 1 \in 0 .. Size /\ s + 1 # 0 /\ (s + 1) - 1 = s
    BY <1>1 DEF Symbols
  <2>. QED BY <1>7, <2>1
<1>. DEFINE T == {m \in Nat : m \in 0 .. Size /\ d[m] \in Nat}
<1>10. 0 \in T
  BY <1>1, <1>8
<1>11. ASSUME NEW m \in 0 .. Size - 1, m \in T
       PROVE  m + 1 \in T
  <2>1. m \in Symbols /\ f[m] \in Nat
    BY DEF Symbols
  <2>2. d[m] \in Nat
    BY <1>11
  <2>. QED BY <1>9, <2>1, <2>2
<1>12. \A m \in 0 .. Size : m \in T
  <2>. HIDE DEF T
  <2>. QED BY <1>1, <1>10, <1>11, BoundedInduction
<1>13. d \in [0 .. Size -> Nat]
  <2>1. d = [s \in 0 .. Size |-> d[s]]
    BY <1>7
  <2>2. \A m \in 0 .. Size : d[m] \in Nat
    BY <1>12
  <2>. QED BY <2>1, <2>2
<1>. QED BY <1>8, <1>9, <1>13 DEF d

\* The number of all slots is a number.
LEMMA TotalFacts ==
    ASSUME NEW f \in [Symbols -> Nat]
    PROVE  Total(f) \in Nat
<1>1. Size \in 0 .. Size
  BY SizeAssumption
<1>. QED BY <1>1, StartsFacts DEF Total

\* Symbols have their slots in order.
LEMMA StartsMonotone ==
    ASSUME NEW f \in [Symbols -> Nat], NEW s \in 0 .. Size, NEW t \in 0 .. Size, s <= t
    PROVE  Starts(f)[s] <= Starts(f)[t]
<1>. DEFINE d == Starts(f)
            n == t - s
            T == {m \in Nat : m \in 0 .. n /\ d[s] <= d[s + m]}
<1>1. d \in [0 .. Size -> Nat] /\ \A k \in Symbols : d[k + 1] = d[k] + f[k]
  BY StartsFacts
<1>. HIDE DEF d
<1>2. n \in Nat /\ s + n = t /\ Size \in Nat
  BY SizeAssumption
<1>. HIDE DEF n
<1>3. 0 \in T
  BY <1>1, <1>2
<1>4. ASSUME NEW m \in 0 .. n - 1, m \in T
      PROVE  m + 1 \in T
  <2>. DEFINE k == s + m
  <2>1. /\ k \in Symbols /\ k \in 0 .. Size /\ k + 1 \in 0 .. Size /\ k + 1 = s + (m + 1)
        /\ m + 1 \in 0 .. n
    BY <1>2 DEF Symbols
  <2>2. d[s] <= d[k]
    BY <1>4
  <2>. HIDE DEF k
  <2>3. d[k + 1] = d[k] + f[k] /\ d[k] \in Nat /\ f[k] \in Nat /\ d[s] \in Nat
    BY <1>1, <2>1
  <2>4. d[s] <= d[k + 1]
    BY <2>2, <2>3
  <2>. QED BY <2>1, <2>4
<1>5. \A m \in 0 .. n : m \in T
  <2>. HIDE DEF T
  <2>. QED BY <1>2, <1>3, <1>4, BoundedInduction
<1>6. n \in T
  BY <1>2, <1>5
<1>. QED BY <1>2, <1>6 DEF d

\* A table is given, and it fills the slots.
Coding == freq \in [Symbols -> Nat] /\ Total(freq) = M

\* A symbol's slots are within the table, and no other symbol's.
LEMMA SlotFacts ==
    ASSUME Coding, NEW s \in Symbols
    PROVE  /\ freq[s] \in Nat /\ Cum(s) \in Nat /\ Cum(s) + freq[s] <= M
           /\ \A r \in Nat : r < freq[s] => SymbolAt(Cum(s) + r) = s
<1>1. freq \in [Symbols -> Nat] /\ Starts(freq)[Size] = M /\ Size \in Nat
  BY SizeAssumption DEF Coding, Total
<1>2. /\ Starts(freq) \in [0 .. Size -> Nat]
      /\ \A k \in Symbols : Starts(freq)[k + 1] = Starts(freq)[k] + freq[k]
  BY <1>1, StartsFacts
<1>3. \A k \in Symbols : k \in 0 .. Size /\ k + 1 \in 0 .. Size /\ k + 1 <= Size /\ k \in Nat
  BY <1>1 DEF Symbols
<1>4. \A k \in Symbols : Cum(k) \in Nat /\ freq[k] \in Nat /\ Cum(k) + freq[k] = Starts(freq)[k + 1]
  BY <1>1, <1>2, <1>3 DEF Cum
<1>5. ASSUME NEW k \in Symbols, NEW h \in Symbols, k < h
      PROVE  Cum(k) + freq[k] <= Cum(h)
  <2>1. k + 1 \in 0 .. Size /\ h \in 0 .. Size /\ k + 1 <= h
    BY <1>3, <1>5
  <2>. DEFINE l == k + 1
  <2>2. l \in 0 .. Size /\ l <= h
    BY <2>1
  <2>. HIDE DEF l
  <2>3. Starts(freq)[l] <= Starts(freq)[h]
    BY <1>1, <2>1, <2>2, StartsMonotone
  <2>. QED BY <1>4, <2>3 DEF l, Cum
<1>6. Cum(s) + freq[s] <= M
  <2>. DEFINE l == s + 1
  <2>1. l \in 0 .. Size /\ l <= Size /\ Size \in 0 .. Size
    BY <1>1, <1>3
  <2>. HIDE DEF l
  <2>2. Starts(freq)[l] <= Starts(freq)[Size]
    BY <1>1, <2>1, StartsMonotone
  <2>. QED BY <1>1, <1>4, <2>2 DEF l
<1>7. ASSUME NEW r \in Nat, r < freq[s]
      PROVE  SymbolAt(Cum(s) + r) = s
  <2>. DEFINE slot == Cum(s) + r
              Own(k) == slot \in Cum(k) .. Cum(k) + freq[k] - 1
  <2>1. Own(s)
    BY <1>4, <1>7
  <2>2. ASSUME NEW k \in Symbols, Own(k)
        PROVE  k = s
    <3>1. Cum(k) <= slot /\ slot < Cum(k) + freq[k] /\ Cum(s) <= slot /\ slot < Cum(s) + freq[s]
      BY <1>4, <2>1, <2>2
    <3>2. k < s => Cum(k) + freq[k] <= Cum(s)
      BY <1>5
    <3>3. s < k => Cum(s) + freq[s] <= Cum(k)
      BY <1>5
    <3>4. slot \in Nat /\ Cum(s) \in Nat /\ Cum(k) \in Nat /\ freq[s] \in Nat /\ freq[k] \in Nat
      BY <1>4
    <3>. HIDE DEF slot, Own
    <3>5. ~ (k < s) /\ ~ (s < k)
      BY <3>1, <3>2, <3>3, <3>4
    <3>. QED BY <1>3, <3>5
  <2>3. SymbolAt(slot) = CHOOSE k \in Symbols : Own(k)
    BY DEF SymbolAt
  <2>. HIDE DEF slot, Own
  <2>4. SymbolAt(slot) \in Symbols /\ Own(SymbolAt(slot))
    BY <2>1, <2>3
  <2>. QED BY <2>2, <2>4 DEF slot
<1>. QED BY <1>4, <1>6, <1>7

-----------------------------------------------------------------------------
(* One symbol into a lane, and out of it.                                  *)

\* The states a lane may be in.
States == {v \in Nat : L <= v /\ v < B * L}

\* Lane u moves a word to the stream before it takes s; what it keeps; what it becomes.
Full(s, u) == u >= XMax(freq[s])
Kept(s, u) == IF Full(s, u) THEN u \div B ELSE u
Into(s, u) == (Kept(s, u) + Bias(s) + Quotient(Kept(s, u), freq[s]) * (M - freq[s])) % Wide

\* A smaller product has a smaller factor.
LEMMA Cancel ==
    ASSUME NEW d \in Nat, NEW a \in Nat, NEW b \in Nat, d * a < d * b
    PROVE  a < b
<1>. SUFFICES ASSUME b <= a PROVE FALSE
  OBVIOUS
<1>1. d * b <= d * a /\ d * b \in Nat /\ d * a \in Nat
  BY ProductMonotone
<1>. QED BY <1>1

\* What a lane keeps has between Q and Q * B states per slot of the symbol.
LEMMA KeptFacts ==
    ASSUME Coding, NEW s \in Symbols, freq[s] > 0, NEW u \in States
    PROVE  /\ Kept(s, u) \in Nat /\ 2 * Kept(s, u) <= Wide /\ Kept(s, u) >= 1
           /\ freq[s] * Q <= Kept(s, u) /\ Kept(s, u) < freq[s] * (Q * B)
           /\ Kept(s, u) < B * L
           /\ Kept(s, u) < L <=> Full(s, u)
           /\ Full(s, u) => /\ Kept(s, u) * B + LowWord(u) = u /\ LowWord(u) \in Nat
                            /\ u >= Q * B
<1>. DEFINE f == freq[s]
            v == Kept(s, u)
            QB == Q * B
<1>1. f \in Nat /\ 1 <= f /\ f <= M
  BY SlotFacts, WidthFacts
<1>2. /\ M \in Nat /\ M >= 2 /\ B \in Nat \ {0} /\ B >= 2 /\ L \in Nat /\ L >= 1 /\ Wide \in Nat
      /\ Q \in Nat /\ Q >= 1 /\ L = Q * M /\ B = 2 * L /\ B * B <= Wide /\ L \div M = Q
      /\ M * M <= B
  BY WidthFacts
<1>3. u \in Nat /\ L <= u /\ u < B * L
  BY DEF States
<1>. HIDE DEF f
<1>4. QB \in Nat /\ QB >= 1 /\ XMax(freq[s]) = f * QB /\ f * QB \in Nat
  <2>1. XMax(freq[s]) = QB * f
    BY <1>2 DEF XMax, f
  <2>2. 1 <= Q /\ 1 <= B /\ 1 * 1 = 1
    BY <1>2
  <2>3. QB \in Nat /\ 1 <= QB
    BY <1>2, <2>2, ProductMonotone
  <2>. HIDE DEF QB
  <2>4. QB * f = f * QB /\ f * QB \in Nat
    BY <1>1, <2>3
  <2>. QED BY <2>1, <2>3, <2>4
<1>5. f * Q <= L /\ f * Q \in Nat /\ QB <= f * QB
  <2>1. f * Q <= M * Q
    BY <1>1, <1>2, ProductMonotone
  <2>2. 1 * QB <= f * QB
    BY <1>1, <1>4, ProductMonotone
  <2>3. M * Q = Q * M /\ 1 * QB = QB /\ f * Q \in Nat
    BY <1>1, <1>2, <1>4
  <2>. QED BY <1>2, <2>1, <2>2, <2>3
<1>6. L <= QB /\ L <= f * QB
  <2>1. M <= B
    <3>1. M * 1 <= M * M /\ M * 1 = M
      BY <1>2, ProductMonotone
    <3>. QED BY <1>2, <3>1
  <2>2. Q * M <= Q * B
    BY <1>2, <2>1, ProductMonotone
  <2>. QED BY <1>2, <1>4, <1>5, <2>2
<1>7. 2 * (B * L) <= Wide /\ B * L \in Nat
  <2>1. 2 * (B * L) = B * B /\ B * L \in Nat
    BY <1>2
  <2>. QED BY <1>2, <2>1
<1>. HIDE DEF QB
<1>8. CASE Full(s, u)
  <2>. DEFINE q == u \div B
              r == u % B
  <2>1. u >= f * QB /\ v = q
    BY <1>4, <1>8 DEF Full, Kept
  <2>2. q \in Nat /\ r \in Nat /\ r < B /\ u = B * q + r
    BY <1>2, <1>3, DivisionFacts
  <2>3. LowWord(u) = r
    BY DEF LowWord
  <2>. HIDE DEF q, r
  <2>4. q < L
    <3>1. B * q < B * L
      BY <1>2, <1>3, <1>7, <2>2
    <3>. QED BY <1>2, <2>2, <3>1, Cancel
  <2>5. f * Q <= q
    <3>. DEFINE fQ == f * Q
    <3>1. f * QB = B * fQ
      BY <1>1, <1>2 DEF QB
    <3>2. B * (q + 1) = B * q + B /\ B * q \in Nat /\ B * fQ \in Nat /\ fQ \in Nat
      BY <1>2, <1>5, <2>2
    <3>. HIDE DEF fQ
    <3>3. B * fQ < B * (q + 1)
      BY <1>2, <2>1, <2>2, <3>1, <3>2
    <3>4. fQ < q + 1
      BY <1>2, <2>2, <3>2, <3>3, Cancel
    <3>. QED BY <2>2, <3>2, <3>4 DEF fQ
  <2>6. q < f * QB /\ q < B * L /\ 2 * q <= Wide
    <3>1. 1 * L <= B * L /\ 1 * L = L
      BY <1>2, ProductMonotone
    <3>. QED BY <1>2, <1>4, <1>6, <1>7, <2>2, <2>4, <3>1
  <2>7. q * B + r = u
    BY <1>2, <2>2
  <2>8. u >= QB
    BY <1>3, <1>4, <1>5, <2>1
  <2>9. q >= 1
    <3>1. 1 * 1 <= f * Q /\ 1 * 1 = 1
      BY <1>1, <1>2, ProductMonotone
    <3>. QED BY <1>5, <2>2, <2>5, <3>1
  <2>. QED BY <1>8, <2>1, <2>2, <2>3, <2>4, <2>5, <2>6, <2>7, <2>8, <2>9 DEF f, QB
<1>9. CASE ~Full(s, u)
  <2>1. v = u /\ u < f * QB
    BY <1>3, <1>4, <1>9 DEF Full, Kept
  <2>2. f * Q <= u /\ 2 * u <= Wide /\ u >= 1
    BY <1>2, <1>3, <1>5, <1>7
  <2>. QED BY <1>2, <1>3, <1>9, <2>1, <2>2 DEF f, QB
<1>. QED BY <1>8, <1>9

\* A lane that took s holds s, and gives back what it kept.
LEMMA IntoFacts ==
    ASSUME Coding, NEW s \in Symbols, freq[s] > 0, NEW u \in States
    PROVE  /\ Into(s, u) \in States
           /\ Decoded(Into(s, u)) = s
           /\ Advanced(Into(s, u)) = Kept(s, u)
           /\ Full(s, u) => Into(s, u) < Q * B
<1>. DEFINE f == freq[s]
            v == Kept(s, u)
            q == v \div f
            r == v % f
            c == Cum(s)
            QB == Q * B
            E == q * M + (c + r)
<1>1. f \in Nat /\ 1 <= f /\ f <= M /\ c \in Nat /\ c + f <= M
  BY SlotFacts, WidthFacts
<1>2. /\ M \in Nat \ {0} /\ M >= 2 /\ B \in Nat \ {0} /\ B >= 2 /\ L \in Nat /\ L >= 1
      /\ Wide \in Nat /\ Q \in Nat /\ Q >= 1 /\ L = Q * M /\ B = 2 * L /\ B * B <= Wide
      /\ M * M <= B
  BY WidthFacts
<1>3. /\ v \in Nat /\ 2 * v <= Wide /\ v >= 1
      /\ f * Q <= v /\ v < f * QB
  BY KeptFacts
<1>4. v < L <=> Full(s, u)
  BY KeptFacts
<1>. HIDE DEF f, v, c
<1>5. q \in Nat /\ r \in Nat /\ r < f /\ v = f * q + r
  BY <1>1, <1>3, DivisionFacts
<1>6. QB \in Nat
  BY <1>2
<1>. HIDE DEF QB
<1>7. v + Bias(s) + Quotient(v, f) * (M - f) = E
  <2>1. CASE f = 1
    <3>1. Bias(s) = c + M - 1
      BY <2>1 DEF Bias, c, f
    <3>2. MulHi(v, Rcp(f)) = v - 1
      <4>. DEFINE g == v * (Wide - 1)
                  p == v - 1
      <4>1. p \in Nat /\ g \in Nat /\ g = Wide * p + (Wide - v) /\ Wide \in Nat \ {0}
        BY <1>2, <1>3
      <4>2. Wide * p <= g /\ g < Wide * p + Wide
        BY <1>2, <1>3, <4>1
      <4>. HIDE DEF g, p
      <4>3. g \div Wide = p
        BY <4>1, <4>2, DivisionUnique
      <4>4. Rcp(f) = Wide - 1
        BY <2>1 DEF Rcp
      <4>. QED BY <4>3, <4>4 DEF MulHi, g, p
    <3>3. Two[Shift(f)] = 1
      BY <2>1, TwoFacts DEF Shift
    <3>4. Quotient(v, f) = v - 1
      BY <1>3, <3>2, <3>3 DEF Quotient
    <3>5. q = v /\ r = 0
      <4>1. r = 0
        BY <1>5, <2>1
      <4>. QED BY <1>5, <2>1, <4>1
    <3>. HIDE DEF q, r
    <3>6. v + (c + M - 1) + (v - 1) * (M - 1) = v * M + c
      BY <1>1, <1>2, <1>3
    <3>. QED BY <1>1, <2>1, <3>1, <3>4, <3>5, <3>6
  <2>2. CASE f # 1
    <3>1. Bias(s) = c
      BY <2>2 DEF Bias, c, f
    <3>2. Quotient(v, f) = q
      <4>1. 2 <= f
        BY <1>1, <2>2
      <4>. QED BY <1>1, <1>3, <4>1, QuotientExact
    <3>. HIDE DEF q, r
    <3>3. v + c + q * (M - f) = q * M + (c + r)
      BY <1>1, <1>2, <1>5
    <3>. QED BY <3>1, <3>2, <3>3
  <2>. QED BY <2>1, <2>2
<1>. HIDE DEF q, r
<1>8. Q <= q
  <2>1. f * (q + 1) = f * q + f /\ f * q \in Nat
    BY <1>1, <1>5
  <2>2. f * Q < f * (q + 1)
    BY <1>1, <1>2, <1>3, <1>5, <2>1
  <2>3. Q < q + 1
    BY <1>1, <1>2, <1>5, <2>2, Cancel
  <2>. QED BY <1>2, <1>5, <2>3
<1>9. q < QB
  <2>1. f * q \in Nat /\ f * q <= v
    BY <1>1, <1>5
  <2>2. f * q < f * QB
    BY <1>1, <1>3, <1>6, <2>1
  <2>. QED BY <1>1, <1>5, <1>6, <2>2, Cancel
<1>10. c + r < M /\ c + r \in Nat
  BY <1>1, <1>2, <1>5
<1>11. E \in Nat /\ L <= E /\ E < B * L /\ B * L \in Nat
  <2>1. Q * M <= q * M /\ q * M \in Nat
    BY <1>2, <1>5, <1>8, ProductMonotone
  <2>2. (q + 1) * M <= QB * M
    BY <1>2, <1>5, <1>6, <1>9, ProductMonotone
  <2>3. QB * M = B * L /\ (q + 1) * M = q * M + M /\ B * L \in Nat
    BY <1>2, <1>5 DEF QB
  <2>. QED BY <1>2, <1>10, <2>1, <2>2, <2>3
<1>12. B * L < Wide
  <2>1. 2 * (B * L) = B * B /\ B * L \in Nat
    BY <1>2
  <2>2. 1 * 1 <= B * L /\ 1 * 1 = 1
    BY <1>2, ProductMonotone
  <2>. QED BY <1>2, <2>1, <2>2
<1>13. E \div M = q /\ E % M = c + r
  <2>1. M * q = q * M /\ M * q \in Nat
    BY <1>2, <1>5
  <2>2. M * q <= E /\ E < M * q + M /\ E - M * q = c + r
    BY <1>10, <1>2, <2>1
  <2>. HIDE DEF E
  <2>. QED BY <1>2, <1>5, <1>11, <2>2, DivisionUnique
<1>14. Into(s, u) = E
  <2>1. Into(s, u) = (v + Bias(s) + Quotient(v, f) * (M - f)) % Wide
    BY DEF Into, v, f
  <2>2. Into(s, u) = E % Wide
    BY <1>7, <2>1
  <2>. HIDE DEF E
  <2>3. Wide \in Nat \ {0} /\ Wide * 0 = 0 /\ E < Wide
    BY <1>2, <1>11, <1>12
  <2>4. Wide * 0 <= E /\ E < Wide * 0 + Wide /\ E - Wide * 0 = E
    BY <1>11, <2>3
  <2>5. E % Wide = E - Wide * 0
    BY <1>11, <2>3, <2>4, DivisionUnique
  <2>. QED BY <2>2, <2>4, <2>5
<1>15. Decoded(E) = s
  <2>1. SymbolAt(c + r) = s
    BY <1>5, SlotFacts DEF c, f
  <2>. QED BY <1>13, <2>1 DEF Decoded
<1>16. Advanced(E) = v
  <2>1. Advanced(E) = freq[s] * (E \div M) + (E % M) - Cum(s)
    BY <1>15 DEF Advanced
  <2>2. Advanced(E) = f * q + (c + r) - c
    BY <1>13, <2>1 DEF f, c
  <2>3. f * q \in Nat
    BY <1>1, <1>5
  <2>. HIDE DEF E
  <2>. QED BY <1>1, <1>5, <2>2, <2>3
<1>17. ASSUME v < L
       PROVE  E < QB
  <2>1. q <= v
    <3>1. 1 * q <= f * q /\ 1 * q = q /\ f * q \in Nat
      BY <1>1, <1>5, ProductMonotone
    <3>. QED BY <1>3, <1>5, <3>1
  <2>2. (q + 1) * M <= L * M
    <3>1. q + 1 <= L
      BY <1>2, <1>3, <1>5, <1>17, <2>1
    <3>. QED BY <1>2, <1>5, <3>1, ProductMonotone
  <2>3. L * M <= QB
    <3>1. Q * (M * M) <= Q * B
      BY <1>2, ProductMonotone
    <3>2. L * M = Q * (M * M)
      BY <1>2
    <3>. QED BY <3>1, <3>2 DEF QB
  <2>4. (q + 1) * M = q * M + M /\ q * M \in Nat /\ L * M \in Nat
    BY <1>2, <1>5
  <2>. QED BY <1>6, <1>10, <1>2, <2>2, <2>3, <2>4
<1>. HIDE DEF E
<1>18. E \in States
  BY <1>11 DEF States
<1>. QED BY <1>4, <1>14, <1>15, <1>16, <1>17, <1>18 DEF v, QB

-----------------------------------------------------------------------------
(* A message's history: the lanes and words between any two of its symbols. *)

\* Taking symbol h out leads from lanes a and words w to lanes b and words v.
Undoes(h, a, w, b, v) ==
    LET k == Lane(h) IN
    /\ \A o \in AllLanes : o # k => a[o] = b[o]
    /\ Decoded(a[k]) = msg[h + 1]
    /\ Advanced(a[k]) \in Nat
    /\ Advanced(a[k]) >= L => b[k] = Advanced(a[k]) /\ v = w
    /\ Advanced(a[k]) < L =>
          \E d \in Nat : w = <<d>> \o v /\ b[k] = Advanced(a[k]) * B + d

\* A and W are the lanes and words from which the symbols from c on can be taken.
History(A, W, c) ==
    /\ A \in [c .. Len(msg) -> [AllLanes -> States]]
    /\ W \in [c .. Len(msg) -> Seq(Nat)]
    /\ A[Len(msg)] = [k \in AllLanes |-> L] /\ W[Len(msg)] = <<>>
    /\ \A h \in c .. Len(msg) - 1 : Undoes(h, A[h], W[h], A[h + 1], W[h + 1])

\* The lower end of the range is a state, and the upper one is no loss.
LEMMA RangeFacts == L \in States /\ B * L \in Nat /\ B * L < Wide
<1>1. B \in Nat /\ B >= 2 /\ L \in Nat /\ L >= 1 /\ Wide \in Nat /\ B = 2 * L /\ B * B <= Wide
  BY WidthFacts
<1>2. 2 * (B * L) = B * B /\ B * L \in Nat
  BY <1>1
<1>3. 2 * L <= B * L
  BY <1>1, ProductMonotone
<1>4. 2 * L > L
  BY <1>1
<1>. QED BY <1>1, <1>2, <1>3, <1>4 DEF States

\* Every symbol has a lane.
LEMMA LaneFacts ==
    ASSUME NEW h \in Nat
    PROVE  Lane(h) \in AllLanes
<1>1. Lanes \in Nat \ {0}
  BY LanesAssumption
<1>2. h % Lanes \in Nat /\ h % Lanes < Lanes
  BY <1>1, DivisionFacts
<1>. QED BY <1>1, <1>2 DEF Lane, AllLanes

\* Symbol h is s; its lane is k, and taking it leads from lanes b and words v to a and w.
Takes(h, s, k, b, v, a, w) ==
    /\ s = msg[h + 1] /\ freq[s] > 0 /\ k = Lane(h)
    /\ a = [b EXCEPT ![k] = Into(s, b[k])]
    /\ w = IF Full(s, b[k]) THEN <<LowWord(b[k])>> \o v ELSE v

\* Encoding a symbol can be undone.
LEMMA EncodingUndone ==
    ASSUME Coding, NEW h \in Nat, NEW s \in Symbols, NEW k \in AllLanes,
           NEW b \in [AllLanes -> States], NEW v \in Seq(Nat), NEW a, NEW w,
           Takes(h, s, k, b, v, a, w)
    PROVE  a \in [AllLanes -> States] /\ w \in Seq(Nat) /\ Undoes(h, a, w, b, v)
<1>. USE DEF Takes
<1>. DEFINE u == b[k]
<1>1. u \in States
  OBVIOUS
<1>2. /\ Into(s, u) \in States /\ Decoded(Into(s, u)) = s
      /\ Advanced(Into(s, u)) = Kept(s, u)
  BY <1>1, IntoFacts
<1>3. /\ Kept(s, u) \in Nat /\ (Kept(s, u) < L <=> Full(s, u))
      /\ Full(s, u) => Kept(s, u) * B + LowWord(u) = u /\ LowWord(u) \in Nat
  BY <1>1, KeptFacts
<1>4. ~Full(s, u) => Kept(s, u) = u
  BY DEF Kept
<1>5. a[k] = Into(s, u) /\ \A o \in AllLanes : o # k => a[o] = b[o]
  OBVIOUS
<1>6. a \in [AllLanes -> States]
  BY <1>2
<1>7. w = (IF Full(s, u) THEN <<LowWord(u)>> \o v ELSE v)
  OBVIOUS
<1>. HIDE DEF u
<1>8. w \in Seq(Nat)
  <2>1. Full(s, u) => <<LowWord(u)>> \in Seq(Nat)
    BY <1>3
  <2>2. Full(s, u) => <<LowWord(u)>> \o v \in Seq(Nat)
    BY <2>1
  <2>. QED BY <1>7, <2>2
<1>9. L \in Nat
  BY WidthFacts
<1>10. Advanced(a[k]) >= L => b[k] = Advanced(a[k]) /\ v = w
  <2>1. Advanced(a[k]) >= L => ~Full(s, u)
    BY <1>2, <1>3, <1>5, <1>9
  <2>. QED BY <1>2, <1>4, <1>5, <1>7, <2>1 DEF u
<1>11. Advanced(a[k]) < L =>
           \E d \in Nat : w = <<d>> \o v /\ b[k] = Advanced(a[k]) * B + d
  <2>. SUFFICES ASSUME Advanced(a[k]) < L
                PROVE  \E d \in Nat : w = <<d>> \o v /\ b[k] = Advanced(a[k]) * B + d
    OBVIOUS
  <2>1. Full(s, u) /\ LowWord(u) \in Nat
    BY <1>2, <1>3, <1>5
  <2>2. w = <<LowWord(u)>> \o v
    BY <1>7, <2>1
  <2>3. b[k] = Advanced(a[k]) * B + LowWord(u)
    BY <1>2, <1>3, <1>5, <2>1 DEF u
  <2>. QED BY <2>1, <2>2, <2>3
<1>12. Decoded(a[k]) = msg[h + 1] /\ Advanced(a[k]) \in Nat
  BY <1>2, <1>3, <1>5
<1>. QED BY <1>5, <1>6, <1>8, <1>10, <1>11, <1>12 DEF Undoes

\* A history goes on backwards.
LEMMA HistoryGrows ==
    ASSUME msg \in Seq(Symbols), NEW A, NEW W, NEW h \in Nat, NEW c \in Nat, c = h + 1,
           c <= Len(msg), History(A, W, c),
           NEW a \in [AllLanes -> States], NEW w \in Seq(Nat), Undoes(h, a, w, A[c], W[c])
    PROVE  \E A2, W2 : /\ History(A2, W2, h) /\ A2[h] = a /\ W2[h] = w
                       /\ \A o \in c .. Len(msg) : A2[o] = A[o]
<1>. DEFINE n == Len(msg)
            A2 == [o \in h .. n |-> IF o = h THEN a ELSE A[o]]
            W2 == [o \in h .. n |-> IF o = h THEN w ELSE W[o]]
<1>1. n \in Nat /\ c <= n
  OBVIOUS
<1>2. /\ A \in [c .. n -> [AllLanes -> States]] /\ W \in [c .. n -> Seq(Nat)]
      /\ A[n] = [k \in AllLanes |-> L] /\ W[n] = <<>>
      /\ \A o \in c .. n - 1 : Undoes(o, A[o], W[o], A[o + 1], W[o + 1])
  BY DEF History
<1>. HIDE DEF n
<1>3. /\ \A o \in h .. n : o # h => o \in c .. n
      /\ \A o \in c .. n : o \in h .. n /\ o # h
      /\ h \in h .. n /\ n \in c .. n /\ c \in h .. n
      /\ \A o \in h .. n - 1 : o # h => o \in c .. n - 1 /\ o + 1 \in c .. n
      /\ \A o \in h .. n - 1 : o \in h .. n
  BY <1>1
<1>4. A2[h] = a /\ W2[h] = w /\ \A o \in c .. n : A2[o] = A[o] /\ W2[o] = W[o]
  BY <1>3
<1>5. A2 \in [h .. n -> [AllLanes -> States]]
  BY <1>2, <1>3
<1>6. W2 \in [h .. n -> Seq(Nat)]
  BY <1>2, <1>3
<1>. HIDE DEF A2, W2
<1>7. ASSUME NEW o \in h .. n - 1
      PROVE  Undoes(o, A2[o], W2[o], A2[o + 1], W2[o + 1])
  <2>1. CASE o = h
    <3>1. A2[o] = a /\ W2[o] = w /\ o + 1 = c /\ c \in c .. n
      BY <1>1, <1>4, <2>1
    <3>2. A2[o + 1] = A[c] /\ W2[o + 1] = W[c]
      BY <1>4, <3>1
    <3>. QED BY <2>1, <3>1, <3>2
  <2>2. CASE o # h
    <3>1. o \in c .. n - 1 /\ o \in c .. n /\ o + 1 \in c .. n
      BY <1>3, <2>2
    <3>2. A2[o] = A[o] /\ W2[o] = W[o] /\ A2[o + 1] = A[o + 1] /\ W2[o + 1] = W[o + 1]
      BY <1>4, <3>1
    <3>. QED BY <1>2, <3>1, <3>2
  <2>. QED BY <2>1, <2>2
<1>8. History(A2, W2, h)
  BY <1>2, <1>3, <1>4, <1>5, <1>6, <1>7 DEF History, n
<1>. QED BY <1>4, <1>8 DEF n

\* A message that was not coded has a history too: no lane ever moves.
LEMMA ConstantHistory ==
    ASSUME Coding, Constant, msg \in Seq(Symbols), Covers(freq, msg)
    PROVE  \E A, W : /\ History(A, W, 0) /\ A[0] = [k \in AllLanes |-> L] /\ W[0] = <<>>
<1>. DEFINE n == Len(msg)
            home == [k \in AllLanes |-> L]
            A == [o \in 0 .. n |-> home]
            W == [o \in 0 .. n |-> <<>>]
<1>1. n \in Nat /\ DOMAIN msg = 1 .. n
  OBVIOUS
<1>2. PICK s \in Symbols : freq[s] = M
  BY DEF Constant
<1>3. M \in Nat \ {0} /\ L \in Nat /\ Q \in Nat /\ L = Q * M /\ L \div M = Q
  BY WidthFacts
<1>4. Cum(s) = 0
  BY <1>2, <1>3, SlotFacts
<1>5. SymbolAt(0) = s
  <2>1. 0 \in Nat /\ 0 < freq[s] /\ Cum(s) + 0 = 0
    BY <1>2, <1>3, <1>4
  <2>2. SymbolAt(Cum(s) + 0) = s
    BY <2>1, SlotFacts
  <2>. QED BY <2>1, <2>2
<1>6. L % M = 0
  <2>1. M * Q <= L /\ L < M * Q + M /\ L - M * Q = 0
    BY <1>3
  <2>. QED BY <1>3, <2>1, DivisionUnique
<1>7. Decoded(L) = s /\ Advanced(L) = L
  <2>1. Decoded(L) = s
    BY <1>5, <1>6 DEF Decoded
  <2>2. Advanced(L) = freq[s] * (L \div M) + (L % M) - Cum(s)
    BY <2>1 DEF Advanced
  <2>3. Advanced(L) = M * Q + 0 - 0
    BY <1>2, <1>3, <1>4, <1>6, <2>2
  <2>. QED BY <1>3, <2>1, <2>3
<1>8. ASSUME NEW t \in Symbols, freq[t] > 0
      PROVE  t = s
  <2>1. Cum(t) \in Nat /\ freq[t] \in Nat /\ Cum(t) + freq[t] <= M
    BY SlotFacts
  <2>2. SymbolAt(Cum(t) + 0) = t
    BY <1>8, SlotFacts
  <2>3. Cum(t) < freq[s]
    BY <1>2, <1>3, <1>8, <2>1
  <2>4. SymbolAt(Cum(s) + Cum(t)) = s
    BY <2>1, <2>3, SlotFacts
  <2>5. Cum(s) + Cum(t) = Cum(t) + 0
    BY <1>4, <2>1
  <2>. QED BY <2>2, <2>4, <2>5
<1>9. ASSUME NEW h \in 0 .. n - 1
      PROVE  Undoes(h, A[h], W[h], A[h + 1], W[h + 1])
  <2>1. h \in Nat /\ h \in 0 .. n /\ h + 1 \in 0 .. n /\ h + 1 \in 1 .. n
    BY <1>1
  <2>2. msg[h + 1] \in Symbols /\ freq[msg[h + 1]] > 0
    BY <1>1, <2>1 DEF Covers
  <2>3. msg[h + 1] = s
    BY <1>8, <2>2
  <2>4. Lane(h) \in AllLanes
    BY <2>1, LaneFacts
  <2>5. home[Lane(h)] = L
    BY <2>4
  <2>6. Undoes(h, home, <<>>, home, <<>>)
    BY <1>3, <1>7, <2>3, <2>5 DEF Undoes
  <2>7. A[h] = home /\ A[h + 1] = home /\ W[h] = <<>> /\ W[h + 1] = <<>>
    BY <2>1
  <2>. HIDE DEF home, A, W
  <2>. QED BY <2>6, <2>7
<1>10. home \in [AllLanes -> States]
  BY RangeFacts
<1>11. /\ A \in [0 .. n -> [AllLanes -> States]] /\ W \in [0 .. n -> Seq(Nat)]
       /\ A[n] = home /\ W[n] = <<>> /\ A[0] = home /\ W[0] = <<>>
  <2>. HIDE DEF home
  <2>1. 0 \in 0 .. n /\ n \in 0 .. n /\ <<>> \in Seq(Nat)
    BY <1>1
  <2>. QED BY <1>10, <2>1
<1>12. History(A, W, 0)
  <2>. HIDE DEF A, W
  <2>. QED BY <1>9, <1>11 DEF History
<1>. QED BY <1>11, <1>12

-----------------------------------------------------------------------------
(* The invariant.                                                          *)

\* While encoding, lanes, words and what was noted of the lanes are a history of the
\* symbols done.
Follows(A, W, c) ==
    /\ History(A, W, c) /\ x = A[c]
    /\ ~Constant => \A h \in c .. Len(msg) - 1 : h \in DOMAIN before /\ before[h] = A[h + 1]

\* Lanes so high that they may have to give up a word with the next symbol.
High(z) == {k \in AllLanes : z[k] >= Q * B}

TypesKnown ==
    /\ freq \in [Symbols -> Nat] /\ msg \in Seq(Symbols) /\ Covers(freq, msg)
    /\ phase \in {"table", "encode", "decode", "decoded"}

TableFresh ==
    phase = "table" =>
        x = [k \in AllLanes |-> L] /\ stream = <<>> /\ i = 0 /\ output = <<>>

Encoding ==
    phase = "encode" =>
        /\ Coding /\ j \in 0 .. Len(msg) /\ i = 0 /\ output = <<>>
        /\ Constant => j = 0
        /\ \E A, W : Follows(A, W, j) /\ stream = W[j]

\* Two symbols a word at least, and one more for a lane that is high.
Sparing ==
    phase = "encode" =>
        2 * Len(stream) + Cardinality(High(x)) <= IF Constant THEN 0 ELSE Len(msg) - j

\* The decoder is somewhere in the history, at the start of a block or past the last.
Decoding ==
    phase = "decode" =>
        /\ Coding /\ i \in 0 .. Len(msg) /\ output = SubSeq(msg, 1, i)
        /\ i % Lanes = 0 \/ ~BlockFits
        /\ \E A, W : Follows(A, W, 0) /\ y = A[i] /\ rest = W[i]

RansInv ==
    /\ TypesKnown /\ TableFresh /\ Encoding /\ Sparing /\ Decoding
    /\ phase = "decoded" => output = msg

\* Table and message decide what a history is.
LEMMA UndoesKept ==
    ASSUME freq' = freq, msg' = msg, NEW h, NEW a, NEW w, NEW b, NEW v
    PROVE  Undoes(h, a, w, b, v)' <=> Undoes(h, a, w, b, v)
<1>2. Decoded(a[Lane(h)])' = Decoded(a[Lane(h)])
  BY DEF Decoded, SymbolAt, Cum
<1>3. Advanced(a[Lane(h)])' = Advanced(a[Lane(h)])
  BY <1>2 DEF Advanced, Cum
<1>. QED BY <1>2, <1>3 DEF Undoes

\* Table and message decide what a history is.
LEMMA FollowsNext ==
    ASSUME freq' = freq, msg' = msg, NEW A, NEW W, NEW c, c = j', History(A, W, c), x' = A[c],
           ~Constant =>
               \A h \in c .. Len(msg) - 1 : h \in DOMAIN before' /\ before'[h] = A[h + 1]
    PROVE  Follows(A, W, j)'
<1>1. /\ A \in [c .. Len(msg) -> [AllLanes -> States]]
      /\ W \in [c .. Len(msg) -> Seq(Nat)]
      /\ A[Len(msg)] = [k \in AllLanes |-> L] /\ W[Len(msg)] = <<>>
  BY DEF History
<1>2. \A h \in c .. Len(msg) - 1 : Undoes(h, A[h], W[h], A[h + 1], W[h + 1])'
  BY UndoesKept DEF History
<1>3. History(A, W, j)'
  BY <1>1, <1>2 DEF History
<1>. QED BY <1>3 DEF Follows, Constant

\* A step that leaves the lanes and the notes alone leaves all of it as it was.
LEMMA FollowsKept ==
    ASSUME UNCHANGED <<freq, msg, x, before>>, NEW A, NEW W, Follows(A, W, 0)
    PROVE  Follows(A, W, 0)'
<1>1. /\ A \in [0 .. Len(msg) -> [AllLanes -> States]]
      /\ W \in [0 .. Len(msg) -> Seq(Nat)]
      /\ A[Len(msg)] = [k \in AllLanes |-> L] /\ W[Len(msg)] = <<>>
  BY DEF Follows, History
<1>2. \A h \in 0 .. Len(msg) - 1 : Undoes(h, A[h], W[h], A[h + 1], W[h + 1])'
  BY UndoesKept DEF Follows, History
<1>3. History(A, W, 0)'
  BY <1>1, <1>2 DEF History
<1>. QED BY <1>3 DEF Follows, Constant

-----------------------------------------------------------------------------
(* The space.                                                              *)

\* High lanes can be counted.
LEMMA HighFacts ==
    ASSUME NEW z
    PROVE  High(z) \subseteq AllLanes /\ IsFiniteSet(High(z)) /\ Cardinality(High(z)) \in Nat
<1>1. IsFiniteSet(AllLanes)
  BY LanesAssumption, FS_Interval DEF AllLanes
<1>2. High(z) \subseteq AllLanes
  BY DEF High
<1>3. IsFiniteSet(High(z))
  BY <1>1, <1>2, FS_Subset
<1>4. Cardinality(High(z)) \in Nat
  BY <1>3, FS_CardinalityType
<1>. QED BY <1>2, <1>3, <1>4

\* One lane changes the number of high ones by one at most, and lowers it when it
\* was high and is not any more.
LEMMA HighStep ==
    ASSUME NEW b \in [AllLanes -> States], NEW k \in AllLanes, NEW w \in States,
           NEW a, a = [b EXCEPT ![k] = w]
    PROVE  /\ Cardinality(High(a)) <= Cardinality(High(b)) + 1
           /\ b[k] >= Q * B /\ w < Q * B => Cardinality(High(a)) <= Cardinality(High(b)) - 1
<1>. DEFINE QB == Q * B
            S == High(b) \ {k}
<1>1. a[k] = w /\ \A o \in AllLanes : o # k => a[o] = b[o]
  OBVIOUS
<1>2. IsFiniteSet(S) /\ Cardinality(S) \in Nat /\ k \notin S
  BY HighFacts, FS_Subset, FS_CardinalityType
<1>3. Cardinality(S \cup {k}) = Cardinality(S) + 1
  BY <1>2, FS_AddElement
<1>4. High(a) \subseteq S \cup {k} /\ S \subseteq High(b)
  BY <1>1 DEF High
<1>5. Cardinality(High(a)) <= Cardinality(S) + 1 /\ Cardinality(S) <= Cardinality(High(b))
  <2>1. IsFiniteSet(S \cup {k})
    BY <1>2, FS_AddElement
  <2>2. Cardinality(High(a)) <= Cardinality(S \cup {k})
    BY <1>4, <2>1, FS_Subset
  <2>3. Cardinality(S) <= Cardinality(High(b))
    BY <1>4, HighFacts, FS_Subset
  <2>. QED BY <1>3, <2>2, <2>3
<1>6. ASSUME b[k] >= QB, w < QB
      PROVE  Cardinality(High(a)) <= Cardinality(High(b)) - 1
  <2>1. QB \in Nat /\ w \in Nat
    BY WidthFacts DEF States
  <2>2. k \notin High(a) /\ k \in High(b)
    BY <1>1, <1>6, <2>1 DEF High
  <2>3. High(a) \subseteq S /\ High(b) = S \cup {k}
    BY <1>4, <2>2
  <2>4. Cardinality(High(a)) <= Cardinality(S)
    BY <1>2, <2>3, FS_Subset
  <2>. HIDE DEF S
  <2>5. Cardinality(High(b)) = Cardinality(S \cup {k})
    BY <2>3, Zenon
  <2>6. Cardinality(High(a)) \in Nat
    BY HighFacts
  <2>. QED BY <1>2, <1>3, <2>4, <2>5, <2>6
<1>7. Cardinality(High(a)) \in Nat /\ Cardinality(High(b)) \in Nat
  BY HighFacts
<1>. QED BY <1>2, <1>5, <1>6, <1>7

\* No lane is high at the start.
LEMMA NoneHigh == Cardinality(High([k \in AllLanes |-> L])) = 0
<1>1. /\ M \in Nat /\ M >= 2 /\ B \in Nat /\ Q \in Nat /\ Q >= 1 /\ L \in Nat /\ L = Q * M
      /\ M * M <= B
  BY WidthFacts
<1>2. L < Q * B
  <2>1. M + 1 <= B
    <3>1. M * 2 <= M * M /\ M * 2 = M + M
      BY <1>1, ProductMonotone
    <3>. QED BY <1>1, <3>1
  <2>2. Q * (M + 1) <= Q * B /\ Q * (M + 1) = Q * M + Q /\ Q * B \in Nat
    BY <1>1, <2>1, ProductMonotone
  <2>. QED BY <1>1, <2>2
<1>3. Q * B \in Nat
  BY <1>1
<1>4. High([k \in AllLanes |-> L]) = {}
  BY <1>1, <1>2, <1>3 DEF High
<1>. QED BY <1>4, FS_EmptySet

-----------------------------------------------------------------------------
(* The table.                                                              *)

\* A symbol that occurs gets a share, and no share is negative.
LEMMA ShareFacts ==
    ASSUME NEW m \in Seq(Symbols), NEW s \in Symbols
    PROVE  Share(m, s) \in Nat /\ \A k \in DOMAIN m : m[k] = s => Share(m, s) > 0
<1>. DEFINE S == {k \in DOMAIN m : m[k] = s}
            c == Count(m, s)
<1>1. DOMAIN m = 1 .. Len(m) /\ Len(m) \in Nat
  OBVIOUS
<1>2. IsFiniteSet(1 .. Len(m))
  BY <1>1, FS_Interval
<1>3. IsFiniteSet(S)
  <2>1. S \subseteq 1 .. Len(m)
    BY <1>1
  <2>. HIDE DEF S
  <2>. QED BY <1>2, <2>1, FS_Subset
<1>4. c = Cardinality(S)
  BY DEF Count
<1>5. c \in Nat
  <2>. HIDE DEF S, c
  <2>. QED BY <1>3, <1>4, FS_CardinalityType
<1>6. c = 0 => S = {}
  <2>. HIDE DEF S, c
  <2>. QED BY <1>3, <1>4, FS_EmptySet
<1>7. \A k \in DOMAIN m : m[k] = s => c # 0
  BY <1>6
<1>8. c # 0 => Share(m, s) \in Nat /\ Share(m, s) > 0
  <2>. SUFFICES ASSUME c # 0 PROVE Share(m, s) \in Nat /\ Share(m, s) > 0
    OBVIOUS
  <2>. DEFINE a == (c * M) \div Len(m)
  <2>1. Len(m) # 0
    <3>. SUFFICES ASSUME Len(m) = 0 PROVE c = 0
      OBVIOUS
    <3>1. S = {}
      BY <1>1
    <3>. QED BY <1>4, <3>1, FS_EmptySet
  <2>2. a \in Nat
    <3>1. c * M \in Nat /\ Len(m) \in Nat \ {0}
      BY <1>1, <1>5, <2>1, WidthFacts
    <3>. HIDE DEF c
    <3>. QED BY <3>1, DivisionFacts
  <2>3. Share(m, s) = Max({1, a})
    BY DEF Share
  <2>. HIDE DEF a
  <2>4. Max({1, a}) \in {1, a} /\ Max({1, a}) >= 1
    <3>1. \E b \in {1, a} : \A d \in {1, a} : b >= d
      BY <2>2
    <3>. QED BY <2>2, <3>1 DEF Max
  <2>. QED BY <2>2, <2>3, <2>4
<1>9. c = 0 => Share(m, s) = 0
  BY DEF Share
<1>. HIDE DEF c
<1>. QED BY <1>5, <1>7, <1>8, <1>9

\* Rounding leaves a frequency for every symbol that occurs.
LEMMA RoundedFacts ==
    ASSUME NEW m \in Seq(Symbols)
    PROVE  Rounded(m) \in [Symbols -> Nat] /\ Covers(Rounded(m), m)
<1>1. CASE m = <<>>
  <2>1. DOMAIN m = {}
    BY <1>1
  <2>2. M \in Nat
    BY WidthFacts
  <2>3. Rounded(m) = [s \in Symbols |-> IF s = 0 THEN M ELSE 0]
    BY <1>1 DEF Rounded
  <2>. QED BY <2>1, <2>2, <2>3 DEF Covers
<1>2. CASE m # <<>>
  <2>1. Rounded(m) = [s \in Symbols |-> Share(m, s)]
    BY <1>2 DEF Rounded
  <2>2. \A s \in Symbols : Share(m, s) \in Nat
    BY ShareFacts
  <2>3. ASSUME NEW k \in DOMAIN m
        PROVE  Rounded(m)[m[k]] > 0
    <3>1. m[k] \in Symbols
      OBVIOUS
    <3>2. Share(m, m[k]) > 0
      BY <3>1, ShareFacts
    <3>. QED BY <2>1, <3>1, <3>2
  <2>. QED BY <2>1, <2>2, <2>3 DEF Covers
<1>. QED BY <1>1, <1>2

\* The invariant holds before the table is settled.
LEMMA InitRans == ASSUME Init PROVE RansInv
<1>1. /\ phase = "table" /\ x = [k \in AllLanes |-> L] /\ stream = <<>> /\ i = 0
      /\ output = <<>>
  BY DEF Init
<1>2. freq \in [Symbols -> Nat] /\ msg \in Seq(Symbols) /\ Covers(freq, msg)
  <2>1. CASE \E in \in Inputs : freq = in.freq /\ msg = in.message
    BY <2>1, InputsAssumption
  <2>2. CASE \E m \in Messages : freq = Rounded(m) /\ msg = m
    BY <2>2, MessagesAssumption, RoundedFacts
  <2>. QED BY <2>1, <2>2 DEF Init
<1>. QED BY <1>1, <1>2 DEF RansInv, TypesKnown, TableFresh, Encoding, Sparing, Decoding

\* While the table is being settled, frequencies are all that changes.
LEMMA TableSteps ==
    ASSUME RansInv, phase = "table", phase' = phase, freq' \in [Symbols -> Nat],
           \A s \in Symbols : freq[s] > 0 => freq'[s] > 0,
           UNCHANGED <<msg, j, x, before, stream, i, y, rest, output>>
    PROVE  RansInv'
<1>1. freq \in [Symbols -> Nat] /\ msg \in Seq(Symbols) /\ Covers(freq, msg) /\ TableFresh
  BY DEF RansInv, TypesKnown
<1>2. \A k \in DOMAIN msg : msg[k] \in Symbols
  BY <1>1
<1>3. Covers(freq, msg)'
  BY <1>1, <1>2 DEF Covers
<1>4. TypesKnown'
  BY <1>1, <1>3 DEF TypesKnown
<1>5. TableFresh'
  BY <1>1 DEF TableFresh
<1>. QED BY <1>4, <1>5 DEF RansInv, Encoding, Sparing, Decoding

\* The most frequent symbol never gives up all it has.
LEMMA LowerRans == ASSUME RansInv, Lower PROVE RansInv'
<1>. DEFINE e == Total(freq) - M
            t == MostFrequent
            least == Min({freq[t] - 1, e})
<1>1. phase = "table" /\ freq \in [Symbols -> Nat] /\ M \in Nat
  BY WidthFacts DEF RansInv, TypesKnown, Lower
<1>2. e \in Int
  BY <1>1, TotalFacts
<1>3. freq' = [freq EXCEPT ![t] = freq[t] - least]
  BY DEF Lower
<1>. HIDE DEF e, t
<1>4. ASSUME t \in Symbols
      PROVE  least \in Int /\ least <= freq[t] - 1
  <2>. DEFINE a == freq[t] - 1
  <2>1. a \in Int
    BY <1>1, <1>4
  <2>. HIDE DEF a
  <2>2. \E b \in {a, e} : \A d \in {a, e} : b <= d
    BY <1>2, <2>1
  <2>3. Min({a, e}) \in {a, e} /\ Min({a, e}) <= a
    BY <1>2, <2>1, <2>2 DEF Min
  <2>. QED BY <1>2, <2>1, <2>3 DEF a
<1>. HIDE DEF least
<1>5. ASSUME NEW s \in Symbols
      PROVE  freq'[s] \in Nat /\ (freq[s] > 0 => freq'[s] > 0)
  <2>1. freq[s] \in Nat
    BY <1>1
  <2>2. CASE s = t
    <3>1. freq'[s] = freq[s] - least
      BY <1>1, <1>3, <2>2
    <3>2. least \in Int /\ least <= freq[s] - 1
      BY <1>4, <2>2
    <3>. QED BY <2>1, <3>1, <3>2
  <2>3. CASE s # t
    BY <1>1, <1>3, <2>1, <2>3
  <2>. QED BY <2>2, <2>3
<1>6. freq' \in [Symbols -> Nat]
  BY <1>1, <1>3, <1>5
<1>. QED BY <1>1, <1>5, <1>6, TableSteps DEF Lower

\* Nor does it lose anything when it gets what is missing.
LEMMA RaiseRans == ASSUME RansInv, Raise PROVE RansInv'
<1>. DEFINE e == M - Total(freq)
            t == MostFrequent
<1>1. phase = "table" /\ freq \in [Symbols -> Nat] /\ M \in Nat /\ Total(freq) < M
  BY WidthFacts DEF RansInv, TypesKnown, Raise
<1>2. e \in Nat
  BY <1>1, TotalFacts
<1>3. freq' = [freq EXCEPT ![t] = freq[t] + M - Total(freq)]
  BY DEF Raise
<1>4. Total(freq) \in Nat
  BY <1>1, TotalFacts
<1>. HIDE DEF t
<1>5. ASSUME NEW s \in Symbols
      PROVE  freq'[s] \in Nat /\ (freq[s] > 0 => freq'[s] > 0)
  <2>1. freq[s] \in Nat
    BY <1>1
  <2>2. CASE s = t
    <3>1. freq'[s] = freq[s] + M - Total(freq)
      BY <1>1, <1>3, <2>2
    <3>2. freq'[s] = freq[s] + e
      BY <1>1, <1>4, <2>1, <3>1
    <3>. QED BY <1>2, <2>1, <3>2
  <2>3. CASE s # t
    BY <1>1, <1>3, <2>1, <2>3
  <2>. QED BY <2>2, <2>3
<1>6. freq' \in [Symbols -> Nat]
  BY <1>1, <1>3, <1>5
<1>. QED BY <1>1, <1>5, <1>6, TableSteps DEF Raise

-----------------------------------------------------------------------------
(* Encoding.                                                               *)

\* Before the first symbol the history is that of no symbols, or of a message that
\* needs no words at all.
LEMMA StartEncodeRans == ASSUME RansInv, StartEncode PROVE RansInv'
<1>. DEFINE n == Len(msg)
            home == [k \in AllLanes |-> L]
<1>1. /\ phase = "table" /\ phase' = "encode" /\ Total(freq) = M
      /\ UNCHANGED <<freq, msg, x, before, stream, i, y, rest, output>>
      /\ j' = IF Constant THEN 0 ELSE n
  BY DEF StartEncode
<1>2. TypesKnown /\ x = home /\ stream = <<>> /\ i = 0 /\ output = <<>>
  BY <1>1 DEF RansInv, TableFresh
<1>3. freq \in [Symbols -> Nat] /\ msg \in Seq(Symbols) /\ Covers(freq, msg) /\ Coding
  BY <1>1, <1>2 DEF TypesKnown, Coding
<1>4. n \in Nat
  BY <1>3
<1>5. \E A, W : History(A, W, j') /\ A[j'] = home /\ W[j'] = <<>> /\ (Constant \/ j' = n)
  <2>1. CASE Constant
    BY <1>1, <1>3, <2>1, ConstantHistory
  <2>2. CASE ~Constant
    <3>. DEFINE A == [o \in n .. n |-> home]
                W == [o \in n .. n |-> <<>>]
    <3>1. home \in [AllLanes -> States]
      BY RangeFacts
    <3>2. n \in n .. n /\ \A h \in n .. n - 1 : FALSE
      BY <1>4
    <3>3. /\ A \in [n .. n -> [AllLanes -> States]] /\ W \in [n .. n -> Seq(Nat)]
          /\ A[n] = home /\ W[n] = <<>>
      <4>. HIDE DEF home, n
      <4>. QED BY <3>1, <3>2
    <3>. HIDE DEF A, W
    <3>4. History(A, W, n)
      BY <3>2, <3>3 DEF History
    <3>. QED BY <1>1, <2>2, <3>3, <3>4
  <2>. QED BY <2>1, <2>2
<1>6. Coding'
  BY <1>1, <1>3 DEF Coding
<1>7. Constant' <=> Constant
  BY <1>1 DEF Constant
<1>8. Encoding'
  <2>1. PICK A, W : History(A, W, j') /\ A[j'] = home /\ W[j'] = <<>> /\ (Constant \/ j' = n)
    BY <1>5
  <2>2. PICK c : c = j'
    OBVIOUS
  <2>3. History(A, W, c) /\ x' = A[c]
    BY <1>1, <1>2, <2>1, <2>2
  <2>4. ~Constant =>
            \A h \in c .. Len(msg) - 1 : h \in DOMAIN before' /\ before'[h] = A[h + 1]
    <3>1. ~Constant => \A h \in c .. Len(msg) - 1 : FALSE
      BY <1>4, <2>1, <2>2
    <3>. QED BY <3>1
  <2>5. Follows(A, W, j)'
    BY <1>1, <2>2, <2>3, <2>4, FollowsNext
  <2>6. stream' = W[j']
    BY <1>1, <1>2, <2>1
  <2>7. j' \in 0 .. Len(msg)'
    BY <1>1, <1>4
  <2>8. Constant' => j' = 0
    BY <1>1, <1>7
  <2>. QED BY <1>1, <1>2, <1>6, <2>5, <2>6, <2>7, <2>8 DEF Encoding
<1>9. Sparing'
  <2>1. Len(stream') = 0
    BY <1>1, <1>2
  <2>2. Cardinality(High(x')) = 0
    BY <1>1, <1>2, NoneHigh
  <2>3. 0 <= IF Constant' THEN 0 ELSE Len(msg') - j'
    BY <1>1, <1>4, <1>7
  <2>. QED BY <2>1, <2>2, <2>3 DEF Sparing
<1>. QED BY <1>1, <1>2, <1>3, <1>8, <1>9 DEF RansInv, TypesKnown, TableFresh, Decoding

\* A symbol adds a step to the history, and a word only when its lane was high.
LEMMA EncodeSymbolRans == ASSUME RansInv, EncodeSymbol PROVE RansInv'
<1>. DEFINE n == Len(msg)
            s == msg[j]
<1>1. /\ phase = "encode" /\ j > 0 /\ phase' = phase /\ j' = j - 1
      /\ UNCHANGED <<freq, msg, i, y, rest, output>>
  BY DEF EncodeSymbol
<1>2. /\ TypesKnown /\ Coding /\ j \in 0 .. n /\ i = 0 /\ output = <<>>
      /\ Constant => j = 0
  BY <1>1 DEF RansInv, Encoding
<1>3. PICK A, W : Follows(A, W, j) /\ stream = W[j]
  BY <1>1 DEF RansInv, Encoding
<1>4. msg \in Seq(Symbols) /\ Covers(freq, msg) /\ n \in Nat
  BY <1>2 DEF TypesKnown
<1>5. PICK h \in Nat : j = h + 1
  <2>1. j - 1 \in Nat /\ j = (j - 1) + 1
    BY <1>1, <1>2, <1>4
  <2>. QED BY <2>1
<1>6. PICK c \in Nat : c = j
  BY <1>2, <1>4
<1>7. j' = h /\ c = h + 1 /\ c <= n /\ c \in 0 .. n /\ ~Constant
  BY <1>1, <1>2, <1>4, <1>5, <1>6
<1>8. /\ History(A, W, c) /\ x = A[c] /\ stream = W[c]
      /\ \A o \in c .. n - 1 : o \in DOMAIN before /\ before[o] = A[o + 1]
  BY <1>3, <1>6, <1>7 DEF Follows
<1>9. x \in [AllLanes -> States] /\ stream \in Seq(Nat)
  <2>1. c \in c .. n
    BY <1>4, <1>7
  <2>. QED BY <1>8, <2>1 DEF History
<1>10. s \in Symbols /\ freq[s] > 0 /\ s = msg[h + 1]
  <2>1. j \in DOMAIN msg
    BY <1>1, <1>2, <1>4
  <2>. QED BY <1>4, <1>5, <2>1 DEF Covers
<1>. DEFINE k == Lane(h)
            u == x[k]
            word == <<LowWord(u)>> \o stream
<1>11. k \in AllLanes
  BY LaneFacts
<1>12. EncodeLane(j - 1) = k
  BY <1>5 DEF EncodeLane
<1>13. /\ x' = [x EXCEPT ![k] = Into(s, u)]
       /\ stream' = IF Full(s, u) THEN word ELSE stream
       /\ before' = [o \in DOMAIN before \cup {h} |-> IF o = h THEN x ELSE before[o]]
  <2>1. j - 1 = h
    BY <1>5
  <2>. QED BY <1>12, <2>1 DEF EncodeSymbol, Into, Kept, Full
<1>. HIDE DEF k, s, n
<1>14. x' \in [AllLanes -> States] /\ stream' \in Seq(Nat) /\ Undoes(h, x', stream', x, stream)
  <2>1. PICK a : a = x'
    OBVIOUS
  <2>2. PICK w : w = stream'
    OBVIOUS
  <2>3. Takes(h, s, k, x, stream, a, w)
    BY <1>10, <1>13, <2>1, <2>2 DEF Takes, k
  <2>4. a \in [AllLanes -> States] /\ w \in Seq(Nat) /\ Undoes(h, a, w, x, stream)
    BY <1>2, <1>9, <1>10, <1>11, <2>3, EncodingUndone
  <2>. QED BY <2>1, <2>2, <2>4
<1>15. PICK A2, W2 : /\ History(A2, W2, h) /\ A2[h] = x' /\ W2[h] = stream'
                     /\ \A o \in c .. n : A2[o] = A[o]
  <2>1. PICK a : a = x'
    OBVIOUS
  <2>2. PICK w : w = stream'
    OBVIOUS
  <2>3. a \in [AllLanes -> States] /\ w \in Seq(Nat) /\ Undoes(h, a, w, A[c], W[c])
    BY <1>8, <1>14, <2>1, <2>2
  <2>4. \E A2, W2 : /\ History(A2, W2, h) /\ A2[h] = a /\ W2[h] = w
                    /\ \A o \in c .. n : A2[o] = A[o]
    BY <1>4, <1>7, <1>8, <2>3, HistoryGrows DEF n
  <2>. QED BY <2>1, <2>2, <2>4
<1>16. \A o \in h .. n - 1 : o \in DOMAIN before' /\ before'[o] = A2[o + 1]
  <2>. SUFFICES ASSUME NEW o \in h .. n - 1
                PROVE  o \in DOMAIN before' /\ before'[o] = A2[o + 1]
    OBVIOUS
  <2>1. o + 1 \in c .. n /\ (o = h \/ o \in c .. n - 1)
    BY <1>4, <1>7 DEF n
  <2>2. A2[o + 1] = A[o + 1]
    BY <1>15, <2>1
  <2>3. CASE o = h
    <3>1. before'[o] = x
      BY <1>13, <2>3
    <3>. QED BY <1>7, <1>8, <1>13, <2>2, <2>3, <3>1
  <2>4. CASE o # h
    <3>1. o \in DOMAIN before /\ before[o] = A[o + 1]
      BY <1>8, <2>1, <2>4
    <3>. QED BY <1>13, <2>2, <2>4, <3>1
  <2>. QED BY <2>3, <2>4
<1>17. Follows(A2, W2, j)'
  <2>1. freq' = freq /\ msg' = msg /\ h = j' /\ History(A2, W2, h) /\ x' = A2[h]
    BY <1>1, <1>7, <1>15
  <2>2. ~Constant =>
            \A o \in h .. Len(msg) - 1 : o \in DOMAIN before' /\ before'[o] = A2[o + 1]
    BY <1>16 DEF n
  <2>. QED BY <2>1, <2>2, FollowsNext
<1>18. ~Constant' /\ Coding'
  BY <1>1, <1>2, <1>7 DEF Constant, Coding
<1>19. Encoding'
  <2>1. j' \in 0 .. Len(msg)'
    BY <1>1, <1>4, <1>7 DEF n
  <2>2. stream' = W2[j']
    BY <1>7, <1>15
  <2>. QED BY <1>1, <1>2, <1>17, <1>18, <2>1, <2>2 DEF Encoding
<1>20. Sparing'
  <2>. DEFINE was == Cardinality(High(x))
              is == Cardinality(High(x'))
              length == Len(stream)
  <2>1. 2 * length + was <= n - j
    BY <1>1, <1>7 DEF RansInv, Sparing, n
  <2>2. was \in Nat /\ is \in Nat /\ length \in Nat
    BY <1>9, HighFacts
  <2>3. Into(s, u) \in States /\ (Full(s, u) => Into(s, u) < Q * B)
    BY <1>2, <1>9, <1>10, <1>11, IntoFacts
  <2>4. Full(s, u) => x[k] >= Q * B
    BY <1>2, <1>9, <1>10, <1>11, KeptFacts
  <2>5. is <= was + 1 /\ (Full(s, u) => is <= was - 1)
    <3>1. PICK a : a = x'
      OBVIOUS
    <3>2. a = [x EXCEPT ![k] = Into(s, u)]
      BY <1>13, <3>1
    <3>. HIDE DEF u
    <3>3. /\ Cardinality(High(a)) <= Cardinality(High(x)) + 1
          /\ x[k] >= Q * B /\ Into(s, u) < Q * B =>
                Cardinality(High(a)) <= Cardinality(High(x)) - 1
      BY <1>9, <1>11, <2>3, <3>2, HighStep
    <3>. QED BY <2>3, <2>4, <3>1, <3>3
  <2>6. Len(stream') = IF Full(s, u) THEN length + 1 ELSE length
    <3>1. Full(s, u) => LowWord(u) \in Nat
      BY <1>2, <1>9, <1>10, <1>11, KeptFacts
    <3>. HIDE DEF u
    <3>2. Full(s, u) => <<LowWord(u)>> \in Seq(Nat) /\ Len(<<LowWord(u)>>) = 1
      BY <3>1
    <3>3. Full(s, u) => Len(word) = length + 1
      <4>1. Full(s, u) => Len(word) = Len(<<LowWord(u)>>) + Len(stream)
        BY <1>9, <3>2
      <4>. QED BY <2>2, <3>2, <4>1
    <3>. QED BY <1>13, <3>3
  <2>7. j' = j - 1 /\ j \in Nat /\ Len(msg') = n
    BY <1>1, <1>2, <1>4 DEF n
  <2>. HIDE DEF was, length, is
  <2>8. 2 * Len(stream') + is <= n - j'
    BY <1>4, <2>1, <2>2, <2>5, <2>6, <2>7
  <2>. QED BY <1>18, <2>7, <2>8 DEF Sparing, is
<1>. QED BY <1>1, <1>2, <1>4, <1>19, <1>20 DEF RansInv, TypesKnown, TableFresh, Decoding

\* The decoder begins where the encoder ended.
LEMMA FinishEncodeRans == ASSUME RansInv, FinishEncode PROVE RansInv'
<1>1. /\ phase = "encode" /\ j = 0 /\ phase' = "decode" /\ y' = x /\ rest' = stream
      /\ UNCHANGED <<freq, msg, j, x, before, stream, i, output>>
  BY DEF FinishEncode
<1>2. TypesKnown /\ Coding /\ i = 0 /\ output = <<>>
  BY <1>1 DEF RansInv, Encoding
<1>3. PICK A, W : Follows(A, W, 0) /\ stream = W[0]
  BY <1>1 DEF RansInv, Encoding
<1>4. x = A[0]
  BY <1>3 DEF Follows
<1>5. Follows(A, W, 0)'
  BY <1>1, <1>3, FollowsKept
<1>6. y' = A[i'] /\ rest' = W[i']
  BY <1>1, <1>2, <1>3, <1>4
<1>7. msg \in Seq(Symbols) /\ Len(msg) \in Nat
  BY <1>2 DEF TypesKnown
<1>8. SubSeq(msg, 1, 0) = <<>> /\ 0 \in 0 .. Len(msg)
  BY <1>7
<1>9. i' % Lanes = 0
  <2>1. Lanes \in Nat \ {0} /\ Lanes * 0 = 0
    BY LanesAssumption
  <2>2. 0 % Lanes = 0 - Lanes * 0
    BY <2>1, DivisionUnique
  <2>. QED BY <1>1, <1>2, <2>1, <2>2
<1>10. Decoding'
  <2>1. Coding'
    BY <1>1, <1>2 DEF Coding
  <2>2. output' = SubSeq(msg, 1, i)' /\ i' \in 0 .. Len(msg)'
    BY <1>1, <1>2, <1>8
  <2>. QED BY <1>5, <1>6, <1>9, <2>1, <2>2 DEF Decoding
<1>. QED BY <1>1, <1>2, <1>10 DEF RansInv, TypesKnown, TableFresh, Encoding, Sparing

-----------------------------------------------------------------------------
(* Decoding.                                                               *)

\* The b symbols of g come after the first a of m, and end with its first c.
Continues(g, m, a, b, c) ==
    /\ c = a + b /\ c <= Len(m)
    /\ g \in [1 .. b -> Symbols] /\ \A k \in 1 .. b : g[k] = m[a + k]

\* The first a of m and then g are the first c of m.
Prolongs(g, m, a, c) == SubSeq(m, 1, a) \o g = SubSeq(m, 1, c)

\* A prefix and what follows it is a longer prefix.
LEMMA PrefixJoins ==
    ASSUME NEW m \in Seq(Symbols), NEW a \in Nat, NEW b \in Nat, NEW c, NEW g,
           Continues(g, m, a, b, c)
    PROVE  Prolongs(g, m, a, c)
<1>. USE DEF Continues, Prolongs
<1>. DEFINE s == SubSeq(m, 1, a)
            t == SubSeq(m, 1, c)
            u == s \o g
<1>1. Len(m) \in Nat /\ c \in Nat /\ a <= c /\ \A k \in 1 .. c : m[k] \in Symbols
  OBVIOUS
<1>2. /\ s \in Seq(Symbols) /\ Len(s) = a /\ \A k \in 1 .. a : s[k] = m[k]
      /\ t \in Seq(Symbols) /\ Len(t) = c /\ \A k \in 1 .. c : t[k] = m[k]
  BY <1>1
<1>3. g \in Seq(Symbols) /\ Len(g) = b
  OBVIOUS
<1>. HIDE DEF s, t
<1>4. u \in Seq(Symbols) /\ Len(u) = c
  <2>1. u \in Seq(Symbols) /\ Len(u) = Len(s) + Len(g)
    BY <1>2, <1>3, ConcatProperties
  <2>. QED BY <1>2, <1>3, <2>1
<1>5. \A k \in 1 .. a + b : u[k] = IF k <= a THEN s[k] ELSE g[k - a]
  BY <1>2, <1>3, ConcatProperties
<1>. HIDE DEF u
<1>6. ASSUME NEW k \in 1 .. c
      PROVE  u[k] = t[k]
  <2>1. CASE k <= a
    BY <1>2, <1>5, <2>1
  <2>2. CASE ~ (k <= a)
    <3>1. k - a \in 1 .. b /\ a + (k - a) = k
      BY <1>1, <2>2
    <3>2. g[k - a] = m[k]
      BY <3>1
    <3>. QED BY <1>2, <1>5, <2>2, <3>2
  <2>. QED BY <2>1, <2>2
<1>7. u = t
  BY <1>2, <1>4, <1>6, SeqEqual
<1>. QED BY <1>7 DEF u, s, t

\* A lane that needs a word is shifted without loss.
LEMMA ShiftFacts ==
    ASSUME NEW v \in Nat, NEW d \in Nat, v * B + d \in States
    PROVE  (v * B) % Wide = v * B
<1>1. B \in Nat /\ Wide \in Nat \ {0} /\ B * L < Wide /\ B * L \in Nat
  BY WidthFacts, RangeFacts
<1>. DEFINE e == v * B
<1>2. e \in Nat
  BY <1>1
<1>. HIDE DEF e
<1>3. e + d < B * L
  BY DEF States, e
<1>4. e < Wide /\ Wide * 0 = 0
  BY <1>1, <1>2, <1>3
<1>5. e % Wide = e - Wide * 0
  BY <1>1, <1>2, <1>4, DivisionUnique
<1>. QED BY <1>2, <1>4, <1>5 DEF e

\* A lane in state v takes in the next word.
Shifted(v, w) == ((v * B) % Wide) + Head(w)

\* Decoding symbol h with lanes a and words w turns lane k into b's and leaves v.
Advances(h, k, a, w, b, v) ==
    /\ Decoded(a[k]) = msg[h + 1] /\ Advanced(a[k]) \in Nat
    /\ \A o \in AllLanes : o # k => b[o] = a[o]
    /\ Advanced(a[k]) >= L => b[k] = Advanced(a[k]) /\ v = w
    /\ Advanced(a[k]) < L => w # <<>> /\ v = Tail(w) /\ b[k] = Shifted(Advanced(a[k]), w)

\* What one lane becomes, and the words that are left, are the next step of the
\* history.
LEMMA LaneDecoded ==
    ASSUME NEW h \in Nat, NEW a \in [AllLanes -> States], NEW w \in Seq(Nat),
           NEW b \in [AllLanes -> States], NEW v \in Seq(Nat), Undoes(h, a, w, b, v),
           NEW k \in AllLanes, k = Lane(h)
    PROVE  Advances(h, k, a, w, b, v)
<1>. DEFINE u == Advanced(a[k])
<1>1. /\ Decoded(a[k]) = msg[h + 1] /\ u \in Nat
      /\ \A o \in AllLanes : o # k => b[o] = a[o]
      /\ u >= L => b[k] = u /\ v = w
      /\ u < L => \E d \in Nat : w = <<d>> \o v /\ b[k] = u * B + d
  BY DEF Undoes
<1>. HIDE DEF u
<1>2. ASSUME u < L
      PROVE  w # <<>> /\ v = Tail(w) /\ b[k] = Shifted(u, w)
  <2>1. PICK d \in Nat : w = <<d>> \o v /\ b[k] = u * B + d
    BY <1>1, <1>2
  <2>2. <<d>> \in Seq(Nat) /\ Len(<<d>>) = 1 /\ <<d>>[1] = d
    OBVIOUS
  <2>3. Len(w) = 1 + Len(v) /\ Len(v) \in Nat
    BY <2>1, <2>2, ConcatProperties
  <2>4. w # <<>>
    BY <2>3
  <2>5. \A n \in 1 .. 1 + Len(v) : w[n] = IF n <= 1 THEN d ELSE v[n - 1]
    BY <2>1, <2>2, ConcatProperties
  <2>6. Head(w) = d
    <3>1. 1 \in 1 .. 1 + Len(v)
      BY <2>3
    <3>2. w[1] = d
      BY <2>5, <3>1
    <3>. QED BY <2>4, <3>2
  <2>7. Tail(w) = v
    <3>1. /\ Tail(w) \in Seq(Nat) /\ Len(Tail(w)) = Len(w) - 1
          /\ \A n \in 1 .. Len(Tail(w)) : Tail(w)[n] = w[n + 1]
      BY <2>4, HeadTailProperties
    <3>2. Len(Tail(w)) = Len(v)
      BY <2>3, <3>1
    <3>3. \A n \in 1 .. Len(v) : Tail(w)[n] = v[n]
      <4>. SUFFICES ASSUME NEW n \in 1 .. Len(v) PROVE Tail(w)[n] = v[n]
        OBVIOUS
      <4>1. n + 1 \in 1 .. 1 + Len(v) /\ ~ (n + 1 <= 1) /\ (n + 1) - 1 = n
        BY <2>3
      <4>2. w[n + 1] = v[n]
        BY <2>5, <4>1
      <4>. QED BY <3>1, <3>2, <4>2
    <3>. QED BY <3>1, <3>2, <3>3, SeqEqual
  <2>8. (u * B) % Wide = u * B
    <3>1. b[k] \in States
      OBVIOUS
    <3>. QED BY <1>1, <2>1, <3>1, ShiftFacts
  <2>. QED BY <2>1, <2>4, <2>6, <2>7, <2>8 DEF Shifted
<1>. QED BY <1>1, <1>2 DEF u, Advances

\* What the decoder knows of the history.
LEMMA DecoderFacts ==
    ASSUME RansInv, phase = "decode"
    PROVE  /\ TypesKnown /\ Coding /\ msg \in Seq(Symbols) /\ Len(msg) \in Nat
           /\ i \in 0 .. Len(msg) /\ i \in Nat
           /\ output = SubSeq(msg, 1, i) /\ (i % Lanes = 0 \/ ~BlockFits)
           /\ \E A, W : /\ Follows(A, W, 0) /\ y = A[i] /\ rest = W[i]
                        /\ A \in [0 .. Len(msg) -> [AllLanes -> States]]
                        /\ W \in [0 .. Len(msg) -> Seq(Nat)]
                        /\ y \in [AllLanes -> States] /\ rest \in Seq(Nat)
                        /\ A[Len(msg)] = [k \in AllLanes |-> L] /\ W[Len(msg)] = <<>>
                        /\ \A h \in 0 .. Len(msg) - 1 :
                              Undoes(h, A[h], W[h], A[h + 1], W[h + 1])
<1>1. TypesKnown /\ Decoding
  BY DEF RansInv
<1>2. /\ Coding /\ i \in 0 .. Len(msg) /\ output = SubSeq(msg, 1, i)
      /\ (i % Lanes = 0 \/ ~BlockFits)
  BY <1>1 DEF Decoding
<1>3. msg \in Seq(Symbols) /\ Len(msg) \in Nat
  BY <1>1 DEF TypesKnown
<1>4. PICK A, W : Follows(A, W, 0) /\ y = A[i] /\ rest = W[i]
  BY <1>1 DEF Decoding
<1>5. /\ A \in [0 .. Len(msg) -> [AllLanes -> States]] /\ W \in [0 .. Len(msg) -> Seq(Nat)]
      /\ A[Len(msg)] = [k \in AllLanes |-> L] /\ W[Len(msg)] = <<>>
      /\ \A h \in 0 .. Len(msg) - 1 : Undoes(h, A[h], W[h], A[h + 1], W[h + 1])
  BY <1>4 DEF Follows, History
<1>6. y \in [AllLanes -> States] /\ rest \in Seq(Nat)
  BY <1>2, <1>4, <1>5
<1>7. i \in Nat
  BY <1>2, <1>3
<1>. QED BY <1>1, <1>2, <1>3, <1>4, <1>5, <1>6, <1>7

\* Decoding a symbol goes one step along the history, with a word when it needs one.
LEMMA DecodeSymbolRans == ASSUME RansInv, DecodeSymbol PROVE RansInv'
<1>. DEFINE n == Len(msg)
<1>1. /\ phase = "decode" /\ ~BlockFits /\ i < n
      /\ UNCHANGED <<freq, msg, j, x, before, stream>>
  BY DEF DecodeSymbol
<1>2. /\ TypesKnown /\ Coding /\ msg \in Seq(Symbols) /\ n \in Nat /\ i \in Nat
      /\ output = SubSeq(msg, 1, i)
  BY <1>1, DecoderFacts
<1>3. PICK A, W : /\ Follows(A, W, 0) /\ y = A[i] /\ rest = W[i]
                  /\ A \in [0 .. n -> [AllLanes -> States]]
                  /\ W \in [0 .. n -> Seq(Nat)]
                  /\ y \in [AllLanes -> States] /\ rest \in Seq(Nat)
                  /\ \A h \in 0 .. n - 1 : Undoes(h, A[h], W[h], A[h + 1], W[h + 1])
  BY <1>1, DecoderFacts
<1>. HIDE DEF n
<1>4. PICK h \in Nat : h = i
  BY <1>2
<1>5. PICK c \in Nat : c = h + 1
  OBVIOUS
<1>6. h \in 0 .. n - 1 /\ c \in 0 .. n
  BY <1>1, <1>2, <1>4, <1>5
<1>7. A[c] \in [AllLanes -> States] /\ W[c] \in Seq(Nat) /\ Undoes(h, y, rest, A[c], W[c])
  BY <1>3, <1>4, <1>5, <1>6
<1>. DEFINE k == Lane(i)
            v == Advanced(y[k])
<1>8. k \in AllLanes /\ k = Lane(h)
  BY <1>2, <1>4, LaneFacts
<1>. HIDE DEF k
<1>9. /\ Decoded(y[k]) = msg[h + 1] /\ v \in Nat
      /\ \A o \in AllLanes : o # k => A[c][o] = y[o]
      /\ v >= L => A[c][k] = v /\ W[c] = rest
      /\ v < L => rest # <<>> /\ W[c] = Tail(rest) /\ A[c][k] = Shifted(v, rest)
  <2>1. PICK b : b = A[c]
    OBVIOUS
  <2>2. PICK w : w = W[c]
    OBVIOUS
  <2>3. /\ b \in [AllLanes -> States] /\ w \in Seq(Nat) /\ Undoes(h, y, rest, b, w)
        /\ y \in [AllLanes -> States] /\ rest \in Seq(Nat)
    BY <1>3, <1>7, <2>1, <2>2
  <2>4. Advances(h, k, y, rest, b, w)
    BY <1>8, <2>3, LaneDecoded
  <2>. QED BY <2>1, <2>2, <2>4 DEF Advances
<1>10. ~ (v < L /\ rest = <<>>)
  BY <1>9
<1>11. /\ output' = Append(output, Decoded(y[k])) /\ i' = i + 1 /\ phase' = phase
       /\ y' = [y EXCEPT ![k] = IF v < L THEN Shifted(v, rest) ELSE v]
       /\ rest' = IF v < L THEN Tail(rest) ELSE rest
  BY <1>10 DEF DecodeSymbol, Shifted, k
<1>. HIDE DEF v
<1>12. L \in Nat
  BY WidthFacts
<1>13. rest' = W[c]
  <2>1. CASE v < L
    BY <1>9, <1>11, <2>1
  <2>2. CASE ~ (v < L)
    <3>1. v >= L
      BY <1>9, <1>12, <2>2
    <3>. QED BY <1>9, <1>11, <2>2, <3>1
  <2>. QED BY <2>1, <2>2
<1>14. y' = A[c]
  <2>1. y'[k] = A[c][k]
    BY <1>3, <1>8, <1>9, <1>11, <1>12
  <2>2. \A o \in AllLanes : y'[o] = A[c][o]
    BY <1>3, <1>9, <1>11, <2>1
  <2>3. y' = [o \in AllLanes |-> y'[o]] /\ A[c] = [o \in AllLanes |-> A[c][o]]
    BY <1>3, <1>7, <1>11
  <2>. QED BY <2>2, <2>3
<1>15. i' = c
  BY <1>4, <1>5, <1>11
<1>16. output' = SubSeq(msg, 1, c)
  <2>1. msg[h + 1] \in Symbols
    BY <1>2, <1>5, <1>6 DEF n
  <2>. DEFINE g == <<msg[h + 1]>>
  <2>2. SubSeq(msg, 1, h) \in Seq(Symbols)
    BY <1>2, <1>6 DEF n
  <2>3. Append(SubSeq(msg, 1, h), msg[h + 1]) = SubSeq(msg, 1, h) \o g
    BY <2>1, <2>2, AppendIsConcat
  <2>4. g \in [1 .. 1 -> Symbols] /\ \A o \in 1 .. 1 : g[o] = msg[h + o]
    BY <2>1
  <2>. HIDE DEF g
  <2>5. SubSeq(msg, 1, h) \o g = SubSeq(msg, 1, c)
    <3>1. PICK b \in Nat : b = 1
      OBVIOUS
    <3>2. Continues(g, msg, h, b, c)
      BY <1>2, <1>5, <1>6, <2>4, <3>1 DEF n, Continues
    <3>3. msg \in Seq(Symbols)
      BY <1>2
    <3>4. Prolongs(g, msg, h, c)
      BY <3>2, <3>3, PrefixJoins
    <3>. QED BY <3>4 DEF Prolongs
  <2>. QED BY <1>2, <1>4, <1>9, <1>11, <2>3, <2>5
<1>17. ~BlockFits'
  <2>1. Len(rest') \in Nat /\ Len(rest) \in Nat /\ Len(rest') <= Len(rest)
    <3>1. CASE v < L
      <4>1. rest # <<>> /\ rest' = Tail(rest)
        BY <1>9, <1>11, <3>1
      <4>2. Len(Tail(rest)) = Len(rest) - 1 /\ Tail(rest) \in Seq(Nat)
        BY <1>3, <4>1, HeadTailProperties
      <4>3. Len(rest) \in Nat /\ Len(Tail(rest)) \in Nat
        BY <1>3, <4>2
      <4>. QED BY <4>1, <4>2, <4>3
    <3>2. CASE ~ (v < L)
      BY <1>3, <1>11, <3>2
    <3>. QED BY <3>1, <3>2
  <2>2. Lanes \in Nat
    BY LanesAssumption
  <2>. QED BY <1>1, <1>2, <1>11, <2>1, <2>2 DEF BlockFits
<1>18. Follows(A, W, 0)'
  BY <1>1, <1>3, FollowsKept
<1>19. Decoding'
  <2>1. Coding'
    BY <1>1, <1>2 DEF Coding
  <2>2. i' \in 0 .. Len(msg)' /\ output' = SubSeq(msg, 1, i)' /\ y' = A[i'] /\ rest' = W[i']
    BY <1>1, <1>6, <1>13, <1>14, <1>15, <1>16 DEF n
  <2>. QED BY <1>17, <1>18, <2>1, <2>2 DEF Decoding
<1>20. TypesKnown'
  BY <1>1, <1>2, <1>11 DEF TypesKnown
<1>. QED BY <1>1, <1>11, <1>19, <1>20 DEF RansInv, TableFresh, Encoding, Sparing

\* At the end of the history all words are read and all lanes are back.
LEMMA FinishDecodeRans == ASSUME RansInv, FinishDecode PROVE RansInv'
<1>1. /\ phase = "decode" /\ i = Len(msg)
      /\ UNCHANGED <<freq, msg, j, x, before, stream, i, y, rest, output>>
      /\ phase' = IF rest = <<>> /\ \A k \in AllLanes : y[k] = L THEN "decoded" ELSE "rejected"
  BY DEF FinishDecode
<1>2. /\ TypesKnown /\ msg \in Seq(Symbols) /\ output = SubSeq(msg, 1, i)
      /\ rest = <<>> /\ y = [k \in AllLanes |-> L]
  BY <1>1, DecoderFacts
<1>3. phase' = "decoded"
  BY <1>1, <1>2
<1>4. output' = msg'
  BY <1>1, <1>2, SubSeqFull
<1>5. TypesKnown'
  BY <1>1, <1>2, <1>3 DEF TypesKnown
<1>. QED BY <1>3, <1>4, <1>5 DEF RansInv, TableFresh, Encoding, Sparing, Decoding
-----------------------------------------------------------------------------
(* Decoding a block.                                                       *)

\* What is left of the words after the first t.
Dropped(w, t) == SubSeq(w, t + 1, Len(w))

\* What is left begins with the next word, and loses it next.
LEMMA DropFacts ==
    ASSUME NEW w \in Seq(Nat), NEW t \in Nat, t <= Len(w), NEW u \in Nat, u = t + 1
    PROVE  /\ Dropped(w, t) \in Seq(Nat)
           /\ Dropped(w, t) # <<>> =>
                 /\ u <= Len(w) /\ Head(Dropped(w, t)) = w[u]
                 /\ Tail(Dropped(w, t)) = Dropped(w, u)
<1>. DEFINE n == Len(w)
            d == Dropped(w, t)
            e == Dropped(w, u)
<1>1. n \in Nat /\ t <= n /\ \A k \in 1 .. n : w[k] \in Nat
  OBVIOUS
<1>2. d = SubSeq(w, u, n) /\ e = SubSeq(w, u + 1, n)
  BY DEF Dropped
<1>. HIDE DEF d, e
<1>3. d \in Seq(Nat) /\ Len(d) = n - t /\ \A k \in 1 .. n - t : d[k] = w[t + k]
  <2>1. \A k \in u .. n : w[k] \in Nat
    BY <1>1
  <2>2. d \in Seq(Nat) /\ Len(d) = n - t
    BY <1>1, <1>2, <2>1
  <2>3. \A k \in 1 .. n - t : d[k] = w[t + k]
    BY <1>1, <1>2
  <2>. QED BY <2>2, <2>3
<1>4. ASSUME u <= n
      PROVE  Head(d) = w[u] /\ Tail(d) = e
  <2>1. d # <<>> /\ 1 \in 1 .. n - t
    BY <1>1, <1>3, <1>4
  <2>2. Head(d) = w[u]
    <3>1. Head(d) = d[1] /\ t + 1 = u
      BY <1>3, <2>1
    <3>. QED BY <1>3, <2>1, <3>1
  <2>3. e \in Seq(Nat) /\ Len(e) = n - u /\ \A k \in 1 .. n - u : e[k] = w[u + k]
    <3>1. \A k \in u + 1 .. n : w[k] \in Nat
      BY <1>1
    <3>2. e \in Seq(Nat) /\ Len(e) = n - u
      BY <1>1, <1>2, <1>4, <3>1
    <3>3. \A k \in 1 .. n - u : e[k] = w[u + k]
      BY <1>1, <1>2
    <3>. QED BY <3>2, <3>3
  <2>4. /\ Tail(d) \in Seq(Nat) /\ Len(Tail(d)) = Len(d) - 1
        /\ \A k \in 1 .. Len(Tail(d)) : Tail(d)[k] = d[k + 1]
    BY <1>3, <2>1, HeadTailProperties
  <2>5. Len(Tail(d)) = n - u
    BY <1>1, <1>3, <2>4
  <2>6. \A k \in 1 .. n - u : Tail(d)[k] = e[k]
    <3>. SUFFICES ASSUME NEW k \in 1 .. n - u PROVE Tail(d)[k] = e[k]
      OBVIOUS
    <3>1. k + 1 \in 1 .. n - t /\ t + (k + 1) = u + k
      BY <1>1
    <3>2. d[k + 1] = w[u + k]
      BY <1>3, <3>1
    <3>. QED BY <2>3, <2>4, <2>5, <3>2
  <2>7. Tail(d) = e
    BY <2>3, <2>4, <2>5, <2>6, SeqEqual
  <2>. QED BY <2>2, <2>7
<1>5. d # <<>> => u <= n
  BY <1>1, <1>3
<1>. QED BY <1>3, <1>4, <1>5 DEF d, e

\* The words taken are counted lane by lane.
LEMMA TakenFacts ==
    ASSUME Lanes \in Nat
    PROVE  /\ Taken(0) = 0
           /\ \A k \in AllLanes : \A q \in Nat : q = k + 1 =>
                 /\ Taken(k) \in Nat
                 /\ Advanced(y[k]) < L => Taken(q) = Taken(k) + 1
                 /\ ~(Advanced(y[k]) < L) => Taken(q) = Taken(k)
<1>1. Taken(0) = 0
  <2>1. {h \in 0 .. 0 - 1 : Advanced(y[h]) < L} = {}
    OBVIOUS
  <2>. QED BY <2>1, FS_EmptySet DEF Taken
<1>2. ASSUME NEW k \in AllLanes, NEW q \in Nat, q = k + 1
      PROVE  /\ Taken(k) \in Nat
             /\ Advanced(y[k]) < L => Taken(q) = Taken(k) + 1
             /\ ~(Advanced(y[k]) < L) => Taken(q) = Taken(k)
  <2>. DEFINE S == {h \in 0 .. k - 1 : Advanced(y[h]) < L}
              S2 == {h \in 0 .. q - 1 : Advanced(y[h]) < L}
  <2>1. k \in Nat
    BY DEF AllLanes
  <2>2. Taken(k) = Cardinality(S) /\ Taken(q) = Cardinality(S2)
    BY Zenon DEF Taken
  <2>3. IsFiniteSet(S)
    <3>1. S \subseteq 0 .. k - 1
      OBVIOUS
    <3>2. IsFiniteSet(0 .. k - 1)
      BY <2>1, FS_Interval
    <3>. HIDE DEF S
    <3>. QED BY <3>1, <3>2, FS_Subset
  <2>4. k \notin S
    BY <2>1
  <2>5. \A h : h \in 0 .. q - 1 <=> h \in 0 .. k - 1 \/ h = k
    BY <1>2, <2>1
  <2>6. Advanced(y[k]) < L => S2 = S \cup {k}
    BY <2>5
  <2>7. ~(Advanced(y[k]) < L) => S2 = S
    BY <2>5
  <2>. HIDE DEF S, S2
  <2>8. Cardinality(S) \in Nat /\ Cardinality(S \cup {k}) = Cardinality(S) + 1
    BY <2>3, <2>4, FS_CardinalityType, FS_AddElement
  <2>9. Advanced(y[k]) < L => Cardinality(S2) = Cardinality(S \cup {k})
    BY <2>6, Zenon
  <2>10. ~(Advanced(y[k]) < L) => Cardinality(S2) = Cardinality(S)
    BY <2>7, Zenon
  <2>. QED BY <2>2, <2>8, <2>9, <2>10
<1>. QED BY <1>1, <1>2

\* What DecodeBlock makes of lane k.
Fetched(k) ==
    IF Advanced(y[k]) < L
    THEN ((Advanced(y[k]) * B) % Wide) + rest[Taken(k) + 1]
    ELSE Advanced(y[k])

\* b and w are the lanes and words with the first k lanes of the block decoded.
Reached(k, b, w) ==
    /\ Taken(k) \in Nat /\ Taken(k) <= Len(rest) /\ w = Dropped(rest, Taken(k))
    /\ \A o \in AllLanes : b[o] = IF o < k THEN Fetched(o) ELSE y[o]

\* Lane k holds symbol h.
Gives(k, h) == Decoded(y[k]) = msg[h + 1]

\* Lane k of a block goes one step along the history.
LEMMA BlockLane ==
    ASSUME rest \in Seq(Nat), NEW k \in AllLanes, NEW q, q = k + 1,
           NEW h \in Nat, k = Lane(h),
           NEW b \in [AllLanes -> States], NEW w \in Seq(Nat), Reached(k, b, w),
           NEW b2 \in [AllLanes -> States], NEW w2 \in Seq(Nat), Undoes(h, b, w, b2, w2)
    PROVE  Reached(q, b2, w2) /\ Gives(k, h)
<1>. DEFINE v == Advanced(y[k])
            t == Taken(k)
<1>1. Lanes \in Nat /\ L \in Nat /\ k \in Nat /\ Len(rest) \in Nat
  BY LanesAssumption, WidthFacts DEF AllLanes
<1>2. /\ t \in Nat /\ t <= Len(rest) /\ w = Dropped(rest, t)
      /\ \A o \in AllLanes : b[o] = IF o < k THEN Fetched(o) ELSE y[o]
  BY DEF Reached
<1>3. b[k] = y[k]
  BY <1>1, <1>2
<1>4. Advances(h, k, b, w, b2, w2)
  BY LaneDecoded
<1>5. /\ Decoded(y[k]) = msg[h + 1] /\ v \in Nat
      /\ v >= L => b2[k] = v /\ w2 = w
      /\ v < L => w # <<>> /\ w2 = Tail(w) /\ b2[k] = Shifted(v, w)
  BY <1>3, <1>4 DEF Advances
<1>6. /\ v < L => Taken(q) = t + 1
      /\ ~(v < L) => Taken(q) = t
  <2>1. q \in Nat /\ q = k + 1
    BY <1>1
  <2>. QED BY <1>1, <2>1, TakenFacts
<1>7. Fetched(k) = IF v < L THEN ((v * B) % Wide) + rest[t + 1] ELSE v
  BY DEF Fetched
<1>8. \A o \in AllLanes : o # k => (o < q <=> o < k)
  BY <1>1 DEF AllLanes
<1>9. k < q
  BY <1>1
<1>. HIDE DEF v, t
<1>10. PICK u \in Nat : u = t + 1
  BY <1>2
<1>11. /\ Taken(q) \in Nat /\ Taken(q) <= Len(rest)
       /\ w2 = Dropped(rest, Taken(q)) /\ b2[k] = Fetched(k)
  <2>1. CASE v < L
    <3>1. w # <<>> /\ w2 = Tail(w) /\ b2[k] = Shifted(v, w) /\ Taken(q) = u
      BY <1>5, <1>6, <1>10, <2>1
    <3>2. Dropped(rest, t) # <<>> =>
              /\ u <= Len(rest) /\ Head(Dropped(rest, t)) = rest[u]
              /\ Tail(Dropped(rest, t)) = Dropped(rest, u)
      BY <1>2, <1>10, DropFacts
    <3>3. u <= Len(rest) /\ Head(w) = rest[u] /\ Tail(w) = Dropped(rest, u)
      BY <1>2, <3>1, <3>2
    <3>4. b2[k] = ((v * B) % Wide) + rest[u]
      BY <3>1, <3>3 DEF Shifted
    <3>5. Fetched(k) = ((v * B) % Wide) + rest[u]
      BY <1>7, <1>10, <2>1
    <3>. QED BY <3>1, <3>3, <3>4, <3>5
  <2>2. CASE ~(v < L)
    <3>1. v >= L
      BY <1>1, <1>5, <2>2
    <3>. QED BY <1>2, <1>5, <1>6, <1>7, <2>2, <3>1
  <2>. QED BY <2>1, <2>2
<1>12. \A o \in AllLanes : b2[o] = IF o < q THEN Fetched(o) ELSE y[o]
  <2>. SUFFICES ASSUME NEW o \in AllLanes
                PROVE  b2[o] = IF o < q THEN Fetched(o) ELSE y[o]
    OBVIOUS
  <2>1. CASE o = k
    BY <1>9, <1>11, <2>1
  <2>2. CASE o # k
    <3>1. b2[o] = b[o]
      BY <1>4, <2>2 DEF Advances
    <3>. QED BY <1>2, <1>8, <2>2, <3>1
  <2>. QED BY <2>1, <2>2
<1>. QED BY <1>5, <1>11, <1>12 DEF Reached, Gives

\* Decoding a block goes as many steps along the history as there are lanes.
LEMMA DecodeBlockRans == ASSUME RansInv, DecodeBlock PROVE RansInv'
<1>. DEFINE n == Len(msg)
            g == [k \in 1 .. Lanes |-> Decoded(y[k - 1])]
<1>1. /\ phase = "decode" /\ BlockFits
      /\ output' = output \o g /\ i' = i + Lanes
      /\ UNCHANGED <<freq, msg, phase, j, x, before, stream>>
      /\ y' = [k \in AllLanes |-> Fetched(k)]
      /\ rest' = Dropped(rest, Taken(Lanes))
  BY DEF DecodeBlock, Fetched, Dropped
<1>2. /\ TypesKnown /\ Coding /\ msg \in Seq(Symbols) /\ n \in Nat /\ i \in Nat
      /\ output = SubSeq(msg, 1, i) /\ i % Lanes = 0
  BY <1>1, DecoderFacts
<1>3. PICK A, W : /\ Follows(A, W, 0) /\ y = A[i] /\ rest = W[i]
                  /\ A \in [0 .. n -> [AllLanes -> States]]
                  /\ W \in [0 .. n -> Seq(Nat)]
                  /\ y \in [AllLanes -> States] /\ rest \in Seq(Nat)
                  /\ \A h \in 0 .. n - 1 : Undoes(h, A[h], W[h], A[h + 1], W[h + 1])
  BY <1>1, DecoderFacts
<1>4. Lanes \in Nat \ {0} /\ i + Lanes <= n
  BY <1>1, LanesAssumption DEF BlockFits, n
<1>. HIDE DEF n, g
<1>5. PICK p \in Nat : i = Lanes * p
  <2>1. i \div Lanes \in Nat /\ i = Lanes * (i \div Lanes) + (i % Lanes)
    BY <1>2, <1>4, DivisionFacts
  <2>2. PICK p \in Nat : p = i \div Lanes
    BY <2>1
  <2>3. Lanes * p \in Nat
    BY <1>4
  <2>. QED BY <1>2, <2>1, <2>2, <2>3
<1>6. ASSUME NEW k \in AllLanes, NEW h \in Nat, h = i + k
      PROVE  Lane(h) = k /\ h \in 0 .. n - 1
  <2>1. k \in Nat /\ k < Lanes
    BY <1>4 DEF AllLanes
  <2>2. Lanes * p <= h /\ h < Lanes * p + Lanes /\ h - Lanes * p = k
    BY <1>2, <1>4, <1>5, <1>6, <2>1
  <2>3. h % Lanes = h - Lanes * p
    BY <1>4, <2>2, DivisionUnique
  <2>. QED BY <1>2, <1>4, <1>6, <2>1, <2>2, <2>3 DEF Lane
<1>. DEFINE T == {k \in 0 .. Lanes : Reached(k, A[i + k], W[i + k])}
<1>7. 0 \in T
  <2>1. Taken(0) = 0
    BY <1>4, TakenFacts
  <2>2. Dropped(rest, 0) = rest
    <3>1. SubSeq(rest, 1, Len(rest)) = rest
      BY <1>3, SubSeqFull
    <3>. QED BY <3>1 DEF Dropped
  <2>3. \A o \in AllLanes : ~(o < 0)
    BY <1>4 DEF AllLanes
  <2>4. Len(rest) \in Nat /\ i + 0 = i
    BY <1>2, <1>3
  <2>5. Reached(0, y, rest)
    BY <2>1, <2>2, <2>3, <2>4 DEF Reached
  <2>. QED BY <1>3, <1>4, <2>4, <2>5
<1>8. ASSUME NEW k \in 0 .. Lanes - 1, k \in T
      PROVE  k + 1 \in T /\ Decoded(y[k]) = msg[i + k + 1]
  <2>1. k \in AllLanes /\ k \in Nat
    BY <1>4 DEF AllLanes
  <2>2. PICK h \in Nat : h = i + k
    BY <1>2, <2>1
  <2>3. PICK q \in Nat : q = k + 1
    BY <2>1
  <2>4. h + 1 = i + q /\ q \in 0 .. Lanes
    BY <1>2, <1>4, <2>1, <2>2, <2>3
  <2>5. k = Lane(h) /\ h \in 0 .. n - 1 /\ h \in 0 .. n /\ h + 1 \in 0 .. n
    BY <1>2, <1>6, <2>1, <2>2
  <2>6. PICK b, w : b = A[h] /\ w = W[h]
    OBVIOUS
  <2>7. PICK b2, w2 : b2 = A[h + 1] /\ w2 = W[h + 1]
    OBVIOUS
  <2>8. /\ b \in [AllLanes -> States] /\ w \in Seq(Nat)
        /\ b2 \in [AllLanes -> States] /\ w2 \in Seq(Nat) /\ Undoes(h, b, w, b2, w2)
    BY <1>3, <2>5, <2>6, <2>7
  <2>9. Reached(k, b, w)
    BY <1>8, <2>2, <2>6
  <2>. HIDE DEF T
  <2>10. Reached(q, b2, w2) /\ Gives(k, h)
    BY <1>3, <2>1, <2>3, <2>5, <2>8, <2>9, BlockLane
  <2>11. Reached(q, A[i + q], W[i + q])
    BY <2>4, <2>7, <2>10
  <2>12. i + k + 1 = h + 1
    BY <2>2
  <2>. QED BY <2>3, <2>4, <2>10, <2>11, <2>12 DEF T, Gives
<1>9. \A k \in 0 .. Lanes : k \in T
  <2>. HIDE DEF T
  <2>. QED BY <1>4, <1>7, <1>8, BoundedInduction
<1>10. PICK c \in Nat : c = i + Lanes
  BY <1>2, <1>4
<1>11. c \in 0 .. n /\ A[c] \in [AllLanes -> States]
  BY <1>2, <1>3, <1>4, <1>10
<1>12. Reached(Lanes, A[c], W[c])
  BY <1>4, <1>9, <1>10
<1>13. rest' = W[c]
  BY <1>1, <1>12 DEF Reached
<1>14. y' = A[c]
  <2>1. \A o \in AllLanes : o < Lanes
    BY <1>4 DEF AllLanes
  <2>2. \A o \in AllLanes : A[c][o] = Fetched(o)
    BY <1>12, <2>1 DEF Reached
  <2>3. A[c] = [o \in AllLanes |-> A[c][o]]
    BY <1>11
  <2>. QED BY <1>1, <2>2, <2>3
<1>15. output' = SubSeq(msg, 1, c)
  <2>1. ASSUME NEW k \in 1 .. Lanes
        PROVE  g[k] \in Symbols /\ g[k] = msg[i + k]
    <3>1. PICK o \in 0 .. Lanes - 1 : o = k - 1
      BY <1>4
    <3>2. o \in T
      BY <1>4, <1>9, <3>1
    <3>3. Decoded(y[o]) = msg[i + o + 1]
      BY <1>8, <3>2
    <3>4. i + o + 1 = i + k /\ i + k \in 1 .. n
      BY <1>2, <1>4, <3>1
    <3>5. g[k] = Decoded(y[o])
      BY <3>1 DEF g
    <3>. QED BY <1>2, <3>3, <3>4, <3>5 DEF n
  <2>2. g \in [1 .. Lanes -> Symbols]
    <3>1. g = [k \in 1 .. Lanes |-> g[k]]
      BY DEF g
    <3>. QED BY <2>1, <3>1
  <2>3. PICK a \in Nat : a = i
    BY <1>2
  <2>4. Continues(g, msg, a, Lanes, c)
    BY <1>10, <1>11, <2>1, <2>2, <2>3 DEF Continues, n
  <2>5. Prolongs(g, msg, a, c)
    BY <1>2, <1>4, <2>4, PrefixJoins
  <2>. QED BY <1>1, <1>2, <2>3, <2>5 DEF Prolongs
<1>16. c % Lanes = 0
  <2>1. PICK q \in Nat : q = p + 1
    OBVIOUS
  <2>2. Lanes * q = Lanes * p + Lanes
    BY <1>4, <2>1
  <2>3. Lanes * q = c
    BY <1>5, <1>10, <2>2
  <2>4. Lanes * q <= c /\ c < Lanes * q + Lanes /\ c - Lanes * q = 0
    BY <1>4, <2>3
  <2>5. c % Lanes = c - Lanes * q
    BY <1>4, <2>4, DivisionUnique
  <2>. QED BY <2>4, <2>5
<1>17. Follows(A, W, 0)'
  BY <1>1, <1>3, FollowsKept
<1>18. Decoding'
  <2>1. Coding'
    BY <1>1, <1>2 DEF Coding
  <2>2. /\ i' \in 0 .. Len(msg)' /\ output' = SubSeq(msg, 1, i)' /\ y' = A[i']
        /\ rest' = W[i'] /\ i' % Lanes = 0
    BY <1>1, <1>10, <1>11, <1>13, <1>14, <1>15, <1>16 DEF n
  <2>. QED BY <1>17, <2>1, <2>2 DEF Decoding
<1>19. TypesKnown'
  BY <1>1, <1>2 DEF TypesKnown
<1>. QED BY <1>1, <1>18, <1>19 DEF RansInv, TableFresh, Encoding, Sparing

-----------------------------------------------------------------------------
(* The theorems.                                                           *)

\* A step that changes nothing keeps the invariant.
LEMMA StutterRans == ASSUME RansInv, UNCHANGED vars PROVE RansInv'
<1>1. UNCHANGED <<freq, msg, phase, j, x, before, stream, i, y, rest, output>>
  BY DEF vars
<1>2. TypesKnown' /\ TableFresh' /\ Sparing'
  BY <1>1 DEF RansInv, TypesKnown, TableFresh, Sparing, High, Constant, Covers
<1>3. Encoding'
  <2>. SUFFICES ASSUME phase = "encode" PROVE Encoding'
    BY <1>1 DEF Encoding
  <2>1. PICK A, W : Follows(A, W, j) /\ stream = W[j]
    BY DEF RansInv, Encoding
  <2>2. PICK c : c = j'
    OBVIOUS
  <2>3. c = j
    BY <1>1, <2>2
  <2>4. /\ freq' = freq /\ msg' = msg /\ History(A, W, c) /\ x' = A[c]
        /\ ~Constant =>
               \A h \in c .. Len(msg) - 1 : h \in DOMAIN before' /\ before'[h] = A[h + 1]
    BY <1>1, <2>1, <2>3 DEF Follows
  <2>5. Follows(A, W, j)'
    BY <2>2, <2>4, FollowsNext
  <2>. QED BY <1>1, <2>1, <2>5 DEF RansInv, Encoding, Coding, Constant
<1>4. Decoding'
  <2>. SUFFICES ASSUME phase = "decode" PROVE Decoding'
    BY <1>1 DEF Decoding
  <2>1. PICK A, W : Follows(A, W, 0) /\ y = A[i] /\ rest = W[i]
    BY DEF RansInv, Decoding
  <2>2. Follows(A, W, 0)'
    BY <1>1, <2>1, FollowsKept
  <2>. QED BY <1>1, <2>1, <2>2 DEF RansInv, Decoding, Coding, BlockFits
<1>. QED BY <1>1, <1>2, <1>3, <1>4 DEF RansInv

\* Every step keeps the invariant.
LEMMA NextRans == ASSUME RansInv, [Next]_vars PROVE RansInv'
<1>1. CASE Lower
  BY <1>1, LowerRans
<1>2. CASE Raise
  BY <1>2, RaiseRans
<1>3. CASE StartEncode
  BY <1>3, StartEncodeRans
<1>4. CASE EncodeSymbol
  BY <1>4, EncodeSymbolRans
<1>5. CASE FinishEncode
  BY <1>5, FinishEncodeRans
<1>6. CASE DecodeBlock
  BY <1>6, DecodeBlockRans
<1>7. CASE DecodeSymbol
  BY <1>7, DecodeSymbolRans
<1>8. CASE FinishDecode
  BY <1>8, FinishDecodeRans
<1>9. CASE UNCHANGED vars
  BY <1>9, StutterRans
<1>. QED BY <1>1, <1>2, <1>3, <1>4, <1>5, <1>6, <1>7, <1>8, <1>9 DEF Next

\* In every reachable state the lanes and the words are a history of the message.
THEOREM RansInvariant == Spec => []RansInv
<1>1. Init => RansInv
  BY InitRans
<1>2. RansInv /\ [Next]_vars => RansInv'
  BY NextRans
<1>. QED BY <1>1, <1>2, PTL DEF Spec

\* For every table, message and number of lanes, the decoder of rans.c goes back through
\* the states ransEncodeFrequencies went through, in blocks and symbol by symbol.
THEOREM DecoderAlwaysRetraces == Spec => []DecoderRetraces
<1>1. RansInv => DecoderRetraces
  <2>. SUFFICES ASSUME RansInv, phase = "decode", ~Constant
                PROVE  y = IF i = 0 THEN x ELSE before[i - 1]
    BY DEF DecoderRetraces
  <2>1. PICK A, W : Follows(A, W, 0) /\ y = A[i]
    BY DEF RansInv, Decoding
  <2>2. x = A[0] /\ \A h \in 0 .. Len(msg) - 1 : before[h] = A[h + 1]
    BY <2>1 DEF Follows
  <2>3. i \in 0 .. Len(msg) /\ Len(msg) \in Nat
    BY DecoderFacts
  <2>4. CASE i = 0
    BY <2>1, <2>2, <2>4
  <2>5. CASE i # 0
    <3>1. i - 1 \in 0 .. Len(msg) - 1 /\ (i - 1) + 1 = i
      BY <2>3, <2>5
    <3>. QED BY <2>1, <2>2, <2>5, <3>1
  <2>. QED BY <2>4, <2>5
<1>. QED BY <1>1, RansInvariant, PTL

\* For every table and message, vc_rans_decode_frequencies accepts what the encoder wrote
\* and gives the message back.
THEOREM MessagesComeBack == Spec => []DecodesMessage
<1>1. RansInv => DecodesMessage
  BY DEF RansInv, TypesKnown, DecodesMessage
<1>. QED BY <1>1, RansInvariant, PTL

\* For every table and message, the words and states fit the bytes set aside for them.
THEOREM SpaceAlwaysSuffices == Spec => []SpaceSuffices
<1>1. RansInv => SpaceSuffices
  <2>. SUFFICES ASSUME RansInv, phase = "encode"
                PROVE  4 * (Len(stream) + 1) + 8 * Lanes <= StreamCap
    BY DEF SpaceSuffices
  <2>. DEFINE words == Len(stream)
              high == Cardinality(High(x))
              n == Len(msg)
  <2>1. 2 * words + high <= IF Constant THEN 0 ELSE n - j
    BY DEF RansInv, Sparing
  <2>2. n \in Nat /\ j \in 0 .. n
    BY DEF RansInv, TypesKnown, Encoding
  <2>3. PICK A, W : Follows(A, W, j) /\ stream = W[j]
    BY DEF RansInv, Encoding
  <2>4. stream \in Seq(Nat)
    BY <2>2, <2>3 DEF Follows, History
  <2>5. words \in Nat /\ high \in Nat
    BY <2>4, HighFacts
  <2>6. Lanes \in Nat /\ Lanes >= 1
    BY LanesAssumption
  <2>7. StreamCap = (IF Constant THEN 0 ELSE 2 * n) + 8 * Lanes + 8 * Lanes
    BY DEF StreamCap
  <2>. HIDE DEF words, high, n
  <2>8. CASE Constant
    BY <2>1, <2>5, <2>6, <2>7, <2>8 DEF words
  <2>9. CASE ~Constant
    BY <2>1, <2>2, <2>5, <2>6, <2>7, <2>9 DEF words
  <2>. QED BY <2>8, <2>9
<1>. QED BY <1>1, RansInvariant, PTL
=============================================================================
