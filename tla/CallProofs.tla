----------------------------- MODULE CallProofs -----------------------------
(***************************************************************************)
(* What every call builds on: the table of the wavefront, which lists each *)
(* row once and after the rows it needs, for every volume, group size and  *)
(* slope; and the thread-local variables, which every call gives back as   *)
(* it was given them, whatever the sizes, the order of the calls and the   *)
(* steps that fail.                                                        *)
(***************************************************************************)
EXTENDS Schedule, CallScope, FiniteSetTheorems, SequenceTheorems, TLAPS

-----------------------------------------------------------------------------
(* The table of the wavefront (Schedule).                                  *)

\* The slope as a case split: with it the products dl * z are linear.
LEMMA SlopeCases == TableTypeOK => dl \in Int /\ (dl = 2 \/ dl = 3 \/ dl = 4)
  BY SlopesAssumption DEF TableTypeOK

\* There are as many rows as entries in the arrays.
LEMMA RowsFinite ==
    /\ IsFiniteSet(Rows)
    /\ Cardinality(Rows) = Y * Z
    /\ Y * Z \in Nat
<1>1. /\ IsFiniteSet(0 .. Z-1) /\ Cardinality(0 .. Z-1) = Z
      /\ IsFiniteSet(0 .. Y-1) /\ Cardinality(0 .. Y-1) = Y
  BY FS_Interval, GeometryAssumption
<1>2. /\ IsFiniteSet((0 .. Z-1) \X (0 .. Y-1))
      /\ Cardinality((0 .. Z-1) \X (0 .. Y-1))
            = Cardinality(0 .. Z-1) * Cardinality(0 .. Y-1)
  BY <1>1, FS_Product
<1>3. IsFiniteSet(Rows) /\ Cardinality(Rows) = Z * Y
  BY <1>1, <1>2 DEF Rows
<1>4. Z * Y = Y * Z /\ Y * Z \in Nat
  BY GeometryAssumption
<1>. QED
  BY <1>3, <1>4

\* Some of the rows are at most all of them.
LEMMA PassedBounded ==
    /\ IsFiniteSet(Passed)
    /\ Cardinality(Passed) \in Nat
    /\ Cardinality(Passed) <= Y * Z
  BY RowsFinite, FS_Subset, FS_CardinalityType DEF Passed

-----------------------------------------------------------------------------
(* How the loops' position moves over the rows.                            *)

\* At the end of a step no row of it is left.
LEMMA PassedEndStep ==
    ASSUME TableTypeOK, EndStep
    PROVE  Passed' = Passed
<1>1. SUFFICES ASSUME NEW r \in Rows
               PROVE  (Step(r)' < t' \/ (Step(r)' = t' /\ r[1] < z'))
                      <=> (Step(r) < t \/ (Step(r) = t /\ r[1] < z))
  BY DEF Passed
<1>2. r[1] \in 0 .. Z-1 /\ r[2] \in 0 .. Y-1
  BY DEF Rows
<1>3. dl' = dl /\ t' = t+1 /\ z' = 0 /\ (z = Z \/ t - dl * z < 0)
  BY DEF EndStep, StepEnds, y
<1>4. Step(r)' = Step(r)
  BY <1>3 DEF Step
<1>5. Step(r) = t => r[1] < z
  BY <1>2, <1>3, SlopeCases, GeometryAssumption DEF TableTypeOK, Step
<1>6. Step(r) \in Int /\ t \in Int
  BY <1>2, SlopeCases, GeometryAssumption DEF TableTypeOK, Step, LastStep
<1>. QED
  BY <1>2, <1>3, <1>4, <1>5, <1>6

\* A slice whose row lies past the volume hides no row.
LEMMA PassedSkip ==
    ASSUME TableTypeOK, SkipSlice
    PROVE  Passed' = Passed
<1>1. SUFFICES ASSUME NEW r \in Rows
               PROVE  (Step(r)' < t' \/ (Step(r)' = t' /\ r[1] < z'))
                      <=> (Step(r) < t \/ (Step(r) = t /\ r[1] < z))
  BY DEF Passed
<1>2. r[1] \in 0 .. Z-1 /\ r[2] \in 0 .. Y-1
  BY DEF Rows
<1>3. dl' = dl /\ t' = t /\ z' = z + 1 /\ t - dl * z >= Y
  BY DEF SkipSlice, y
<1>4. Step(r)' = Step(r)
  BY <1>3 DEF Step
<1>5. Step(r) = t => r[1] # z
  BY <1>2, <1>3, SlopeCases, GeometryAssumption DEF TableTypeOK, Step
<1>. QED
  BY <1>2, <1>3, <1>4, <1>5, GeometryAssumption DEF TableTypeOK

\* Placing a row adds exactly that row.
LEMMA PassedPlace ==
    ASSUME TableTypeOK, PlaceRow
    PROVE  /\ <<z, y>> \in Rows
           /\ <<z, y>> \notin Passed
           /\ Passed' = Passed \cup {<<z, y>>}
<1>1. /\ dl' = dl /\ t' = t /\ z' = z + 1
      /\ z # Z /\ ~(y < 0) /\ y < Y /\ y = t - dl * z
  BY DEF PlaceRow, StepEnds, y
<1>2. y \in Int /\ z \in 0 .. Z-1
  BY <1>1, SlopeCases, GeometryAssumption DEF TableTypeOK, LastStep
<1>3. <<z, y>> \in Rows
  BY <1>1, <1>2, GeometryAssumption DEF Rows
<1>4. Step(<<z, y>>) = t
  BY <1>1, <1>2, SlopeCases, GeometryAssumption DEF TableTypeOK, Step, LastStep
<1>5. <<z, y>> \notin Passed
  <2>1. <<z, y>>[1] = z /\ z \in Int /\ t \in Int
    BY SlopeCases, GeometryAssumption DEF TableTypeOK, LastStep
  <2>2. ~(Step(<<z, y>>) < t) /\ ~(<<z, y>>[1] < z)
    BY <2>1, <1>4
  <2>. QED
    BY <2>2 DEF Passed
<1>6. ASSUME NEW r \in Rows
      PROVE  (Step(r)' < t' \/ (Step(r)' = t' /\ r[1] < z'))
             <=> (Step(r) < t \/ (Step(r) = t /\ r[1] < z)) \/ r = <<z, y>>
  <2>1. r[1] \in 0 .. Z-1 /\ r[2] \in 0 .. Y-1 /\ r = <<r[1], r[2]>>
    BY DEF Rows
  <2>2. Step(r)' = Step(r)
    BY <1>1 DEF Step
  <2>3. Step(r) = t /\ r[1] = z => r[2] = y
    BY <2>1, <1>1, <1>2, SlopeCases, GeometryAssumption
       DEF TableTypeOK, Step, LastStep
  <2>4. r = <<z, y>> => Step(r) = t /\ r[1] = z
    BY <1>4
  <2>. QED
    BY <2>1, <2>2, <2>3, <2>4, <1>1, <1>2
<1>. QED
  BY <1>3, <1>5, <1>6 DEF Passed

-----------------------------------------------------------------------------
(* The entries in use.                                                     *)

\* Every entry's coordinates are integers, and the row it names is a pair.
LEMMA EntryTypes ==
    ASSUME TableTypeOK, NEW p \in Used
    PROVE  /\ p[1] \in Groups /\ p[2] \in Lanes /\ p = <<p[1], p[2]>>
           /\ p[1] \in Int /\ p[2] \in Int /\ p[2] >= 0
           /\ n[p[1]] \in Int
<1>1. p[1] \in Groups /\ p[2] \in Lanes /\ p = <<p[1], p[2]>>
  BY DEF Used
<1>2. n[p[1]] \in 0 .. NL
  BY <1>1 DEF TableTypeOK
<1>. QED
  BY <1>1, <1>2, RowsFinite, GeometryAssumption DEF Groups, Lanes

\* Entries come before the position the loops write to.
LEMMA UsedBeforeOpen ==
    ASSUME TableTypeOK, GroupsCounted, NEW p \in Used
    PROVE  p[1] < g \/ (p[1] = g /\ p[2] < k)
<1>1. /\ p[1] \in Groups /\ p[1] \in Int /\ p[2] \in Int /\ p[2] >= 0
  BY EntryTypes
<1>2. p[2] < n[p[1]]
  BY DEF Used
<1>3. (p[1] = g => n[p[1]] = k) /\ (p[1] > g => n[p[1]] = 0)
  BY <1>1 DEF GroupsCounted
<1>4. g \in Int
  BY RowsFinite DEF TableTypeOK
<1>. QED
  BY <1>1, <1>2, <1>3, <1>4

\* There is a group to write the next row to: every group so far has a row, and
\* one row is missing.
LEMMA PlaceInBounds ==
    ASSUME TableTypeOK, GroupsCounted, PlaceRow
    PROVE  /\ g \in Groups /\ k \in Lanes
           /\ Cardinality(Passed') = Cardinality(Passed) + 1
           /\ IsFiniteSet(Passed')
           /\ (g + 1) <= Cardinality(Passed')
<1>1. /\ <<z, y>> \in Rows /\ <<z, y>> \notin Passed
      /\ Passed' = Passed \cup {<<z, y>>}
  BY PassedPlace
<1>2. Passed \cup {<<z, y>>} \in SUBSET Rows
  BY <1>1 DEF Passed
<1>3. /\ IsFiniteSet(Passed \cup {<<z, y>>})
      /\ Cardinality(Passed \cup {<<z, y>>}) = Cardinality(Passed) + 1
  BY <1>1, PassedBounded, FS_AddElement
<1>4. Cardinality(Passed \cup {<<z, y>>}) <= Cardinality(Rows)
  BY <1>2, RowsFinite, FS_Subset
<1>5. Cardinality(Passed) + 1 <= Y * Z
  BY <1>3, <1>4, RowsFinite
<1>6. (IF k > 0 THEN g + 1 ELSE g) <= Cardinality(Passed)
  BY DEF GroupsCounted
<1>7. g \in Int /\ g >= 0 /\ k \in Int
  BY RowsFinite, GeometryAssumption DEF TableTypeOK
<1>8. g <= Cardinality(Passed)
  BY <1>6, <1>7, PassedBounded
<1>9. g \in Groups
  BY <1>5, <1>7, <1>8, PassedBounded, RowsFinite DEF Groups
<1>. QED
  BY <1>1, <1>3, <1>7, <1>8, <1>9, PassedBounded DEF TableTypeOK, Lanes

\* What placing a row does to the table: one entry more, the others as they were.
LEMMA UsedPlace ==
    ASSUME TableTypeOK, GroupsCounted, PlaceRow
    PROVE  /\ Used' = Used \cup {<<g, k>>}
           /\ <<g, k>> \notin Used
           /\ row'[<<g, k>>] = <<z, y>>
           /\ \A p \in Used : row'[p] = row[p]
<1>1. g \in Groups /\ k \in Lanes
  BY PlaceInBounds
<1>2. /\ row' = [row EXCEPT ![<<g, k>>] = <<z, y>>]
      /\ n' = [n EXCEPT ![g] = k + 1]
  BY DEF PlaceRow
<1>3. n[g] = k
  BY <1>1 DEF GroupsCounted
<1>4. <<g, k>> \notin Used
  <2>1. k \in Int /\ <<g, k>>[1] = g /\ <<g, k>>[2] = k
    BY <1>1, GeometryAssumption DEF Lanes
  <2>2. ~(<<g, k>>[2] < n[<<g, k>>[1]])
    BY <2>1, <1>3
  <2>. QED
    BY <2>2 DEF Used
<1>5. row'[<<g, k>>] = <<z, y>>
  BY <1>1, <1>2 DEF TableTypeOK
<1>6. ASSUME NEW p \in Used
      PROVE  row'[p] = row[p]
  <2>1. p \in Groups \X Lanes /\ p # <<g, k>>
    BY <1>4 DEF Used
  <2>. QED
    BY <2>1, <1>2 DEF TableTypeOK
<1>7. ASSUME NEW p \in Groups \X Lanes
      PROVE  p[2] < n'[p[1]] <=> p[2] < n[p[1]] \/ p = <<g, k>>
  <2>1. p[1] \in Groups /\ p[2] \in Lanes /\ p = <<p[1], p[2]>>
    OBVIOUS
  <2>2. p[2] \in Int /\ k \in Int
    BY <2>1, <1>1, GeometryAssumption DEF Lanes
  <2>3. n'[p[1]] = IF p[1] = g THEN k + 1 ELSE n[p[1]]
    BY <2>1, <1>2 DEF TableTypeOK
  <2>4. CASE p[1] = g
    <3>1. p = <<g, k>> <=> p[2] = k
      BY <2>1, <2>4
    <3>. QED
      BY <3>1, <2>2, <2>3, <2>4, <1>3
  <2>5. CASE p[1] # g
    BY <2>1, <2>3, <2>5
  <2>. QED
    BY <2>4, <2>5
<1>8. Used' = Used \cup {<<g, k>>}
  BY <1>1, <1>7 DEF Used, Groups, Lanes
<1>. QED
  BY <1>4, <1>5, <1>6, <1>8

-----------------------------------------------------------------------------
(* The inductive invariant holds initially and is preserved.               *)

\* Before the loops the table is empty.
LEMMA InitIInv == TableInit => TableInv
<1> SUFFICES ASSUME TableInit PROVE TableInv
  OBVIOUS
<1>1. /\ dl \in Slopes /\ t = 0 /\ z = 0 /\ k = 0 /\ g = 0
      /\ row = [p \in Groups \X Lanes |-> NoRow]
      /\ n = [h \in Groups |-> 0]
  BY DEF TableInit
<1>2. dl \in Int /\ (dl = 2 \/ dl = 3 \/ dl = 4)
  BY <1>1, SlopesAssumption
<1>3. TableTypeOK
  BY <1>1, <1>2, GeometryAssumption, RowsFinite DEF TableTypeOK, LastStep
<1>4. Used = {}
  BY <1>1, GeometryAssumption DEF Used, Lanes
<1>5. Passed = {}
  <2>1. ASSUME NEW r \in Rows
        PROVE  ~(Step(r) < t \/ (Step(r) = t /\ r[1] < z))
    <3>1. r[1] \in 0 .. Z-1 /\ r[2] \in 0 .. Y-1
      BY DEF Rows
    <3>. QED
      BY <3>1, <1>1, <1>2, GeometryAssumption DEF Step
  <2>. QED
    BY <2>1 DEF Passed
<1>6. GroupsCounted
  BY <1>1, <1>5, FS_EmptySet DEF GroupsCounted
<1>. QED
  BY <1>3, <1>4, <1>5, <1>6
     DEF TableInv, ListsPassed, Sorted, GroupsAreWaves, OpenGroup

\* Closing the open group moves nothing in the table.
LEMMA EndStepIInv ==
    ASSUME TableInv, EndStep
    PROVE  TableInv'
<1>1. TableTypeOK /\ GroupsCounted /\ ListsPassed /\ Sorted /\ GroupsAreWaves
      /\ OpenGroup
  BY DEF TableInv
<1>2. /\ t <= LastStep /\ t' = t + 1 /\ z' = 0 /\ k' = 0
      /\ g' = IF k > 0 THEN g + 1 ELSE g
      /\ dl' = dl /\ row' = row /\ n' = n
  BY DEF EndStep, Looping
<1>3. Passed' = Passed
  BY <1>1, PassedEndStep
<1>4. Used' = Used
  BY <1>2 DEF Used
<1>5. g \in Int /\ g >= 0 /\ k \in Int /\ k >= 0 /\ k <= NL - 1
  BY <1>1, RowsFinite, GeometryAssumption DEF TableTypeOK
<1>6. (IF k > 0 THEN g + 1 ELSE g) <= Cardinality(Passed)
  BY <1>1 DEF GroupsCounted
<1>7. TableTypeOK'
  <2>1. g' \in 0 .. Y * Z
    BY <1>2, <1>5, <1>6, PassedBounded, RowsFinite
  <2>2. LastStep' = LastStep /\ LastStep \in Int
    BY <1>1, <1>2, SlopeCases, GeometryAssumption DEF LastStep
  <2>3. t' \in 0 .. LastStep' + 1
    BY <1>1, <1>2, <2>2 DEF TableTypeOK
  <2>. QED
    BY <1>1, <1>2, <2>1, <2>3, GeometryAssumption DEF TableTypeOK
<1>8. GroupsCounted'
  <2>1. ASSUME NEW h \in Groups
        PROVE  (h = g' => n'[h] = k') /\ (h > g' => n'[h] = 0)
    <3>1. (h = g => n[h] = k) /\ (h > g => n[h] = 0) /\ h \in Int
      BY <1>1, RowsFinite DEF GroupsCounted, Groups
    <3>. QED
      BY <3>1, <1>2, <1>5
  <2>. QED
    BY <2>1, <1>2, <1>3, <1>6 DEF GroupsCounted
<1>9. ListsPassed'
  BY <1>1, <1>2, <1>3, <1>4 DEF ListsPassed
<1>10. Sorted' /\ GroupsAreWaves'
  BY <1>1, <1>2, <1>4 DEF Sorted, GroupsAreWaves, Earlier, Ahead, Step
<1>11. OpenGroup'
  <2>1. ASSUME NEW p \in Used
        PROVE  p[1] # g'
    <3>1. p[1] < g \/ (p[1] = g /\ p[2] < k)
      BY <1>1, UsedBeforeOpen
    <3>2. p[1] \in Int /\ p[2] \in Int /\ p[2] >= 0
      BY <1>1, EntryTypes
    <3>. QED
      BY <3>1, <3>2, <1>2, <1>5
  <2>. QED
    BY <2>1, <1>4 DEF OpenGroup
<1>. QED
  BY <1>7, <1>8, <1>9, <1>10, <1>11 DEF TableInv

\* A slice is skipped only while the open group is empty: later slices of a step
\* lie at earlier rows, so none past the volume follows one inside it.
LEMMA SkipSliceIInv ==
    ASSUME TableInv, SkipSlice
    PROVE  TableInv'
<1>1. TableTypeOK /\ GroupsCounted /\ ListsPassed /\ Sorted /\ GroupsAreWaves
      /\ OpenGroup
  BY DEF TableInv
<1>2. /\ dl' = dl /\ t' = t /\ z' = z + 1 /\ k' = k /\ g' = g
      /\ row' = row /\ n' = n
      /\ t <= LastStep /\ z # Z /\ t - dl * z >= Y
  BY DEF SkipSlice, Looping, StepEnds, y
<1>3. Passed' = Passed
  BY <1>1, PassedSkip
<1>4. Used' = Used
  BY <1>2 DEF Used
<1>5. TableTypeOK'
  BY <1>1, <1>2, GeometryAssumption DEF TableTypeOK, LastStep
<1>6. GroupsCounted' /\ ListsPassed'
  BY <1>1, <1>2, <1>3, <1>4 DEF GroupsCounted, ListsPassed
<1>7. Sorted' /\ GroupsAreWaves'
  BY <1>1, <1>2, <1>4 DEF Sorted, GroupsAreWaves, Earlier, Ahead, Step
<1>8. OpenGroup'
  <2>1. ASSUME NEW p \in Used, p[1] = g
        PROVE  FALSE
    <3>1. p[1] \in Groups /\ p[2] \in Int /\ p[2] >= 0 /\ n[p[1]] \in Int
      BY <1>1, EntryTypes
    <3>2. g \in Groups /\ n[g] = k /\ p[2] < k
      BY <2>1, <3>1, <1>1 DEF GroupsCounted, Used
    <3>3. k \in Int /\ k >= 1 /\ k <= NL - 1
      BY <3>1, <3>2, <1>1, GeometryAssumption DEF TableTypeOK
    <3>4. <<g, k-1>> \in Used
      <4>1. k - 1 \in Lanes /\ k - 1 < n[g]
        BY <3>2, <3>3, GeometryAssumption DEF Lanes
      <4>. QED
        BY <4>1, <3>2 DEF Used
    <3>5. row[<<g, k-1>>] = <<z - k + (k-1), t - dl * (z - k + (k-1))>>
      BY <3>4, <1>1 DEF OpenGroup
    <3>6. row[<<g, k-1>>] \in Rows
      BY <3>4, <1>1 DEF ListsPassed, Passed
    <3>7. z \in Int /\ t \in Int
      BY <1>1, GeometryAssumption, SlopeCases DEF TableTypeOK, LastStep
    <3>8. z - k + (k-1) = z - 1
      BY <3>3, <3>7
    <3>9. t - dl * (z - 1) \in 0 .. Y-1
      BY <3>5, <3>6, <3>8 DEF Rows
    <3>. QED
      BY <3>7, <3>9, <1>1, <1>2, SlopeCases, GeometryAssumption
  <2>. QED
    BY <2>1, <1>2, <1>4 DEF OpenGroup
<1>. QED
  BY <1>5, <1>6, <1>7, <1>8 DEF TableInv

\* The new row goes to the end of the table, and everything in it stays.
LEMMA PlaceRowIInv ==
    ASSUME TableInv, PlaceRow
    PROVE  TableInv'
<1>1. TableTypeOK /\ GroupsCounted /\ ListsPassed /\ Sorted /\ GroupsAreWaves
      /\ OpenGroup
  BY DEF TableInv
<1>2. /\ dl' = dl /\ t' = t /\ z' = z + 1 /\ z # Z
      /\ row' = [row EXCEPT ![<<g, k>>] = <<z, y>>]
      /\ n' = [n EXCEPT ![g] = k + 1]
      /\ t <= LastStep
  BY DEF PlaceRow, StepEnds, Looping
<1>3. IF k + 1 = NL THEN g' = g + 1 /\ k' = 0 ELSE g' = g /\ k' = k + 1
  BY DEF PlaceRow
<1>4. /\ <<z, y>> \in Rows /\ <<z, y>> \notin Passed
      /\ Passed' = Passed \cup {<<z, y>>}
  BY <1>1, PassedPlace
<1>5. /\ g \in Groups /\ k \in Lanes /\ IsFiniteSet(Passed')
      /\ (g + 1) <= Cardinality(Passed')
  BY <1>1, PlaceInBounds
<1>6. /\ Used' = Used \cup {<<g, k>>} /\ <<g, k>> \notin Used
      /\ row'[<<g, k>>] = <<z, y>>
      /\ \A p \in Used : row'[p] = row[p]
  BY <1>1, UsedPlace
<1>7. /\ g \in Int /\ g >= 0 /\ k \in Int /\ k >= 0 /\ k <= NL - 1 /\ NL \in Int
      /\ z \in Int /\ t \in Int /\ Z \in Int /\ z >= 0 /\ z < Z
  BY <1>1, <1>2, <1>5, RowsFinite, GeometryAssumption, SlopeCases
     DEF TableTypeOK, Groups, Lanes, LastStep
<1>8. dl \in Int /\ (dl = 2 \/ dl = 3 \/ dl = 4)
  BY <1>1, SlopeCases
<1>9. y = t - dl * z
  BY DEF y
<1>10. \A p \in Used : p[1] < g \/ (p[1] = g /\ p[2] < k)
  BY <1>1, UsedBeforeOpen
<1>11. \A p \in Used : p[1] \in Int /\ p[2] \in Int /\ p[2] >= 0
  BY <1>1, EntryTypes
<1>12. TableTypeOK'
  <2>1. LastStep' = LastStep
    BY <1>2 DEF LastStep
  <2>2. g' \in 0 .. Y * Z /\ k' \in 0 .. NL - 1
    BY <1>3, <1>5, <1>7, RowsFinite DEF Groups
  <2>3. row' \in [Groups \X Lanes -> Rows \cup {NoRow}]
    BY <1>1, <1>2, <1>4, <1>5 DEF TableTypeOK
  <2>4. n' \in [Groups -> 0 .. NL]
    BY <1>1, <1>2, <1>5, <1>7 DEF TableTypeOK
  <2>5. t' \in 0 .. LastStep' + 1 /\ z' \in 0 .. Z
    BY <1>1, <1>2, <1>7, <2>1 DEF TableTypeOK
  <2>6. dl' \in Slopes
    BY <1>1, <1>2 DEF TableTypeOK
  <2>. QED
    BY <2>2, <2>3, <2>4, <2>5, <2>6 DEF TableTypeOK
<1>13. GroupsCounted'
  <2>1. ASSUME NEW h \in Groups
        PROVE  (h = g' => n'[h] = k') /\ (h > g' => n'[h] = 0)
    <3>1. (h = g => n[h] = k) /\ (h > g => n[h] = 0) /\ h \in Int
      BY <1>1, RowsFinite DEF GroupsCounted, Groups
    <3>2. n'[h] = IF h = g THEN k + 1 ELSE n[h]
      BY <1>1, <1>2 DEF TableTypeOK
    <3>. QED
      BY <3>1, <3>2, <1>3, <1>7
  <2>2. (IF k' > 0 THEN g' + 1 ELSE g') <= Cardinality(Passed')
    BY <1>3, <1>5, <1>7
  <2>. QED
    BY <2>1, <2>2 DEF GroupsCounted
<1>14. ListsPassed'
  <2>1. ASSUME NEW p \in Used' PROVE row'[p] \in Passed'
    BY <1>1, <1>4, <1>6 DEF ListsPassed
  <2>2. ASSUME NEW r \in Passed' PROVE \E p \in Used' : row'[p] = r
    <3>1. CASE r = <<z, y>>
      BY <3>1, <1>6
    <3>2. CASE r \in Passed
      <4>1. PICK p \in Used : row[p] = r
        BY <3>2, <1>1 DEF ListsPassed
      <4>. QED
        BY <4>1, <1>6
    <3>. QED
      BY <3>1, <3>2, <1>4
  <2>. QED
    BY <2>1, <2>2 DEF ListsPassed
<1>15. Sorted'
  <2>1. ASSUME NEW p \in Used', NEW q \in Used', Earlier(p, q)
        PROVE  Ahead(row[p], row[q])'
    <3>1. CASE p \in Used /\ q \in Used
      <4>1. Ahead(row[p], row[q])
        BY <3>1, <2>1, <1>1 DEF Sorted
      <4>. QED
        BY <4>1, <3>1, <1>2, <1>6 DEF Ahead, Step
    <3>2. CASE p \in Used /\ q = <<g, k>>
      <4>1. row[p] \in Passed
        BY <3>2, <1>1 DEF ListsPassed
      <4>2. Step(row[p]) < t \/ (Step(row[p]) = t /\ row[p][1] < z)
        BY <4>1 DEF Passed
      <4>3. <<z, y>>[1] = z /\ <<z, y>>[2] = y /\ y + dl * z = t
        BY <1>7, <1>8, <1>9
      <4>4. Step(<<z, y>>) = t
        BY <4>3 DEF Step
      <4>5. Ahead(row[p], <<z, y>>)
        BY <4>2, <4>3, <4>4 DEF Ahead
      <4>. QED
        BY <4>5, <3>2, <1>2, <1>6 DEF Ahead, Step
    <3>3. CASE p = <<g, k>> /\ q \in Used
      BY <3>3, <2>1, <1>7, <1>10, <1>11 DEF Earlier
    <3>4. CASE p = <<g, k>> /\ q = <<g, k>>
      BY <3>4, <2>1, <1>7 DEF Earlier
    <3>. QED
      BY <3>1, <3>2, <3>3, <3>4, <1>6
  <2>. QED
    BY <2>1 DEF Sorted, Earlier
<1>16. GroupsAreWaves'
  <2>1. ASSUME NEW p \in Used'
        PROVE  row'[p] = <<row'[<<p[1], 0>>][1] + p[2],
                           row'[<<p[1], 0>>][2] - dl * p[2]>>
    <3>1. CASE p \in Used
      <4>1. <<p[1], 0>> \in Used
        <5>1. /\ p[1] \in Groups /\ n[p[1]] \in Int
              /\ p[2] \in Int /\ p[2] >= 0
          BY <3>1, <1>1, EntryTypes
        <5>2. p[2] < n[p[1]]
          BY <3>1 DEF Used
        <5>3. 0 \in Lanes /\ 0 < n[p[1]]
          BY <5>1, <5>2, GeometryAssumption DEF Lanes
        <5>. QED
          BY <5>1, <5>3 DEF Used
      <4>. QED
        BY <4>1, <3>1, <1>1, <1>6 DEF GroupsAreWaves
    <3>2. CASE p = <<g, k>> /\ k = 0
      <4>1. row'[<<p[1], 0>>] = <<z, y>> /\ p[2] = 0
        BY <3>2, <1>6
      <4>2. z + 0 = z /\ y - dl * 0 = y
        BY <1>7, <1>8, <1>9
      <4>. QED
        BY <4>1, <4>2, <3>2, <1>6
    <3>3. CASE p = <<g, k>> /\ k > 0
      <4>1. <<g, 0>> \in Used
        <5>1. n[g] = k
          BY <1>1, <1>5 DEF GroupsCounted
        <5>2. 0 \in Lanes /\ 0 < n[g]
          BY <5>1, <3>3, <1>7 DEF Lanes
        <5>. QED
          BY <5>2, <1>5 DEF Used
      <4>2. row[<<g, 0>>] = <<z - k + 0, t - dl * (z - k + 0)>>
        BY <4>1, <1>1 DEF OpenGroup
      <4>3. row'[<<p[1], 0>>] = <<z - k + 0, t - dl * (z - k + 0)>>
            /\ p[2] = k
        BY <4>1, <4>2, <3>3, <1>6
      <4>4. z - k + 0 + k = z /\ t - dl * (z - k + 0) - dl * k = y
        BY <1>7, <1>8, <1>9
      <4>. QED
        BY <4>3, <4>4, <3>3, <1>6
    <3>. QED
      BY <3>1, <3>2, <3>3, <1>6, <1>7
  <2>. QED
    BY <2>1, <1>2 DEF GroupsAreWaves
<1>17. OpenGroup'
  <2>1. ASSUME NEW p \in Used', p[1] = g'
        PROVE  row'[p] = <<z' - k' + p[2], t - dl * (z' - k' + p[2])>>
    <3>1. g' = g /\ k' = k + 1
      <4>1. p[1] <= g /\ p[1] \in Int
        BY <1>6, <1>7, <1>10, <1>11
      <4>. QED
        BY <4>1, <2>1, <1>3, <1>7
    <3>2. z' - k' = z - k
      BY <3>1, <1>2, <1>7
    <3>3. CASE p \in Used
      BY <3>1, <3>2, <3>3, <2>1, <1>1, <1>6 DEF OpenGroup
    <3>4. CASE p = <<g, k>>
      <4>1. p[2] = k /\ z - k + k = z
        BY <3>4, <1>7
      <4>. QED
        BY <4>1, <3>2, <3>4, <1>6, <1>9
    <3>. QED
      BY <3>3, <3>4, <1>6
  <2>. QED
    BY <2>1, <1>2 DEF OpenGroup
<1>. QED
  BY <1>12, <1>13, <1>14, <1>15, <1>16, <1>17 DEF TableInv

\* A step that changes nothing keeps everything.
LEMMA StutterIInv ==
    ASSUME TableInv, UNCHANGED tableVars
    PROVE  TableInv'
  BY DEF TableInv, tableVars, TableTypeOK, GroupsCounted, ListsPassed, Sorted, GroupsAreWaves,
         OpenGroup, Used, Passed, Step, LastStep, Ahead, Earlier

\* The inductive invariant holds in every reachable state.
THEOREM TableInductive == TableSpec => []TableInv
<1>1. TableInit => TableInv
  BY InitIInv
<1>2. TableInv /\ [TableNext]_tableVars => TableInv'
  BY EndStepIInv, SkipSliceIInv, PlaceRowIInv, StutterIInv DEF TableNext
<1>. QED
  BY <1>1, <1>2, PTL DEF TableSpec

-----------------------------------------------------------------------------
(* What the invariant says of the table.                                   *)

\* Entries hold rows of the volume.
LEMMA UsedRows ==
    ASSUME TableInv, NEW p \in Used
    PROVE  /\ row[p] \in Passed /\ row[p] \in Rows
           /\ row[p][1] \in 0 .. Z-1 /\ row[p][2] \in 0 .. Y-1
           /\ Step(row[p]) \in Int
<1>1. row[p] \in Passed /\ row[p] \in Rows
  BY DEF TableInv, ListsPassed, Passed
<1>2. row[p][1] \in 0 .. Z-1 /\ row[p][2] \in 0 .. Y-1
  BY <1>1 DEF Rows
<1>3. dl \in Int
  BY SlopeCases DEF TableInv
<1>. QED
  BY <1>1, <1>2, <1>3, GeometryAssumption DEF Step

\* The table is sorted, so two entries never hold the same row.
LEMMA OnceInv == TableInv => EveryRowOnce
<1> SUFFICES ASSUME TableInv PROVE EveryRowOnce
  OBVIOUS
<1>1. ASSUME NEW p \in Used, NEW q \in Used, row[p] = row[q], p # q
      PROVE  FALSE
  <2>1. /\ p = <<p[1], p[2]>> /\ q = <<q[1], q[2]>>
        /\ p[1] \in Int /\ p[2] \in Int /\ q[1] \in Int /\ q[2] \in Int
    BY EntryTypes DEF TableInv
  <2>2. Earlier(p, q) \/ Earlier(q, p)
    BY <1>1, <2>1 DEF Earlier
  <2>3. Ahead(row[p], row[p])
    BY <1>1, <2>2 DEF TableInv, Sorted
  <2>. QED
    BY <2>3, UsedRows DEF Ahead
<1>. QED
  BY <1>1 DEF TableInv, ListsPassed, EveryRowOnce

\* The invariant leaves room for the row about to be written.
LEMMA BoundsInv == TableInv => WritesInBounds
<1> SUFFICES ASSUME TableInv, Looping, ~StepEnds, y < Y
             PROVE  g \in Groups /\ k \in Lanes
  BY DEF WritesInBounds
<1>1. TableTypeOK /\ GroupsCounted
  BY DEF TableInv
<1>2. z \in 0 .. Z-1 /\ y \in 0 .. Y-1 /\ y = t - dl * z /\ t \in Int
      /\ z \in Int
  BY <1>1, SlopeCases, GeometryAssumption DEF TableTypeOK, LastStep, StepEnds, y
<1>3. <<z, y>> \in Rows \ Passed
  <2>1. Step(<<z, y>>) = t /\ <<z, y>>[1] = z
    BY <1>1, <1>2, SlopeCases, GeometryAssumption DEF Step
  <2>2. ~(Step(<<z, y>>) < t) /\ ~(<<z, y>>[1] < z)
    BY <2>1, <1>2
  <2>. QED
    BY <2>2, <1>2 DEF Passed, Rows
<1>4. Cardinality(Passed) # Cardinality(Rows)
  <2>1. Passed \in SUBSET Rows /\ Passed # Rows
    BY <1>3 DEF Passed
  <2>. QED
    BY <2>1, RowsFinite, FS_Subset
<1>5. (IF k > 0 THEN g + 1 ELSE g) <= Cardinality(Passed)
  BY <1>1 DEF GroupsCounted
<1>6. g \in Int /\ g >= 0 /\ k \in 0 .. NL-1
  BY <1>1, RowsFinite DEF TableTypeOK
<1>7. g <= Cardinality(Passed)
  BY <1>5, <1>6, PassedBounded, GeometryAssumption
<1>. QED
  BY <1>4, <1>6, <1>7, PassedBounded, RowsFinite DEF Groups, Lanes

\* Rows of one group are at the same step.
LEMMA GroupOfOneStep ==
    ASSUME TableInv, NEW p \in Used, NEW q \in Used, p[1] = q[1]
    PROVE  Step(row[p]) = Step(row[q])
<1>1. ASSUME NEW s \in Used
      PROVE  Step(row[s]) = Step(row[<<s[1], 0>>])
  <2>1. /\ s[1] \in Groups /\ s[2] \in Int /\ s[2] >= 0 /\ n[s[1]] \in Int
        /\ s[2] < n[s[1]]
    BY EntryTypes DEF TableInv, Used
  <2>2. <<s[1], 0>> \in Used
    BY <2>1, GeometryAssumption DEF Used, Lanes
  <2>3. /\ row[<<s[1], 0>>][1] \in Int /\ row[<<s[1], 0>>][2] \in Int
    BY <2>2, UsedRows, GeometryAssumption
  <2>4. /\ row[s][1] = row[<<s[1], 0>>][1] + s[2]
        /\ row[s][2] = row[<<s[1], 0>>][2] - dl * s[2]
    BY DEF TableInv, GroupsAreWaves
  <2>5. dl \in Int /\ (dl = 2 \/ dl = 3 \/ dl = 4)
    BY SlopeCases DEF TableInv
  <2>. QED
    BY <2>1, <2>3, <2>4, <2>5 DEF Step
<1>. QED
  BY <1>1

\* What a row needs lies at an earlier step.
LEMMA NeedsAtEarlierSteps ==
    ASSUME TableTypeOK, NEW r \in Rows, NEW s \in Needs(r)
    PROVE  s \in Rows /\ Step(s) \in Int /\ Step(s) < Step(r)
<1>1. r[1] \in 0 .. Z-1 /\ r[2] \in 0 .. Y-1
  BY DEF Rows
<1>2. dl \in Int /\ (dl = 2 \/ dl = 3 \/ dl = 4)
  BY SlopeCases
<1>3. CASE \E q \in {r[2]-3, r[2]-2, r[2]-1} \cap (0 .. Y-1) : s = <<r[1], q>>
  <2>1. PICK q \in 0 .. Y-1 : s = <<r[1], q>> /\ q < r[2]
    BY <1>1, <1>3
  <2>2. s[1] = r[1] /\ s[2] = q
    BY <2>1
  <2>3. s \in Rows
    BY <1>1, <2>1 DEF Rows
  <2>. QED
    BY <1>1, <1>2, <2>1, <2>2, <2>3, GeometryAssumption DEF Step
<1>4. CASE \E w \in {r[1]-2, r[1]-1} \cap (0 .. Z-1), v \in 1-dl .. dl-1 :
              s = <<w, Clamp(r[2] + v)>>
  <2>1. PICK w \in {r[1]-2, r[1]-1} \cap (0 .. Z-1), v \in 1-dl .. dl-1 :
              s = <<w, Clamp(r[2] + v)>>
    BY <1>4
  <2>2. w \in 0 .. Z-1 /\ w <= r[1] - 1 /\ v \in Int /\ v <= dl - 1
    BY <1>1, <1>2, <2>1
  <2>3. Clamp(r[2] + v) \in 0 .. Y-1 /\ Clamp(r[2] + v) <= r[2] + dl - 1
    BY <1>1, <1>2, <2>2, GeometryAssumption DEF Clamp
  <2>4. s[1] = w /\ s[2] = Clamp(r[2] + v) /\ s \in Rows
    BY <2>1, <2>2, <2>3 DEF Rows
  <2>. QED
    BY <1>1, <1>2, <2>2, <2>3, <2>4, GeometryAssumption DEF Step
<1>. QED
  BY <1>3, <1>4 DEF Needs

\* Under the invariant a row needed stands in an earlier group.
LEMMA NeedsInv == TableInv => NeedsComeFirst
<1> SUFFICES ASSUME TableInv, NEW q \in Used, NEW r \in Needs(row[q])
             PROVE  \E p \in Used : row[p] = r /\ p[1] < q[1]
  BY DEF NeedsComeFirst
<1>1. row[q] \in Passed /\ row[q] \in Rows /\ Step(row[q]) \in Int
      /\ row[q][1] \in 0 .. Z-1
  BY UsedRows
<1>2. r \in Rows /\ Step(r) \in Int /\ Step(r) < Step(row[q])
  BY <1>1, NeedsAtEarlierSteps DEF TableInv
<1>3. t \in Int
  BY SlopeCases, GeometryAssumption DEF TableInv, TableTypeOK, LastStep
<1>4. r \in Passed
  BY <1>1, <1>2, <1>3 DEF Passed
<1>5. PICK p \in Used : row[p] = r
  BY <1>4 DEF TableInv, ListsPassed
<1>6. p[1] \in Int /\ q[1] \in Int
  BY EntryTypes DEF TableInv
<1>7. p[1] # q[1]
  BY <1>1, <1>2, <1>5, GroupOfOneStep
<1>8. ~(q[1] < p[1])
  <2>1. SUFFICES ASSUME q[1] < p[1] PROVE FALSE
    OBVIOUS
  <2>2. Ahead(row[q], row[p])
    BY <2>1 DEF Earlier, TableInv, Sorted
  <2>. QED
    BY <2>2, <1>1, <1>2, <1>5 DEF Ahead
<1>. QED
  BY <1>5, <1>6, <1>7, <1>8

\* Once the loops have ended, every row has been passed.
LEMMA EndInv == TableInv => WholeVolumeAtEnd
<1> SUFFICES ASSUME TableInv, ~(t <= LastStep) PROVE {row[p] : p \in Used} = Rows
  BY DEF WholeVolumeAtEnd, Looping
<1>1. ASSUME NEW r \in Rows PROVE Step(r) < t
  <2>1. r[1] \in 0 .. Z-1 /\ r[2] \in 0 .. Y-1
    BY DEF Rows
  <2>2. t \in Int /\ t > Y - 1 + dl * (Z - 1)
    BY SlopeCases, GeometryAssumption DEF TableInv, TableTypeOK, LastStep
  <2>3. dl \in Int /\ (dl = 2 \/ dl = 3 \/ dl = 4)
    BY SlopeCases DEF TableInv
  <2>. QED
    BY <2>1, <2>2, <2>3, GeometryAssumption DEF Step
<1>2. Passed = Rows
  BY <1>1 DEF Passed
<1>. QED
  BY <1>2 DEF TableInv, ListsPassed

-----------------------------------------------------------------------------
(* The theorems.                                                           *)

\* The variables of vcn_lc_mksched keep their ranges: the group index stays at
\* most the number of rows although groups may end unfilled.
THEOREM TableTypeCorrect == TableSpec => []TableTypeOK
<1>1. TableInv => TableTypeOK
  BY DEF TableInv
<1>. QED
  BY <1>1, TableInductive, PTL

\* vcn_lc_mksched never writes past the arrays it allocates.
THEOREM BoundsCorrect == TableSpec => []WritesInBounds
  BY BoundsInv, TableInductive, PTL

\* The table holds every row passed exactly once.
THEOREM OnceCorrect == TableSpec => []EveryRowOnce
  BY OnceInv, TableInductive, PTL

\* A group is one wave: consecutive slices at one step.
THEOREM WavesCorrect == TableSpec => []GroupsAreWaves
<1>1. TableInv => GroupsAreWaves
  BY DEF TableInv
<1>. QED
  BY <1>1, TableInductive, PTL

\* Groups can be rebuilt in the table's order: the rows a group depends on are
\* all in groups before it.
THEOREM NeedsCorrect == TableSpec => []NeedsComeFirst
  BY NeedsInv, TableInductive, PTL

\* If the loops end, the table lists the volume.
THEOREM EndCorrect == TableSpec => []WholeVolumeAtEnd
  BY EndInv, TableInductive, PTL

-----------------------------------------------------------------------------
(* The thread-local variables (CallScope).                                 *)

\* Where the decoder can be, and where the fast policy cannot.
DecoderAlone ==
    /\ policy = "decode" => pc \in {"idle", "header", "reconstruct", "done"}
    /\ pc \in {"header", "reconstruct"} => policy = "decode"
FastNotNested == pc \in {"screened", "abandoned"} => policy # "fast"

\* The outermost entry is what the caller had, the next one differs from it in
\* nothing but the intercept.
CallersFirst ==
    /\ Len(saved) >= 1 => saved[1] = outer
    /\ Len(saved) >= 2 => saved[2].geometry = outer.geometry /\ saved[2].edge = outer.edge

\* What is not yet changed, or has been put back.
Untouched ==
    /\ pc = "idle" => scope = outer
    /\ pc \in {"enter", "return"} => scope.geometry = outer.geometry /\ scope.edge = outer.edge
    /\ policy = "decode" => scope.intercept = outer.intercept

\* A menu is left to be tried until the last one is encoded.
Trying ==
    pc \in {"scan", "screen", "rank", "trial", "screened", "full", "refit", "symbols",
            "select", "plan", "encode"} => plans >= 1

IInv == TypeOK /\ DecoderAlone /\ FastNotNested /\ CallersFirst /\ Untouched /\ Trying

-----------------------------------------------------------------------------
(* Scopes and their stack. *)

\* Setting geometry and edge leaves the intercept alone.
LEMMA PutTyped ==
    ASSUME scope \in Inside, NEW a \in Dims \cup {Sample}, NEW e \in Edges \cup {4}
    PROVE  /\ Put(a, e) \in Inside
           /\ Put(a, e).geometry = a /\ Put(a, e).edge = e
           /\ Put(a, e).intercept = scope.intercept
BY DEF Put, Inside

\* So does setting the intercept, the other way round.
LEMMA InterceptTyped ==
    ASSUME scope \in Inside, NEW w \in {0, 100}
    PROVE  /\ [scope EXCEPT !.intercept = w] \in Inside
           /\ [scope EXCEPT !.intercept = w].geometry = scope.geometry
           /\ [scope EXCEPT !.intercept = w].edge = scope.edge
           /\ [scope EXCEPT !.intercept = w].intercept = w
BY DEF Inside

\* What the entries on the stack may hold, field by field.
LEMMA Fields ==
    /\ Scopes \subseteq Inside
    /\ \A c \in Inside : /\ c.geometry \in Dims \cup {Sample}
                         /\ c.edge \in Edges \cup {4}
                         /\ c.intercept \in {0, 100}
    /\ \A b, c \in Inside :
          b.geometry = c.geometry /\ b.edge = c.edge /\ b.intercept = c.intercept => b = c
BY DEF Inside, Scopes

\* A call adds an entry.
LEMMA Entered ==
    ASSUME saved \in Seq(Inside), scope \in Inside
    PROVE  /\ Append(saved, scope) \in Seq(Inside)
           /\ Len(Append(saved, scope)) = Len(saved) + 1
           /\ \A j \in 1 .. Len(saved) : Append(saved, scope)[j] = saved[j]
           /\ Append(saved, scope)[Len(saved) + 1] = scope
BY AppendProperties

\* And takes it back.
LEMMA Left ==
    ASSUME saved \in Seq(Inside), Len(saved) >= 1
    PROVE  /\ SavedLeft \in Seq(Inside) /\ Len(SavedLeft) = Len(saved) - 1
           /\ \A j \in 1 .. Len(saved) - 1 : SavedLeft[j] = saved[j]
           /\ saved[Len(saved)] \in Inside
<1>1. Len(saved) \in Nat /\ \A j \in 1 .. Len(saved) : saved[j] \in Inside
  BY ElementOfSeq, LenProperties
<1>2. Len(saved) - 1 \in Int /\ \A j \in 1 .. Len(saved) - 1 : saved[j] \in Inside
  BY <1>1
<1>3. /\ SubSeq(saved, 1, Len(saved) - 1) \in Seq(Inside)
      /\ Len(SubSeq(saved, 1, Len(saved) - 1)) =
            IF 1 <= Len(saved) - 1 THEN Len(saved) - 1 - 1 + 1 ELSE 0
      /\ \A j \in 1 .. Len(saved) - 1 - 1 + 1 :
            SubSeq(saved, 1, Len(saved) - 1)[j] = saved[1 + j - 1]
  BY <1>2, SubSeqProperties
<1>4. \A j \in 1 .. Len(saved) - 1 : SubSeq(saved, 1, Len(saved) - 1)[j] = saved[j]
  <2>1. TAKE j \in 1 .. Len(saved) - 1
  <2>2. j \in 1 .. Len(saved) - 1 - 1 + 1 /\ 1 + j - 1 = j
    BY <1>1
  <2>. QED
    BY <1>3, <2>2
<1>5. Len(SubSeq(saved, 1, Len(saved) - 1)) = Len(saved) - 1
  <2>1. CASE Len(saved) = 1
    BY <1>3, <2>1
  <2>2. CASE Len(saved) > 1
    BY <1>1, <1>3, <2>2
  <2>3. Len(saved) = 1 \/ Len(saved) > 1
    BY <1>1
  <2>. QED
    BY <2>1, <2>2, <2>3
<1>. QED
  BY <1>1, <1>3, <1>4, <1>5 DEF SavedLeft

\* What a fit leaves in its buffers is typed.
LEMMA FittedTyped ==
    ASSUME data \in [Buffers -> Shapes], NEW s \in Shapes, NEW activity
    PROVE  Fitted(s, activity) \in [Buffers -> Shapes]
BY DEF Fitted, Shapes

-----------------------------------------------------------------------------
\* The calls begin with the variables of the caller.
LEMMA Beginning == Init => IInv
<1> SUFFICES ASSUME Init PROVE IInv
  OBVIOUS
<1>1. data \in [Buffers -> Shapes]
  BY DEF Init, NoBuffers, Shapes
<1>2. saved \in Seq(Inside) /\ Len(saved) = 0
  BY DEF Init
<1>3. TypeOK
  <2>1. Depth = 0
    BY DEF Init, Depth, InScreen
  <2>2. scope \in Inside /\ outer \in Scopes
    BY Fields DEF Init
  <2>3. /\ policy \in Policies \cup {"decode"} /\ d \in Dims /\ zeros \in {"none", "some"}
        /\ plans \in 0 .. 3
    BY DEF Init, Policies
  <2>4. masked \in BOOLEAN /\ learned \in BOOLEAN
    BY DEF Init
  <2>. QED
    BY <1>1, <1>2, <2>1, <2>2, <2>3, <2>4 DEF TypeOK
<1>. QED
  BY <1>2, <1>3 DEF Init, IInv, DecoderAlone, FastNotNested, CallersFirst, Untouched, Trying

\* No step, failing ones included, loses track of what has to be put back.
LEMMA Invariance == IInv /\ [Next]_vars => IInv'
<1> SUFFICES ASSUME IInv, [Next]_vars PROVE IInv'
  OBVIOUS
<1> USE DEF IInv, TypeOK, DecoderAlone, FastNotNested, CallersFirst, Untouched, Trying, Policies
<1>1. ASSUME NEW p \in Policies, Preset(p) PROVE IInv'
  <2>1. scope \in Inside /\ scope = outer
    BY <1>1 DEF Preset
  <2>2. /\ scope' \in Inside
        /\ scope'.geometry = outer.geometry /\ scope'.edge = outer.edge
    BY <1>1, <2>1, InterceptTyped DEF Preset
  <2>3. saved' \in Seq(Inside) /\ Len(saved') = 1 /\ saved'[1] = outer
    BY <1>1, <2>1 DEF Preset
  <2>. QED
    BY <1>1, <2>2, <2>3 DEF Preset, Depth, InScreen
<1>2. CASE Enter
  <2>1. Len(saved) = 1
    BY <1>2 DEF Enter, Depth, InScreen
  <2>2. saved' \in Seq(Inside) /\ Len(saved') = 2 /\ saved'[1] = outer /\ saved'[2] = scope
    BY <1>2, <2>1, Entered DEF Enter
  <2>3. scope' = Put(d, 4)
    BY <1>2 DEF Enter, Put
  <2>4. scope' \in Inside
    BY <2>3, PutTyped
  <2>5. data' \in [Buffers -> Shapes]
    BY <1>2 DEF Enter, NoBuffers, Shapes
  <2>6. plans' \in 1 .. 3
    BY <1>2 DEF Enter
  <2>7. policy' = policy /\ policy \in Policies /\ pc' = "scan" /\ outer' = outer
    BY <1>2 DEF Enter
  <2>8. Depth' = 2
    BY <2>7 DEF Depth, InScreen
  <2>9. masked' \in BOOLEAN /\ learned' \in BOOLEAN
    BY <1>2 DEF Enter
  <2>. QED
    <3>1. TypeOK'
      BY <1>2, <2>2, <2>4, <2>5, <2>6, <2>7, <2>8, <2>9 DEF Enter
    <3>2. DecoderAlone' /\ FastNotNested' /\ Untouched' /\ Trying'
      BY <2>6, <2>7
    <3>3. CallersFirst'
      BY <1>2, <2>2, <2>7 DEF Enter
    <3>. QED
      BY <3>1, <3>2, <3>3
<1>3. CASE Scan
  <2>1. CASE pc' = "write"
    BY <1>3, <2>1 DEF Scan, Depth, InScreen
  <2>2. CASE pc' = "screen"
    <3>1. zeros' \in {"none", "some"} /\ masked' \in BOOLEAN
      BY <1>3, <2>2 DEF Scan
    <3>. QED
      BY <1>3, <2>2, <3>1 DEF Scan, Depth, InScreen
  <2>. QED
    BY <1>3, <2>1, <2>2 DEF Scan
<1>4. CASE Write
  BY <1>4 DEF Write, Depth, InScreen
<1>5. CASE Leave
  <2>1. Len(saved) = IF policy = "decode" THEN 1 ELSE 2
    BY <1>5 DEF Leave, Depth, InScreen
  <2>2. /\ saved' \in Seq(Inside) /\ Len(saved') = Len(saved) - 1
        /\ Len(saved') >= 1 => saved'[1] = outer
        /\ saved[Len(saved)] \in Inside
    BY <1>5, <2>1, Left DEF Leave
  <2>3. /\ scope' \in Inside /\ scope'.intercept = scope.intercept
        /\ scope'.geometry = outer.geometry /\ scope'.edge = outer.edge
    <3>1. /\ saved[Len(saved)].geometry = outer.geometry /\ saved[Len(saved)].edge = outer.edge
      BY <2>1
    <3>2. outer.geometry \in Dims \cup {Sample} /\ outer.edge \in Edges \cup {4}
      BY Fields
    <3>3. scope' = Put(outer.geometry, outer.edge)
      BY <1>5, <3>1 DEF Leave, Back
    <3>. QED
      BY <3>2, <3>3, PutTyped
  <2>4. policy = "decode" => scope' = outer
    BY <2>3, Fields
  <2>. QED
    BY <1>5, <2>1, <2>2, <2>3, <2>4 DEF Leave, Depth, InScreen
<1>6. CASE Return
  <2>1. Len(saved) = 1 /\ saved[1] = outer
    BY <1>6 DEF Return, Depth, InScreen
  <2>2. outer \in Inside
    BY Fields
  <2>3. /\ scope' \in Inside /\ scope'.intercept = outer.intercept
        /\ scope'.geometry = outer.geometry /\ scope'.edge = outer.edge
    BY <1>6, <2>1, <2>2, Fields, InterceptTyped DEF Return
  <2>4. scope' = outer
    BY <2>2, <2>3, Fields
  <2>5. saved' \in Seq(Inside) /\ Len(saved') = 0
    BY <1>6 DEF Return
  <2>. QED
    BY <1>6, <2>3, <2>4, <2>5 DEF Return, Depth, InScreen
<1>7. CASE Screen
  <2>1. Len(saved) = 2
    BY <1>7 DEF Screen, Depth, InScreen
  <2>2. /\ saved' \in Seq(Inside) /\ Len(saved') = IF policy = "fast" THEN 2 ELSE 3
        /\ saved'[1] = saved[1] /\ saved'[2] = saved[2]
    BY <1>7, <2>1, Entered DEF Screen
  <2>3. scope' \in Inside /\ scope'.intercept = scope.intercept
    BY <1>7, Fields, PutTyped, ZenonT(30) DEF Screen
  <2>4. data' \in [Buffers -> Shapes]
    BY <1>7 DEF Screen, Shapes
  <2>. QED
    BY <1>7, <2>1, <2>2, <2>3, <2>4 DEF Screen, Depth, InScreen
<1>8. CASE Rank
  BY <1>8 DEF Rank, Depth, InScreen
<1>9. CASE Trial
  <2>1. data' \in [Buffers -> Shapes]
    BY <1>9, Fields, FittedTyped DEF Trial, Shapes
  <2>. QED
    BY <1>9, <2>1 DEF Trial, Depth, InScreen
<1>10. CASE EndScreen
  <2>1. Len(saved) = 3
    BY <1>10 DEF EndScreen, Depth, InScreen
  <2>2. /\ saved' \in Seq(Inside) /\ Len(saved') = 2
        /\ saved'[1] = saved[1] /\ saved'[2] = saved[2]
        /\ saved[Len(saved)] \in Inside
    BY <1>10, <2>1, Left DEF EndScreen
  <2>3. scope' \in Inside /\ scope'.intercept = scope.intercept
    BY <1>10, <2>2, Fields, PutTyped, ZenonT(30) DEF EndScreen
  <2>. QED
    BY <1>10, <2>1, <2>2, <2>3 DEF EndScreen, Depth, InScreen
<1>11. CASE Full
  <2>1. scope' \in Inside /\ scope'.intercept = scope.intercept
    BY <1>11, Fields, PutTyped DEF Full, Widened
  <2>2. data' \in [Buffers -> Shapes]
    BY <1>11 DEF Full, Materialized, Shapes
  <2>3. pc' \in {"refit", "symbols", "plan"}
    BY <1>11 DEF Full
  <2>. QED
    BY <1>11, <2>1, <2>2, <2>3 DEF Full, Depth, InScreen
<1>12. CASE Refit
  <2>1. data' \in [Buffers -> Shapes]
    <3>1. scope.geometry \in Shapes
      BY Fields DEF Shapes
    <3>2. CASE learned \/ policy = "medium"
      BY <1>12, <3>1, <3>2, FittedTyped, ZenonT(30) DEF Refit
    <3>3. CASE ~(learned \/ policy = "medium")
      BY <1>12, <3>3 DEF Refit
    <3>. QED
      BY <3>2, <3>3
  <2>2. pc' \in {"symbols", "select", "plan"}
    BY <1>12 DEF Refit
  <2>. QED
    BY <1>12, <2>1, <2>2 DEF Refit, Depth, InScreen
<1>13. CASE Symbols
  <2>1. data' \in [Buffers -> Shapes]
    BY <1>13 DEF Symbols, Shapes, Buffers
  <2>. QED
    BY <1>13, <2>1 DEF Symbols, Depth, InScreen
<1>14. CASE Select
  <2>1. data' \in [Buffers -> Shapes]
    BY <1>14 DEF Select, Shapes
  <2>. QED
    BY <1>14, <2>1 DEF Select, Depth, InScreen
<1>15. CASE Plan
  <2>1. data' \in [Buffers -> Shapes]
    BY <1>15 DEF Plan, Shapes
  <2>. QED
    BY <1>15, <2>1 DEF Plan, Depth, InScreen
<1>16. CASE Encode
  BY <1>16 DEF Encode, Depth, InScreen
<1>17. CASE Decode
  <2>1. saved' \in Seq(Inside) /\ Len(saved') = 1 /\ saved'[1] = outer
    BY <1>17 DEF Decode
  <2>. QED
    BY <1>17, <2>1 DEF Decode, Depth, InScreen
<1>18. CASE Header
  <2>1. scope' \in Inside /\ scope'.intercept = scope.intercept
    BY <1>18, PutTyped DEF Header
  <2>. QED
    BY <1>18, <2>1 DEF Header, Depth, InScreen
<1>19. CASE Reconstruct
  BY <1>19 DEF Reconstruct, Depth, InScreen
<1>20. CASE Fail
  BY <1>20 DEF Fail, Depth, InScreen
<1>21. CASE UNCHANGED vars
  BY <1>21 DEF vars, Depth, InScreen
<1>22. QED
  BY <1>1, <1>2, <1>3, <1>4, <1>5, <1>6, <1>7, <1>8, <1>9, <1>10, <1>11, <1>12, <1>13,
     <1>14, <1>15, <1>16, <1>17, <1>18, <1>19, <1>20, <1>21 DEF Next

-----------------------------------------------------------------------------
\* Every reachable state satisfies IInv.
THEOREM Inductive == Spec => []IInv
<1>. QED
  BY Beginning, Invariance, PTL DEF Spec

\* The variables keep their types, and every call in progress has its entry.
THEOREM TypeCorrect == Spec => []TypeOK
<1>1. IInv => TypeOK
  BY DEF IInv
<1>. QED
  BY <1>1, Inductive, PTL

\* Between calls the thread-local variables are the caller's, whatever failed
\* (ng_fast.c:208, ng_medium.c:199, ng_presets.c:11, ng_frame_decode.c:98).
THEOREM ScopeCorrect == Spec => []ScopeRestored
<1>1. IInv => ScopeRestored
  BY DEF IInv, Untouched, ScopeRestored
<1>. QED
  BY <1>1, Inductive, PTL
-----------------------------------------------------------------------------
(* The shapes of the buffers at each step.                                 *)

Holds(buffers, s) == \A b \in buffers : data[b] = s

\* Who comes where.
Routes ==
    /\ pc = "symbols" => policy = "fast"
    /\ pc = "select" => (policy = "fast" /\ zeros = "some") \/ policy = "medium"
    /\ pc = "plan" => policy = "slow"
    /\ policy = "fast" /\ pc \in {"scan", "screen", "rank", "trial", "full", "refit",
                                  "symbols", "select", "encode"} => plans = 1

\* The sample is screened with its own geometry, kept aside by all but the fast
\* policy.
Screening ==
    /\ pc \in {"scan", "screen", "reconstruct"} => scope.geometry = d
    /\ pc \in {"rank", "trial"} =>
          scope.geometry = Sample /\ Holds({"sample", "fixed", "zero"}, Sample)
    /\ policy # "fast" /\ pc \in {"rank", "trial", "screened", "abandoned"} =>
          saved[3].geometry = d
    /\ pc \in {"screened", "full"} => Holds({"fixed", "zero", "fit", "base"}, Sample)
    /\ pc = "full" => scope.geometry = IF policy = "fast" THEN Sample ELSE d

\* From then on everything that will be read has the shape of the volume.
Whole ==
    /\ pc \in {"refit", "symbols", "select", "plan", "encode"} =>
          /\ scope.geometry = d /\ Holds({"fixed"}, d)
          /\ policy = "medium" \/ (policy = "fast" /\ zeros = "some") => Holds({"zero"}, d)
    /\ pc \in {"symbols", "select", "plan", "encode"} /\ (learned \/ policy = "medium") =>
          /\ Holds({"fit"}, d)
          /\ ~(policy = "fast" /\ zeros = "none") => Holds({"base"}, d)
    /\ pc = "encode" => Holds({"symbols"}, d)

ShapeInv == Routes /\ Screening /\ Whole /\ KernelsMatch

\* What a fit and a materialization leave in the buffers.
LEMMA FittedHolds ==
    ASSUME data \in [Buffers -> Shapes], NEW s \in Shapes, NEW activity \in BOOLEAN
    PROVE  /\ Fitted(s, activity)["fit"] = s
           /\ ~activity => Fitted(s, activity)["base"] = s
           /\ \A b \in Buffers \ {"fit", "base"} : Fitted(s, activity)[b] = data[b]
BY DEF Fitted, Buffers

\* Gathering the fit's inputs gives them the volume's shape and touches no other buffer.
LEMMA MaterializedHolds ==
    ASSUME data \in [Buffers -> Shapes], NEW withZero \in BOOLEAN
    PROVE  /\ Materialized(withZero)["fixed"] = d
           /\ withZero => Materialized(withZero)["zero"] = d
           /\ \A b \in Buffers \ {"fixed", "zero"} : Materialized(withZero)[b] = data[b]
BY DEF Materialized, Buffers

\* A volume that is no larger than the sample is as large.
LEMMA NoSmaller == d \in Dims => d \in Nat /\ d >= Sample
BY DimsAssumption

\* A kernel that is given what it expects.
LEMMA Meets ==
    ASSUME NEW shapes, shapes \subseteq {scope.geometry}, kernel' = Run(shapes, TRUE)
    PROVE  KernelsMatch'
BY DEF Run, KernelsMatch

\* At the start no buffer is in use.
LEMMA ShapesBegin == Init => ShapeInv
BY DEF Init, ShapeInv, Routes, Screening, Whole, KernelsMatch, Quiet

\* Every step leaves the shapes its successor expects, and kernels meet them.
LEMMA ShapesStep == IInv /\ ShapeInv /\ [Next]_vars => ShapeInv'
<1> SUFFICES ASSUME IInv, ShapeInv, [Next]_vars PROVE ShapeInv'
  OBVIOUS
<1> USE DEF ShapeInv, Routes, Screening, Whole, Holds, KernelsMatch
<1>0. /\ data \in [Buffers -> Shapes] /\ scope \in Inside /\ d \in Dims
      /\ policy \in Policies \cup {"decode"} /\ zeros \in {"none", "some"}
      /\ masked \in BOOLEAN /\ learned \in BOOLEAN /\ plans \in 0 .. 3
      /\ saved \in Seq(Inside) /\ Len(saved) = Depth
      /\ DecoderAlone /\ FastNotNested /\ Trying
  BY DEF IInv, TypeOK
<1>p. \A a \in Dims \cup {Sample} : \A e \in Edges \cup {4} : Put(a, e).geometry = a
  BY <1>0, PutTyped
<1>s. scope.edge \in Edges \cup {4} /\ scope.geometry \in Shapes
  BY <1>0, Fields DEF Shapes
<1>d. d \in Dims /\ d \in Shapes /\ d \in Nat /\ d >= Sample
  BY <1>0, NoSmaller DEF Shapes
<1>1. ASSUME NEW p \in Policies, Preset(p) PROVE ShapeInv'
  BY <1>1 DEF Preset
<1>2. CASE Enter
  <2>1. scope' = Put(d, 4)
    BY <1>2 DEF Enter, Put
  <2>2. scope'.geometry = d
    BY <1>d, <1>p, <2>1
  <2>3. policy = "fast" => plans' = 1
    BY <1>2 DEF Enter
  <2>. QED
    BY <1>2, <2>2, <2>3 DEF Enter
<1>3. CASE Scan
  BY <1>3 DEF Scan
<1>4. CASE Write
  BY <1>4 DEF Write
<1>5. CASE Leave
  BY <1>5 DEF Leave
<1>6. CASE Return
  BY <1>6 DEF Return
<1>7. CASE Screen
  <2>1. scope'.geometry = Sample
    BY <1>7, <1>p, <1>s DEF Screen
  <2>2. data'["sample"] = Sample /\ data'["fixed"] = Sample /\ data'["zero"] = Sample
    BY <1>7, <1>0 DEF Screen, Buffers
  <2>3. policy # "fast" => saved'[3].geometry = d
    <3>1. Len(saved) = 2
      BY <1>7, <1>0 DEF Screen, Depth, InScreen, DecoderAlone
    <3>. QED
      BY <1>7, <1>0, <3>1, Entered DEF Screen
  <2>. QED
    BY <1>7, <2>1, <2>2, <2>3 DEF Screen
<1>8. CASE Rank
  <2>1. KernelsMatch'
    BY <1>8 DEF Rank, Run
  <2>. QED
    BY <1>8, <2>1 DEF Rank
<1>9. CASE Trial
  <2>1. /\ data'["fit"] = Sample /\ data'["base"] = Sample
        /\ data'["fixed"] = Sample /\ data'["zero"] = Sample
    <3>1. data' = Fitted(Sample, FALSE) /\ Sample \in Shapes
      BY <1>9, <1>s DEF Trial
    <3>2. data["fixed"] = Sample /\ data["zero"] = Sample
      BY <1>9 DEF Trial
    <3>3. /\ Fitted(Sample, FALSE)["fit"] = Sample /\ Fitted(Sample, FALSE)["base"] = Sample
          /\ \A b \in Buffers \ {"fit", "base"} : Fitted(Sample, FALSE)[b] = data[b]
      BY <3>1, <1>0, FittedHolds
    <3>. QED
      BY <3>1, <3>2, <3>3 DEF Buffers
  <2>2. KernelsMatch'
    <3>1. kernel' = Run({data["sample"], data["fixed"]},
                        Accepts(TRUE, masked, policy # "medium" /\ ~masked, FALSE))
      BY <1>9 DEF Trial
    <3>2. Accepts(TRUE, masked, policy # "medium" /\ ~masked, FALSE)
      BY <1>0 DEF Accepts
    <3>3. /\ kernel'.geometry = Sample
          /\ kernel'.shapes = {data["sample"], data["fixed"]}
          /\ kernel'.accepts = Accepts(TRUE, masked, policy # "medium" /\ ~masked, FALSE)
      BY <1>9, <3>1 DEF Trial, Run
    <3>4. data["sample"] = Sample /\ data["fixed"] = Sample
      BY <1>9 DEF Trial
    <3>5. kernel'.shapes \subseteq {kernel'.geometry}
      BY <3>3, <3>4
    <3>6. kernel'.accepts
      BY <3>2, <3>3, Zenon
    <3>. QED
      BY <3>5, <3>6
  <2>. QED
    BY <1>9, <2>1, <2>2 DEF Trial
<1>10. CASE EndScreen
  <2>1. (Len(saved) = 3 /\ policy # "fast") \/ pc = "abandoned"
    BY <1>10, <1>0 DEF EndScreen, Depth, InScreen, FastNotNested
  <2>2. pc = "screened" => scope'.geometry = d
    <3>1. pc = "screened" => scope' = Put(d, scope.edge)
      BY <1>10, <2>1 DEF EndScreen
    <3>2. Put(d, scope.edge).geometry = d
      BY <1>p, <1>s, <1>d
    <3>. QED
      BY <3>1, <3>2
  <2>. QED
    BY <1>10, <2>1, <2>2 DEF EndScreen
<1>11. CASE Full
  <2>1. policy \in {"fast", "medium", "slow"}
    BY <1>11, <1>0 DEF Full, DecoderAlone, Policies
  <2>2. CASE policy = "fast" /\ d > Sample
    <3>1. scope'.geometry = d
      <4>1. scope' = Put(d, scope.edge)
        BY <1>11, <2>2, <1>d DEF Full, Widened, Sample
      <4>2. Put(d, scope.edge).geometry = d
        BY <1>p, <1>s, <1>d
      <4>. QED
        BY <4>1, <4>2
    <3>2. data' = Materialized(zeros = "some")
      BY <1>11, <2>2, <1>d DEF Full, Sample
    <3>3. data'["fixed"] = d /\ (zeros = "some" => data'["zero"] = d)
      BY <3>2, <1>0, MaterializedHolds
    <3>. QED
      BY <1>11, <2>2, <1>d, <3>1, <3>3 DEF Full, Sample
  <2>3. CASE policy = "medium" \/ (policy = "slow" /\ d > Sample)
    <3>1. data'["fixed"] = d /\ (policy = "medium" => data'["zero"] = d)
      <4>1. data' = Materialized(policy = "medium") /\ (policy = "medium") \in BOOLEAN
        BY <1>11, <2>3, <1>d DEF Full, Sample
      <4>. QED
        BY <4>1, <1>0, MaterializedHolds
    <3>2. scope' = scope /\ pc' = "refit"
      BY <1>11, <2>3, <1>d DEF Full, Sample
    <3>. QED
      BY <1>11, <2>3, <3>1, <3>2 DEF Full
  <2>4. CASE policy # "medium" /\ d <= Sample
    <3>1. d = Sample
      BY <1>d, <2>4 DEF Sample
    <3>2. /\ pc' = IF policy = "fast" THEN "symbols" ELSE "plan"
          /\ scope' = scope /\ data' = data
      BY <1>11, <2>4, <1>d DEF Full, Sample
    <3>. QED
      BY <1>11, <2>1, <2>4, <3>1, <3>2 DEF Full
  <2>. QED
    BY <1>11, <1>d, <2>1, <2>2, <2>3, <2>4 DEF Full
<1>12. CASE Refit
  <2>1. policy \in {"fast", "medium", "slow"}
    BY <1>12, <1>0 DEF Refit, DecoderAlone, Policies
  <2>2. WithActivity \in BOOLEAN
    BY DEF WithActivity
  <2>3. CASE learned \/ policy = "medium"
    <3>1. /\ data'["fit"] = d /\ (~WithActivity => data'["base"] = d)
          /\ data'["fixed"] = data["fixed"] /\ data'["zero"] = data["zero"]
      <4>1. data' = Fitted(d, WithActivity)
        BY <1>12, <2>3 DEF Refit
      <4>. QED
        BY <4>1, <2>2, <1>0, <1>d, FittedHolds DEF Buffers
    <3>2. kernel' = Run({d} \cup (IF learned THEN {data["fixed"]} ELSE {}),
                        Accepts(learned, zeros = "some", FALSE, WithActivity))
      BY <1>12, <2>3 DEF Refit
    <3>3. Accepts(learned, zeros = "some", FALSE, WithActivity)
      BY <2>3 DEF Accepts, WithActivity
    <3>4. KernelsMatch'
      BY <1>12, <3>2, <3>3 DEF Refit, Run
    <3>. QED
      BY <1>12, <2>1, <2>3, <3>1, <3>4 DEF Refit, WithActivity
  <2>4. CASE ~(learned \/ policy = "medium")
    BY <1>12, <2>1, <2>4 DEF Refit
  <2>. QED
    BY <2>3, <2>4
<1>13. CASE Symbols
  <2>1. data'["symbols"] = d /\ \A b \in Buffers \ {"symbols"} : data'[b] = data[b]
    BY <1>13, <1>0 DEF Symbols, Buffers
  <2>2. kernel' = Run({data'["symbols"]}, TRUE)
    BY <1>13 DEF Symbols
  <2>3. KernelsMatch'
    BY <1>13, <2>1, <2>2, Meets DEF Symbols
  <2>. QED
    BY <1>13, <1>0, <2>1, <2>3 DEF Symbols, Buffers
<1>14. CASE Select
  <2>1. data'["symbols"] = d /\ \A b \in Buffers \ {"symbols"} : data'[b] = data[b]
    BY <1>14, <1>0 DEF Select, Buffers
  <2>2. KernelsMatch'
    <3>1. CASE policy = "fast"
      <4>1. Bank(learned, ~learned, learned) \subseteq {scope.geometry}
        BY <1>14, <3>1 DEF Select, Bank
      <4>. QED
        BY <1>14, <3>1, <4>1, Meets DEF Select
    <3>2. CASE policy # "fast"
      <4>1. Bank(TRUE, ~learned, TRUE) \subseteq {scope.geometry}
        BY <1>14, <3>2 DEF Select, Bank
      <4>. QED
        BY <1>14, <3>2, <4>1, Meets DEF Select
    <3>. QED
      BY <3>1, <3>2
  <2>. QED
    BY <1>14, <2>1, <2>2 DEF Select, Buffers
<1>15. CASE Plan
  <2>1. /\ data'["symbols"] = d /\ data'["fixed"] = d
        /\ zeros = "some" => data'["zero"] = d
        /\ data'["fit"] = data["fit"] /\ data'["base"] = data["base"]
    BY <1>15, <1>0 DEF Plan, Buffers
  <2>2. KernelsMatch'
    <3>1. PICK models \in {FALSE, learned}, fixed \in BOOLEAN :
             kernel' = Run({d} \cup (IF models THEN {data["fit"], data["base"]} ELSE {})
                             \cup (IF fixed THEN {data'["fixed"]} ELSE {})
                             \cup (IF zeros = "some" THEN {data'["zero"]} ELSE {}), TRUE)
      BY <1>15 DEF Plan
    <3>2. models => data["fit"] = d /\ data["base"] = d
      BY <1>15, <3>1 DEF Plan
    <3>3. scope.geometry = d
      BY <1>15 DEF Plan
    <3>. DEFINE shapes == {d} \cup (IF models THEN {data["fit"], data["base"]} ELSE {})
                             \cup (IF fixed THEN {data'["fixed"]} ELSE {})
                             \cup (IF zeros = "some" THEN {data'["zero"]} ELSE {})
    <3>4. shapes \subseteq {scope.geometry}
      BY <2>1, <3>2, <3>3
    <3>. QED
      BY <3>1, <3>4, Meets
  <2>. QED
    BY <1>15, <2>1, <2>2 DEF Plan
<1>16. CASE Encode
  <2>1. KernelsMatch'
    BY <1>16 DEF Encode, Run
  <2>2. policy \in {"fast", "medium", "slow"}
    BY <1>16, <1>0 DEF Encode, DecoderAlone, Policies
  <2>3. plans # 1 => policy # "fast" /\ plans > 1
    BY <1>16, <1>0 DEF Encode, Trying
  <2>. QED
    BY <1>16, <2>1, <2>2, <2>3 DEF Encode
<1>17. CASE Decode
  BY <1>17 DEF Decode
<1>18. CASE Header
  <2>1. scope'.geometry = d
    BY <1>18, <1>p, <1>d DEF Header
  <2>. QED
    BY <1>18, <2>1 DEF Header
<1>19. CASE Reconstruct
  <2>1. KernelsMatch'
    BY <1>19 DEF Reconstruct, Run
  <2>. QED
    BY <1>19, <2>1 DEF Reconstruct
<1>20. CASE Fail
  <2>1. pc' = "abandoned" => policy # "fast" /\ pc \in {"rank", "trial"}
    BY <1>20 DEF Fail, InScreen
  <2>2. pc' \in {"return", "abandoned", "done"}
    BY <1>20 DEF Fail
  <2>. QED
    BY <1>20, <2>1, <2>2 DEF Fail
<1>21. CASE UNCHANGED vars
  BY <1>21 DEF vars
<1>22. QED
  BY <1>1, <1>2, <1>3, <1>4, <1>5, <1>6, <1>7, <1>8, <1>9, <1>10, <1>11, <1>12, <1>13,
     <1>14, <1>15, <1>16, <1>17, <1>18, <1>19, <1>20, <1>21 DEF Next

\* Kernels only meet buffers of the geometry in force, and arguments they accept,
\* for all sizes of volumes, in every order of calls and failures
\* (ng_fast.c:136, ng_slow.c:308, ng_native_encode.c:24).
THEOREM KernelsCorrect == Spec => []KernelsMatch
<1>1. ShapeInv => KernelsMatch
  BY DEF ShapeInv
<1>. QED
  BY <1>1, ShapesBegin, ShapesStep, Inductive, PTL DEF Spec

=============================================================================
