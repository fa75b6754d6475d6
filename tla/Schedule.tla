------------------------------ MODULE Schedule ------------------------------
(***************************************************************************)
(* vcn_lc_mksched: the loops that list the rows of the volume in groups    *)
(* for the wavefront.  Encoder and decoder both run it, the encoder to     *)
(* push symbols backwards and the decoder to pull them forwards, so the    *)
(* table must hold every row once, in an order both can code in.           *)
(***************************************************************************)
EXTENDS Integers, FiniteSets

CONSTANTS Y,      \* rows of a slice
          Z,      \* slices
          NL,     \* rows of a group at most (VCN_LC_NL)
          Slopes, \* the slopes dl to build a table for
          NoRow   \* what an entry holds before it is written

ASSUME GeometryAssumption ==
    /\ Y \in Nat /\ Y >= 1
    /\ Z \in Nat /\ Z >= 1
    /\ NL \in Nat /\ NL >= 1

\* vcn_lc_delta is a reach of 1 to 3 rows, plus one.
ASSUME SlopesAssumption == Slopes \subseteq 2 .. 4

Rows == (0 .. Z-1) \X (0 .. Y-1)

ASSUME NoRowAssumption == NoRow \notin Rows

\* A slip: the arrays are sized for full groups only.
GroupsFull == 0 .. (Y * Z) \div NL - 1

\* The extent of the two arrays: as many groups as there are rows.
Groups == 0 .. Y * Z - 1
Lanes == 0 .. NL - 1

VARIABLES dl,   \* the slope
          t,    \* the step, the outer loop
          z,    \* the slice, the inner loop
          k,    \* rows in the group being filled
          g,    \* the group being filled
          row,  \* s->row
          n     \* s->n; 0 for an entry malloc left unwritten, which no one reads

tableVars == <<dl, t, z, k, g, row, n>>

\* A slip: the rows still missing from the last slice are forgotten.
LastStepEarly == dl * (Z - 1)
LastStep == Y - 1 + dl * (Z - 1)

\* A slip: the rows run closer together than the slope asks for.
yTooClose == t - (dl - 1) * z
y == t - dl * z

TableInit ==
    /\ dl \in Slopes
    /\ t = 0 /\ z = 0 /\ k = 0 /\ g = 0
    /\ row = [p \in Groups \X Lanes |-> NoRow]
    /\ n = [h \in Groups |-> 0]

Looping == t <= LastStep

\* The slices of this step are exhausted.
StepEnds == z = Z \/ y < 0

\* A slip: a group left open at the end of a step is filled up in the next one.
EndStepKeepsGroup ==
    /\ Looping /\ StepEnds
    /\ t' = t + 1 /\ z' = 0
    /\ UNCHANGED <<dl, row, n, g, k>>

EndStep ==
    /\ Looping /\ StepEnds
    /\ g' = IF k > 0 THEN g + 1 ELSE g
    /\ t' = t + 1 /\ z' = 0 /\ k' = 0
    /\ UNCHANGED <<dl, row, n>>

SkipSlice ==
    /\ Looping /\ ~StepEnds
    /\ y >= Y
    /\ z' = z + 1
    /\ UNCHANGED <<dl, t, k, g, row, n>>

\* A slip: a full group is opened again by the next row.
PlaceWithoutClosing ==
    /\ Looping /\ ~StepEnds
    /\ y < Y
    /\ row' = [row EXCEPT ![<<g, k>>] = <<z, y>>]
    /\ n' = [n EXCEPT ![g] = k + 1]
    /\ k' = (k + 1) % NL /\ g' = g
    /\ z' = z + 1
    /\ UNCHANGED <<dl, t>>

PlaceRow ==
    /\ Looping /\ ~StepEnds
    /\ y < Y
    /\ row' = [row EXCEPT ![<<g, k>>] = <<z, y>>]
    /\ n' = [n EXCEPT ![g] = k + 1]
    /\ IF k + 1 = NL THEN g' = g + 1 /\ k' = 0
                     ELSE g' = g /\ k' = k + 1
    /\ z' = z + 1
    /\ UNCHANGED <<dl, t>>

TableNext == EndStep \/ SkipSlice \/ PlaceRow

TableSpec == TableInit /\ [][TableNext]_tableVars

\* The loops run as soon as they can: plain sequential code.
FairTableSpec == TableSpec /\ WF_tableVars(TableNext)

-----------------------------------------------------------------------------
Step(r) == r[2] + dl * r[1]

\* Rows the loops have passed.
Passed == {r \in Rows : Step(r) < t \/ (Step(r) = t /\ r[1] < z)}

\* Entries in use.
Used == {p \in Groups \X Lanes : p[2] < n[p[1]]}

\* Rows whose voxels or errors row r needs, directly or through pads, for tap
\* radii up to dl - 1 and for the activity stencil.
Clamp(q) == IF q < 0 THEN 0 ELSE IF q > Y-1 THEN Y-1 ELSE q
Needs(r) ==
    {<<r[1], q>> : q \in {r[2]-3, r[2]-2, r[2]-1} \cap (0 .. Y-1)}
    \cup {<<s, Clamp(r[2] + d)>> :
              s \in {r[1]-2, r[1]-1} \cap (0 .. Z-1), d \in 1-dl .. dl-1}

TableTypeOK ==
    /\ dl \in Slopes
    /\ t \in 0 .. LastStep + 1 /\ z \in 0 .. Z
    /\ k \in 0 .. NL-1 /\ g \in 0 .. Y * Z
    /\ row \in [Groups \X Lanes -> Rows \cup {NoRow}]
    /\ n \in [Groups -> 0 .. NL]

\* The table holds the rows passed so far, each once: no row is lost when a group
\* fills up, ends with its step, or is written over by a later one.
EveryRowOnce ==
    /\ \A p \in Used : row[p] \in Passed
    /\ \A p, q \in Used : row[p] = row[q] => p = q
    /\ \A r \in Passed : \E p \in Used : row[p] = r

\* The rows of one group are consecutive slices of one step, so they are
\* independent, and the wave history can store them as one vector.
GroupsAreWaves ==
    \A p \in Used :
        LET first == row[<<p[1], 0>>]
        IN row[p] = <<first[1] + p[2], first[2] - dl * p[2]>>

\* Every row a group needs is in an earlier group.
NeedsComeFirst ==
    \A q \in Used : \A r \in Needs(row[q]) :
        \E p \in Used : row[p] = r /\ p[1] < q[1]

\* A row is never written past the arrays, which hold as many groups as there are
\* rows although a step may end with a group that is not full.
WritesInBounds ==
    Looping /\ ~StepEnds /\ y < Y => g \in Groups /\ k \in Lanes

\* When the loops end the whole volume is in the table.
WholeVolumeAtEnd == ~Looping => {row[p] : p \in Used} = Rows

\* The loops do end, with the whole volume in the table.
Completes == <>[](~Looping /\ {row[p] : p \in Used} = Rows)

-----------------------------------------------------------------------------
(* The inductive invariant.                                                *)

\* The order the loops pass the rows in.
Ahead(r, s) == Step(r) < Step(s) \/ (Step(r) = Step(s) /\ r[1] < s[1])
Earlier(p, q) == p[1] < q[1] \/ (p[1] = q[1] /\ p[2] < q[2])

\* Groups after the open one are empty; every group opened so far has a row, so
\* there are no more groups than rows.
GroupsCounted ==
    /\ \A h \in Groups : (h = g => n[h] = k) /\ (h > g => n[h] = 0)
    /\ (IF k > 0 THEN g + 1 ELSE g) <= Cardinality(Passed)

ListsPassed ==
    /\ \A p \in Used : row[p] \in Passed
    /\ \A r \in Passed : \E p \in Used : row[p] = r

Sorted == \A p, q \in Used : Earlier(p, q) => Ahead(row[p], row[q])

\* The open group ends with the slice just passed.
OpenGroup ==
    \A p \in Used : p[1] = g =>
        row[p] = <<z - k + p[2], t - dl * (z - k + p[2])>>

TableInv ==
    /\ TableTypeOK
    /\ GroupsCounted
    /\ ListsPassed
    /\ Sorted
    /\ GroupsAreWaves
    /\ OpenGroup
=============================================================================
