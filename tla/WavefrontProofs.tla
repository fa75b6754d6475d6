-------------------------- MODULE WavefrontProofs --------------------------
(***************************************************************************)
(* Proofs about the decoder's traversal, for every volume, every set of    *)
(* used models and every group width.  The invariant says, phase by phase, *)
(* which rows the two padded buffers, the output and the wave history      *)
(* hold; that a row then reads what raster order would have given it is a  *)
(* fact about the slope alone.                                             *)
(***************************************************************************)
EXTENDS Wavefront, PaddedRowsProofs

Waves == {"start", "begin", "errors", "base", "publish"}

\* The rows of earlier groups, those of this group, and those of this group the
\* phase has been at.
Passed == {r \in Rows : Step(r) < t \/ (Step(r) = t /\ r[1] < lo)}
Group == {r \in Rows : Step(r) = t /\ lo <= r[1] /\ r[1] < lo + NL}
Reached == {r \in Rows : Step(r) = t /\ lo <= r[1] /\ r[1] < at}

TypeOK ==
    /\ models \in ModelSets
    /\ path \in Paths
    /\ path = "delta" => models = {}
    /\ dl = DecoderDelta(models)
    /\ pc \in Waves \cup {"restore", "done"}
    /\ path = "delta" => pc \notin {"base", "publish"}
    /\ path # "delta" => pc # "restore"
    /\ out = [r \in Rows |-> out[r]]
    /\ ring = [p \in 0 .. Depth - 1 |-> [l \in Lanes |-> ring[p][l]]]
    /\ readB = [r \in Rows |-> readB[r]]
    /\ readE = [r \in Rows |-> readE[r]]
    /\ readBase = [r \in Rows |-> readBase[r]]

\* A group is a run of slices of its step.
InGroup ==
    /\ t \in 0 .. LastStep
    /\ lo \in SlicesOf(t) /\ at \in SlicesOf(t)
    /\ lo <= at /\ at < lo + NL

\* A phase is at a slice of its group; the restoring pass is at a row.
Position ==
    /\ pc \in Waves => InGroup
    /\ pc = "restore" => at \in 0 .. Z-1 /\ lo \in 0 .. Y-1

\* The padded voxels: finished are the rows published, begun those of the group.
Voxels ==
    IF path = "delta" THEN b = Fresh
    ELSE /\ pc \in {"start", "begin"} => b = Contents(Passed, Reached)
         /\ pc \in {"errors", "base"} => b = Contents(Passed, Group)
         /\ pc = "publish" => b = Contents(Passed \cup Reached, Group)

\* The padded errors: finished as soon as a group's symbols are read.
Errors ==
    /\ pc \in {"start", "begin"} => e = Contents(Passed, Reached)
    /\ pc = "errors" => e = Contents(Passed \cup Reached, Group)
    /\ pc \in {"base", "publish"} => e = Contents(Passed \cup Group, {})

\* The rows whose voxels are final in the output.
Restored ==
    IF pc = "done" THEN Rows
    ELSE IF pc = "restore" THEN Before(at, lo)
    ELSE IF path = "delta" THEN {}
    ELSE IF pc = "publish" THEN Passed \cup Reached
    ELSE Passed

Output == \A r \in Restored : out[r] = "value"

\* The rows whose class has been read.
Begun ==
    IF pc \in {"start", "begin"} THEN Passed \cup Reached
    ELSE IF pc \in Waves THEN Passed \cup Group
    ELSE Rows

Classed == \A r \in Begun : readE[r] # Unread

\* The rows stored to the ring: a group's rows all at once, with the first of them.
Stored ==
    IF pc = "publish" /\ at > lo THEN Passed \cup Group ELSE Passed

\* The ring still holds every stored row of the last dl + 1 steps and this one.
History ==
    path = "ring" /\ pc \in Waves =>
        \A r \in Stored : Step(r) >= t - dl - 1 => ring[Plane(Step(r))][r[1] + 1] = r

WaveInv ==
    /\ TypeOK /\ Position
    /\ Voxels /\ Errors
    /\ Output /\ Classed /\ History
    /\ PredictionReadsAgree /\ ClassReadsAgree /\ BaseReadsAgree

-----------------------------------------------------------------------------
(* The slope.                                                              *)

\* A model's slope exceeds its reach into other slices, and is small.
LEMMA ModelSlope ==
    ASSUME NEW m \in Radii
    PROVE  /\ Reach(m) \in -1 .. 3
           /\ Delta(m) \in 2 .. 4
           /\ m.r1 <= Reach(m) /\ m.r2 <= Reach(m)
           /\ Delta(m) = IF Reach(m) > 1 THEN Reach(m) + 1 ELSE 2
<1>1. m.r1 \in -1 .. 3 /\ m.r2 \in -1 .. 3
  BY DEF Radii
<1> QED
  BY <1>1, SMT DEF Reach, Delta, Larger

\* The decoder's slope is the largest of the used models' slopes, and 2 at least.
LEMMA SlopeIsLargest ==
    ASSUME NEW ms \in SUBSET Radii
    PROVE  /\ DecoderDelta(ms) \in 2 .. 4
           /\ \A m \in ms : Delta(m) <= DecoderDelta(ms)
           /\ \A d \in {2} \cup {Delta(m) : m \in ms} :
                (\A c \in {2} \cup {Delta(m) : m \in ms} : c <= d)
                  => d = DecoderDelta(ms)
<1> DEFINE slopes == {2} \cup {Delta(m) : m \in ms}
           largest(d) == d \in slopes /\ \A c \in slopes : c <= d
<1>1. slopes \subseteq 2 .. 4
  BY ModelSlope, SMT
<1>2. \E d : largest(d)
  <2>1. CASE 4 \in slopes
    <3>1. \A c \in slopes : c <= 4
      BY <1>1, SMT
    <3> QED
      BY <2>1, <3>1
  <2>2. CASE 4 \notin slopes /\ 3 \in slopes
    <3>1. \A c \in slopes : c <= 3
      BY <1>1, <2>2, SMT
    <3> QED
      BY <2>2, <3>1
  <2>3. CASE 4 \notin slopes /\ 3 \notin slopes
    <3>1. \A c \in slopes : c <= 2
      BY <1>1, <2>3, SMT
    <3> QED
      BY <3>1
  <2> QED
    BY <2>1, <2>2, <2>3
<1>3. DecoderDelta(ms) = CHOOSE d : largest(d)
  BY DEF DecoderDelta
<1>4. largest(DecoderDelta(ms))
  <2> HIDE DEF largest
  <2> QED
    BY <1>2, <1>3
<1>5. ASSUME NEW d \in slopes, \A c \in slopes : c <= d
      PROVE  d = DecoderDelta(ms)
  <2>1. d <= DecoderDelta(ms) /\ DecoderDelta(ms) <= d
    BY <1>4, <1>5
  <2>2. d \in 2 .. 4 /\ DecoderDelta(ms) \in 2 .. 4
    BY <1>1, <1>4
  <2> QED
    BY <2>1, <2>2, SMT
<1>6. DecoderDelta(ms) \in 2 .. 4
  BY <1>1, <1>4
<1>7. \A m \in ms : Delta(m) <= DecoderDelta(ms)
  BY <1>4
<1> QED
  BY <1>5, <1>6, <1>7

\* The slope of the one model the encoder serializes is the decoder's.
LEMMA SlopeOfEntropyModel ==
    ASSUME NEW ms \in SUBSET Radii
    PROVE  Delta(EntropyModel(ms)) = DecoderDelta(ms)
<1> DEFINE slopes == {2} \cup {Delta(m) : m \in ms}
<1>1. \A m \in ms : /\ Reach(m) \in -1 .. 3
                    /\ Delta(m) \in 2 .. 4
                    /\ Delta(m) = IF Reach(m) > 1 THEN Reach(m) + 1 ELSE 2
  BY ModelSlope
<1>2. CASE \E m \in ms : Reach(m) > -1
  <2> DEFINE furthest(m) == m \in ms /\ \A n \in ms : Reach(n) <= Reach(m)
  <2>1. \E m : furthest(m)
    <3> DEFINE at_least(k) == \E m \in ms : Reach(m) >= k
    <3>1. at_least(0)
      BY <1>1, <1>2, SMT
    <3>2. \A k \in 0 .. 3 : at_least(k) /\ ~ at_least(k+1) => \E m : furthest(m)
      BY <1>1, SMT
    <3>3. ~ at_least(4)
      BY <1>1, SMT
    <3> HIDE DEF at_least, furthest
    <3>4. /\ at_least(0) /\ ~ at_least(1) => \E m : furthest(m)
          /\ at_least(1) /\ ~ at_least(2) => \E m : furthest(m)
          /\ at_least(2) /\ ~ at_least(3) => \E m : furthest(m)
          /\ at_least(3) /\ ~ at_least(4) => \E m : furthest(m)
      BY <3>2, SMT
    <3> QED
      BY <3>1, <3>3, <3>4
  <2>2. EntropyModel(ms) = CHOOSE m : furthest(m)
    BY <1>2 DEF EntropyModel
  <2>3. furthest(EntropyModel(ms))
    <3> HIDE DEF furthest
    <3> QED
      BY <2>1, <2>2
  <2> DEFINE em == EntropyModel(ms)
  <2>4. em \in ms /\ \A n \in ms : Reach(n) <= Reach(em)
    BY <2>3
  <2> HIDE DEF em, furthest
  <2>5. \A n \in ms : Delta(n) <= Delta(em)
    BY <1>1, <2>4, SMT
  <2>6. 2 <= Delta(em)
    BY <1>1, <2>4, SMT
  <2>7. Delta(em) \in slopes /\ \A c \in slopes : c <= Delta(em)
    BY <2>4, <2>5, <2>6
  <2>8. Delta(em) = DecoderDelta(ms)
    BY <2>7, SlopeIsLargest
  <2> QED
    BY <2>8 DEF em
<1>3. CASE ~ \E m \in ms : Reach(m) > -1
  <2>1. Delta(EntropyModel(ms)) = 2
    BY <1>3, SMT DEF EntropyModel, Delta, Reach, Larger
  <2>2. \A m \in ms : Delta(m) = 2
    BY <1>1, <1>3, SMT
  <2>3. 2 \in slopes /\ \A c \in slopes : c <= 2
    BY <2>2
  <2> QED
    BY <2>1, <2>3, SlopeIsLargest
<1> QED
  BY <1>2, <1>3

-----------------------------------------------------------------------------
(* Steps and groups.                                                       *)

\* Slices of a step, and the step of a row.
LEMMA SliceFacts ==
    ASSUME dl \in 2 .. 4, NEW s \in Int
    PROVE  /\ \A z : (z \in SlicesOf(s)) <=> (z \in 0 .. Z-1 /\ s - dl * z \in 0 .. Y-1)
           /\ \A z, w \in SlicesOf(s), v \in Int : z <= v /\ v <= w => v \in SlicesOf(s)
<1>1. \A z : (z \in SlicesOf(s)) <=> (z \in 0 .. Z-1 /\ s - dl * z \in 0 .. Y-1)
  BY DEF SlicesOf
<1>2. ASSUME NEW z \in SlicesOf(s), NEW w \in SlicesOf(s), NEW v \in Int, z <= v, v <= w
      PROVE  v \in SlicesOf(s)
  <2>1. z \in 0 .. Z-1 /\ w \in 0 .. Z-1 /\ s - dl * z \in 0 .. Y-1 /\ s - dl * w \in 0 .. Y-1
    BY <1>1
  <2>2. dl = 2 \/ dl = 3 \/ dl = 4
    BY SMT
  <2>3. v \in 0 .. Z-1 /\ s - dl * v \in 0 .. Y-1
    BY <2>1, <2>2, <1>2, GeometryFacts, SMT
  <2> QED
    BY <2>3, <1>1
<1> QED
  BY <1>1, <1>2

\* Every row is on a step of the traversal.
LEMMA RowStep ==
    ASSUME dl \in 2 .. 4, NEW r \in Rows
    PROVE  /\ Step(r) = r[2] + dl * r[1]
           /\ Step(r) \in 0 .. LastStep
           /\ r[1] \in SlicesOf(Step(r))
<1>1. r[1] \in 0 .. Z-1 /\ r[2] \in 0 .. Y-1
  BY RowPair
<1>2. dl = 2 \/ dl = 3 \/ dl = 4
  BY SMT
<1> DEFINE i == r[1]
           j == r[2]
<1> HIDE DEF i, j
<1>3. i \in 0 .. Z-1 /\ j \in 0 .. Y-1
  BY <1>1 DEF i, j
<1>4. Step(r) = j + dl * i
  BY DEF Step, i, j
<1>5. Step(r) \in 0 .. LastStep /\ Step(r) - dl * i = j
  BY <1>2, <1>3, <1>4, GeometryFacts, SMT DEF LastStep
<1>6. i \in SlicesOf(Step(r))
  BY <1>3, <1>5 DEF SlicesOf
<1> QED
  BY <1>4, <1>5, <1>6 DEF i, j

\* The row of step t in one of its slices.
LEMMA RowOfSlice ==
    ASSUME dl \in 2 .. 4, t \in Int, NEW z \in SlicesOf(t)
    PROVE  /\ z \in 0 .. Z-1 /\ t - dl * z \in 0 .. Y-1
           /\ Row(z) = <<z, t - dl * z>> /\ Row(z) \in Rows
           /\ Row(z)[1] = z /\ Step(Row(z)) = t
           /\ \A r \in Rows : Step(r) = t /\ r[1] = z => r = Row(z)
<1>1. z \in 0 .. Z-1 /\ t - dl * z \in 0 .. Y-1
  BY SliceFacts
<1>2. Row(z) = <<z, t - dl * z>> /\ Row(z)[1] = z /\ Row(z)[2] = t - dl * z
  BY DEF Row
<1>3. Row(z) \in Rows
  BY <1>1, <1>2, RowCell
<1>4. dl * z \in Int
  BY <1>1, SMT
<1>5. Step(Row(z)) = t
  <2>1. Step(Row(z)) = (t - dl * z) + dl * z
    BY <1>2 DEF Step
  <2> QED
    BY <2>1, <1>4, SMT
<1>6. ASSUME NEW r \in Rows, Step(r) = t, r[1] = z
      PROVE  r = Row(z)
  <2>1. r = <<r[1], r[2]>> /\ r[2] \in 0 .. Y-1
    BY RowPair
  <2>2. t = r[2] + dl * z
    BY <1>6 DEF Step
  <2>3. r[2] = t - dl * z
    BY <2>1, <2>2, <1>4, SMT
  <2> QED
    BY <2>1, <2>3, <1>2, <1>6
<1> QED
  BY <1>1, <1>2, <1>3, <1>5, <1>6

\* Every step has slices, and a first one.
LEMMA FirstSliceFacts ==
    ASSUME dl \in 2 .. 4, NEW s \in 0 .. LastStep
    PROVE  FirstSlice(s) \in SlicesOf(s) /\ \A w \in SlicesOf(s) : FirstSlice(s) <= w
<1> DEFINE least(z) == z \in SlicesOf(s) /\ \A w \in SlicesOf(s) : z <= w
           z0 == IF s <= Y-1 THEN 0 ELSE (s - Y + dl) \div dl
<1> USE GeometryFacts
<1>1. s \in Int /\ s >= 0 /\ s <= Y - 1 + dl * (Z - 1)
  BY SMT DEF LastStep
<1>2. z0 \in 0 .. Z-1 /\ s - dl * z0 \in 0 .. Y-1 /\ (z0 > 0 => s - dl * (z0 - 1) > Y-1)
  <2>1. CASE dl = 2
    BY <1>1, <2>1, SMT
  <2>2. CASE dl = 3
    BY <1>1, <2>2, SMT
  <2>3. CASE dl = 4
    BY <1>1, <2>3, SMT
  <2> QED
    BY <2>1, <2>2, <2>3, SMT
<1> HIDE DEF z0
<1>3. z0 \in SlicesOf(s)
  BY <1>1, <1>2, SliceFacts
<1>4. ASSUME NEW w \in SlicesOf(s) PROVE z0 <= w
  <2>1. w \in 0 .. Z-1 /\ s - dl * w \in 0 .. Y-1
    BY <1>1, SliceFacts
  <2>2. dl = 2 \/ dl = 3 \/ dl = 4
    BY SMT
  <2> QED
    BY <1>1, <1>2, <2>1, <2>2, SMT
<1>5. \E z : least(z)
  BY <1>3, <1>4
<1>6. FirstSlice(s) = CHOOSE z : least(z)
  BY DEF FirstSlice
<1>7. least(FirstSlice(s))
  <2> HIDE DEF least
  <2> QED
    BY <1>5, <1>6
<1> QED
  BY <1>7

\* The rows of earlier groups, of this one and of its part behind the phase.
LEMMA GroupFacts ==
    ASSUME dl \in 2 .. 4, InGroup
    PROVE  /\ Row(at) \in Group /\ Row(at) \notin Reached
           /\ Passed \in SUBSET Rows /\ Group \in SUBSET Rows /\ Reached \in SUBSET Group
           /\ \A r \in Group : r \notin Passed
           /\ LastOfGroup(at) => Reached \cup {Row(at)} = Group
<1>1. t \in Int /\ lo \in Int /\ at \in Int /\ lo <= at /\ at < lo + NL /\ NL \in Nat
  BY LanesAssumption, GeometryFacts, SMT DEF InGroup, SlicesOf
<1>2. /\ Row(at) \in Rows /\ Row(at)[1] = at /\ Step(Row(at)) = t
      /\ \A r \in Rows : Step(r) = t /\ r[1] = at => r = Row(at)
  BY <1>1, RowOfSlice DEF InGroup
<1>3. \A r \in Rows : r[1] \in Int
  BY RowPair, SMT
<1>4. Row(at) \in Group /\ Row(at) \notin Reached
  BY <1>1, <1>2, SMT DEF Group, Reached
<1>5. Passed \in SUBSET Rows /\ Group \in SUBSET Rows
  BY DEF Passed, Group
<1>6. ASSUME NEW r \in Reached PROVE r \in Group
  <2>1. r \in Rows /\ Step(r) = t /\ lo <= r[1] /\ r[1] < at
    BY DEF Reached
  <2>2. r[1] < lo + NL
    BY <2>1, <1>1, <1>3, SMT
  <2> QED
    BY <2>1, <2>2 DEF Group
<1>7. ASSUME NEW r \in Group PROVE r \notin Passed
  <2>1. r \in Rows /\ Step(r) = t /\ lo <= r[1]
    BY DEF Group
  <2>2. ~ Step(r) < t /\ ~ r[1] < lo
    BY <2>1, <1>1, <1>3, SMT
  <2> QED
    BY <2>2 DEF Passed
<1>8. ASSUME LastOfGroup(at), NEW r \in Group PROVE r \in Reached \cup {Row(at)}
  <2>1. r \in Rows /\ Step(r) = t /\ lo <= r[1] /\ r[1] < lo + NL
    BY <1>8 DEF Group
  <2>2. r[1] \in SlicesOf(t)
    BY <2>1, RowStep
  <2>3. r[1] > at => at = lo + NL - 1 \/ at + 1 \in SlicesOf(t)
    <3>1. r[1] > at => at <= at + 1 /\ at + 1 <= r[1] /\ at + 1 \in Int
      BY <2>1, <1>1, <1>3, SMT
    <3> QED
      BY <3>1, <2>2, <1>1, SliceFacts DEF InGroup
  <2>4. ~ r[1] > at
    BY <2>1, <2>3, <1>1, <1>3, <1>8, SMT DEF LastOfGroup, LastOfStep
  <2>5. r[1] < at \/ r[1] = at
    BY <2>1, <2>4, <1>1, <1>3, SMT
  <2> QED
    BY <2>1, <2>5, <1>2 DEF Reached
<1> QED
  BY <1>4, <1>5, <1>6, <1>7, <1>8

\* The position after a group's row that is not its last.
LEMMA NextInGroup ==
    ASSUME dl \in 2 .. 4, dl' = dl, InGroup, ~ LastOfGroup(at),
           at' = at + 1, t' = t, lo' = lo
    PROVE  /\ InGroup' /\ at' > lo'
           /\ Passed' = Passed /\ Group' = Group /\ Reached' = Reached \cup {Row(at)}
<1>1. t \in Int /\ lo \in Int /\ at \in Int /\ lo <= at /\ at < lo + NL /\ NL \in Nat
  BY LanesAssumption, GeometryFacts, SMT DEF InGroup, SlicesOf
<1>2. at + 1 \in SlicesOf(t) /\ at + 1 < lo + NL /\ lo <= at + 1 /\ at + 1 > lo
  BY <1>1, SMT DEF LastOfGroup, LastOfStep
<1>3. \A s : SlicesOf(s)' = SlicesOf(s')
  BY DEF SlicesOf
<1>4. InGroup'
  BY <1>2 DEF InGroup, SlicesOf, LastStep
<1>5. Passed' = Passed /\ Group' = Group
  BY DEF Passed, Group, Step
<1>6. Reached' = {r \in Rows : Step(r) = t /\ lo <= r[1] /\ r[1] < at + 1}
  BY DEF Reached, Step
<1>7. /\ Row(at) \in Rows /\ Row(at)[1] = at /\ Step(Row(at)) = t
      /\ \A r \in Rows : Step(r) = t /\ r[1] = at => r = Row(at)
  BY <1>1, RowOfSlice DEF InGroup
<1>8. \A r \in Rows : r[1] < at + 1 <=> (r[1] < at \/ r[1] = at)
  BY <1>1, RowPair, SMT
<1>9. Reached' = Reached \cup {Row(at)}
  BY <1>1, <1>6, <1>7, <1>8 DEF Reached
<1> QED
  BY <1>2, <1>4, <1>5, <1>9

\* The position at the start of the group's next phase.
LEMMA FirstInGroup ==
    ASSUME dl \in 2 .. 4, dl' = dl, InGroup, at' = lo, t' = t, lo' = lo
    PROVE  /\ InGroup'
           /\ Passed' = Passed /\ Group' = Group /\ Reached' = {}
<1>1. t \in Int /\ lo \in Int /\ NL \in Nat /\ NL >= 1
  BY LanesAssumption, GeometryFacts, SMT DEF InGroup, SlicesOf
<1>2. lo <= lo /\ lo < lo + NL
  BY <1>1, SMT
<1>3. InGroup'
  BY <1>2 DEF InGroup, SlicesOf, LastStep
<1>4. Passed' = Passed /\ Group' = Group
  BY DEF Passed, Group, Step
<1>5. \A r \in Rows : ~ (lo <= r[1] /\ r[1] < lo)
  BY <1>1, RowPair, SMT
<1>6. Reached' = {}
  BY <1>5 DEF Reached
<1> QED
  BY <1>3, <1>4, <1>6

\* A phase's loop.
LEMMA LoopFacts ==
    ASSUME dl \in 2 .. 4, dl' = dl, InGroup, NEW following, Loop(following)
    PROVE  /\ InGroup' /\ Passed' = Passed /\ Group' = Group /\ t' = t
           /\ \/ /\ pc' = following /\ Reached' = {} /\ at' = lo'
                 /\ Reached \cup {Row(at)} = Group
              \/ /\ pc' = pc /\ Reached' = Reached \cup {Row(at)} /\ at' > lo'
<1>1. t' = t /\ lo' = lo
  BY DEF Loop
<1>2. CASE LastOfGroup(at)
  <2>1. pc' = following /\ at' = lo
    BY <1>2 DEF Loop
  <2> QED
    BY <1>1, <1>2, <2>1, FirstInGroup, GroupFacts
<1>3. CASE ~ LastOfGroup(at)
  <2>1. pc' = pc /\ at' = at + 1
    BY <1>3 DEF Loop
  <2> QED
    BY <1>1, <1>3, <2>1, NextInGroup
<1> QED
  BY <1>2, <1>3

\* The loop of a group's last phase: after the group every row of it has passed,
\* and after the last group of the last step every row of the volume.
LEMMA LoopGroupsFacts ==
    ASSUME dl \in 2 .. 4, dl' = dl, InGroup, NEW first, NEW after,
           LoopGroups(first, after)
    PROVE  \/ /\ InGroup' /\ Passed' = Passed /\ Group' = Group /\ t' = t
              /\ pc' = pc /\ Reached' = Reached \cup {Row(at)} /\ at' > lo'
           \/ /\ InGroup' /\ Passed' = Passed \cup Group /\ t' \in Int /\ t <= t'
              /\ pc' = first /\ Reached' = {} /\ at' = lo'
              /\ Reached \cup {Row(at)} = Group
           \/ /\ pc' = after /\ Passed \cup Group = Rows /\ at' = 0 /\ lo' = 0
              /\ Reached \cup {Row(at)} = Group
<1>1. /\ t \in Int /\ lo \in Int /\ at \in Int /\ lo <= at /\ at < lo + NL
      /\ NL \in Nat /\ NL >= 1
  BY LanesAssumption, GeometryFacts, SMT DEF InGroup, SlicesOf
<1>2. \A r \in Rows : /\ r[1] \in Int /\ Step(r) \in Int /\ Step(r) <= LastStep
                      /\ r[1] \in SlicesOf(Step(r))
  <2> TAKE r \in Rows
  <2>1. r[1] \in Int
    BY RowPair, SMT
  <2> QED
    BY <2>1, RowStep, SMT
<1>3. CASE ~ LastOfGroup(at)
  <2>1. pc' = pc /\ t' = t /\ lo' = lo /\ at' = at + 1
    BY <1>3 DEF LoopGroups
  <2> QED
    BY <1>3, <2>1, NextInGroup
<1>4. CASE LastOfGroup(at) /\ ~ LastOfStep(at)
  <2>1. pc' = first /\ t' = t /\ lo' = at + 1 /\ at' = at + 1
    BY <1>4 DEF LoopGroups
  <2>2. at + 1 = lo + NL
    BY <1>1, <1>4, SMT DEF LastOfGroup
  <2>3. at + 1 \in SlicesOf(t) /\ at + 1 <= at + 1 /\ at + 1 < at + 1 + NL
    BY <1>1, <1>4, SMT DEF LastOfStep
  <2>4. InGroup'
    BY <2>1, <2>3 DEF InGroup, SlicesOf, LastStep
  <2>5. \A r \in Rows : ~ (at + 1 <= r[1] /\ r[1] < at + 1)
    BY <1>1, <1>2, SMT
  <2>6. Reached' = {}
    BY <2>1, <2>5 DEF Reached
  <2>7. \A r \in Rows : r[1] < at + 1 <=> (r[1] < lo \/ (lo <= r[1] /\ r[1] < lo + NL))
    BY <1>1, <1>2, <2>2, SMT
  <2>8. Passed' = {r \in Rows : Step(r) < t \/ (Step(r) = t /\ r[1] < at + 1)}
    BY <2>1 DEF Passed, Step
  <2>9. Passed' = Passed \cup Group
    BY <2>7, <2>8 DEF Passed, Group
  <2> QED
    BY <1>1, <1>4, <2>1, <2>4, <2>6, <2>9, GroupFacts
<1>5. ASSUME LastOfGroup(at), LastOfStep(at), NEW r \in Rows
      PROVE  r \in Passed \cup Group <=> Step(r) <= t
  <2>1. Step(r) = t => r[1] <= at
    <3>1. SUFFICES ASSUME Step(r) = t, r[1] > at PROVE FALSE
      BY <1>1, <1>2, SMT
    <3>2. at <= at + 1 /\ at + 1 <= r[1] /\ at + 1 \in Int
      BY <3>1, <1>1, <1>2, SMT
    <3>3. r[1] \in SlicesOf(t)
      BY <3>1, <1>2
    <3>4. at + 1 \in SlicesOf(t)
      BY <3>2, <3>3, <1>1, SliceFacts DEF InGroup
    <3> QED
      BY <3>4, <1>5 DEF LastOfStep
  <2>2. Step(r) = t => (r[1] < lo \/ (lo <= r[1] /\ r[1] < lo + NL))
    BY <2>1, <1>1, <1>2, SMT
  <2>3. Step(r) <= t <=> (Step(r) < t \/ Step(r) = t)
    BY <1>1, <1>2, SMT
  <2> QED
    BY <2>2, <2>3 DEF Passed, Group
<1>6. CASE LastOfGroup(at) /\ LastOfStep(at) /\ t < LastStep
  <2> DEFINE f == FirstSlice(t + 1)
  <2>1. pc' = first /\ t' = t + 1 /\ lo' = f /\ at' = f
    BY <1>6 DEF LoopGroups
  <2>2. t + 1 \in 0 .. LastStep
    BY <1>1, <1>6, GeometryFacts, SMT DEF InGroup, LastStep
  <2>3. f \in SlicesOf(t + 1) /\ \A w \in SlicesOf(t + 1) : f <= w
    BY <2>2, FirstSliceFacts
  <2>4. f \in Int
    BY <2>3, GeometryFacts, SMT DEF SlicesOf
  <2> HIDE DEF f
  <2>5. f <= f /\ f < f + NL
    BY <1>1, <2>4, SMT
  <2>6. InGroup'
    BY <2>1, <2>2, <2>3, <2>5 DEF InGroup, SlicesOf, LastStep
  <2>7. \A r \in Rows : ~ (f <= r[1] /\ r[1] < f)
    BY <2>4, <1>2, SMT
  <2>8. Reached' = {}
    BY <2>1, <2>7 DEF Reached
  <2>9. ASSUME NEW r \in Rows
        PROVE  (Step(r) < t + 1 \/ (Step(r) = t + 1 /\ r[1] < f)) <=> Step(r) <= t
    <3>1. Step(r) < t + 1 <=> Step(r) <= t
      BY <1>1, <1>2, SMT
    <3>2. Step(r) = t + 1 => f <= r[1]
      BY <1>2, <2>3
    <3>3. Step(r) = t + 1 => ~ r[1] < f
      BY <3>2, <1>2, <2>4, SMT
    <3> QED
      BY <3>1, <3>3
  <2>10. Passed' = {r \in Rows : Step(r) < t + 1 \/ (Step(r) = t + 1 /\ r[1] < f)}
    BY <2>1 DEF Passed, Step
  <2>11. Passed \in SUBSET Rows /\ Group \in SUBSET Rows
    BY DEF Passed, Group
  <2>12. \A r \in Rows : r \in Passed' <=> r \in Passed \cup Group
    BY <2>9, <2>10, <1>5, <1>6
  <2>13. Passed' = Passed \cup Group
    BY <2>10, <2>11, <2>12
  <2>14. t' \in Int /\ t <= t'
    BY <1>1, <2>1, SMT
  <2> QED
    BY <1>6, <2>1, <2>6, <2>8, <2>13, <2>14, GroupFacts
<1>7. CASE LastOfGroup(at) /\ LastOfStep(at) /\ ~ t < LastStep
  <2>1. pc' = after /\ at' = 0 /\ lo' = 0
    BY <1>7 DEF LoopGroups
  <2>2. LastStep \in Int
    BY GeometryFacts, SMT DEF LastStep
  <2>3. ASSUME NEW r \in Rows PROVE Step(r) <= t
    BY <1>1, <1>2, <1>7, <2>2, SMT
  <2>4. \A r \in Rows : r \in Passed \cup Group
    BY <2>3, <1>5, <1>7
  <2>5. Passed \cup Group = Rows
    BY <2>4 DEF Passed, Group
  <2> QED
    BY <1>7, <2>1, <2>5, GroupFacts
<1> QED
  BY <1>3, <1>4, <1>6, <1>7

-----------------------------------------------------------------------------
(* What a row reads.                                                       *)

\* Which rows have passed.
LEMMA PassedMember ==
    ASSUME NEW i \in 0 .. Z-1, NEW j \in 0 .. Y-1
    PROVE  (<<i, j>> \in Passed) <=> (j + dl * i < t \/ (j + dl * i = t /\ i < lo))
<1>1. <<i, j>> \in Rows
  BY RowCell
<1>2. <<i, j>>[1] = i /\ Step(<<i, j>>) = j + dl * i
  BY DEF Step
<1> QED
  BY <1>1, <1>2, Zenon DEF Passed

\* A tap that reaches less than the slope ahead, in a slice before, sees rows that
\* have passed, and in the pads before slice 0 no row raster order lacks.
LEMMA WaveSettled ==
    ASSUME dl \in 2 .. 4, InGroup, NEW tap \in TapBox, tap # <<0, 0, "left">>,
           tap[1] < 0 => tap[2] <= dl - 1
    PROVE  Settled(Passed, Reached \cup {Row(at)}, at, t - dl * at,
                   at + tap[1], t - dl * at + tap[2])
<1> DEFINE z == at
           y == t - dl * at
           a == at + tap[1]
           q == t - dl * at + tap[2]
           src == IF a < 0 THEN 0 ELSE a
<1> USE GeometryFacts
<1>1. t \in Int /\ lo \in 0 .. Z-1 /\ lo <= at
  BY SMT DEF InGroup, SlicesOf
<1>2. z \in 0 .. Z-1 /\ y \in 0 .. Y-1 /\ Row(at) = <<z, y>>
  BY <1>1, RowOfSlice DEF InGroup
<1>3. \/ tap[1] = 0 /\ tap[2] \in -3 .. -1
      \/ tap[1] \in {-1, -2} /\ tap[2] \in -3 .. 3
  BY DEF TapBox
<1>4. dl = 2 \/ dl = 3 \/ dl = 4
  BY SMT
<1>5. q \in 0 .. Y-1 =>
        IF a < z /\ z = 0 THEN (<<0, q>> \in Passed) <=> q < y
        ELSE <<src, q>> \in Passed
  <2> SUFFICES ASSUME q \in 0 .. Y-1
               PROVE  IF a < z /\ z = 0 THEN (<<0, q>> \in Passed) <=> q < y
                      ELSE <<src, q>> \in Passed
    OBVIOUS
  <2>1. CASE a < z /\ z = 0
    <3>1. (<<0, q>> \in Passed) <=> (q + dl * 0 < t \/ (q + dl * 0 = t /\ 0 < lo))
      BY PassedMember, SMT
    <3>2. (q + dl * 0 < t \/ (q + dl * 0 = t /\ 0 < lo)) <=> q < y
      BY <1>1, <1>2, <1>4, <2>1, SMT
    <3> QED
      BY <2>1, <3>1, <3>2
  <2>2. CASE ~ (a < z /\ z = 0)
    <3>1. src \in 0 .. Z-1 /\ q + dl * src < t
      BY <1>1, <1>2, <1>3, <1>4, <2>2, SMT
    <3> HIDE DEF src, q
    <3>2. <<src, q>> \in Passed
      BY <3>1, PassedMember
    <3> QED
      BY <2>2, <3>2
  <2> QED
    BY <2>1, <2>2
<1>6. q >= Y => IF z = 0 THEN <<0, Y-1>> \notin Passed ELSE <<src, Y-1>> \in Passed
  <2> SUFFICES ASSUME q >= Y
               PROVE  IF z = 0 THEN <<0, Y-1>> \notin Passed ELSE <<src, Y-1>> \in Passed
    OBVIOUS
  <2>0. Y-1 \in 0 .. Y-1
    BY SMT
  <2>1. CASE z = 0
    <3>1. (<<0, Y-1>> \in Passed) <=> (Y-1 + dl * 0 < t \/ (Y-1 + dl * 0 = t /\ 0 < lo))
      BY <2>0, PassedMember, SMT
    <3>2. ~ (Y-1 + dl * 0 < t \/ (Y-1 + dl * 0 = t /\ 0 < lo))
      BY <1>1, <1>2, <1>4, <2>1, SMT
    <3> QED
      BY <2>1, <3>1, <3>2
  <2>2. CASE z # 0
    <3>1. src \in 0 .. Z-1 /\ Y-1 + dl * src < t
      BY <1>1, <1>2, <1>3, <1>4, <2>2, SMT
    <3> HIDE DEF src, q
    <3>2. <<src, Y-1>> \in Passed
      BY <2>0, <3>1, PassedMember
    <3> QED
      BY <2>2, <3>2
  <2> QED
    BY <2>1, <2>2
<1>7. q < 0 /\ a > 0 => <<a, 0>> \in Passed \cup (Reached \cup {Row(at)})
  <2> SUFFICES ASSUME q < 0, a > 0
               PROVE  <<a, 0>> \in Passed \cup (Reached \cup {Row(at)})
    OBVIOUS
  <2>1. a \in 0 .. Z-1 /\ 0 \in 0 .. Y-1 /\ (0 + dl * a < t \/ (a = z /\ y = 0))
    BY <1>1, <1>2, <1>3, <1>4, SMT
  <2>2. CASE 0 + dl * a < t
    <3> HIDE DEF a
    <3>1. <<a, 0>> \in Passed
      BY <2>1, <2>2, PassedMember
    <3> QED
      BY <3>1
  <2>3. CASE a = z /\ y = 0
    BY <2>3, <1>2
  <2> QED
    BY <2>1, <2>2, <2>3
<1> HIDE DEF z, y, a, q
<1>8. Settled(Passed, Reached \cup {Row(at)}, z, y, a, q)
  BY <1>5, <1>6, <1>7 DEF Settled
<1> QED
  BY <1>8 DEF z, y, a, q

\* A row begun after the rows passed: the buffer it leaves, and what it shows.
LEMMA BegunRow ==
    ASSUME dl \in 2 .. 4, InGroup
    PROVE  LET z == at  y == t - dl * at
               begun == Contents(Passed, Reached \cup {Row(at)}) IN
           /\ RowBegin(Contents(Passed, Reached), z, y) = begun
           /\ \A T \in SUBSET TapBox :
                 (\A tap \in T : tap[1] < 0 => tap[2] <= dl - 1)
                   => View(begun, z, y, T) = RasterView(z, y, T)
<1> DEFINE z == at
           y == t - dl * at
           open == Reached \cup {Row(at)}
           begun == Contents(Passed, open)
<1>1. t \in Int /\ lo \in 0 .. Z-1 /\ lo <= at
  BY GeometryFacts, SMT DEF InGroup, SlicesOf
<1>2. z \in 0 .. Z-1 /\ y \in 0 .. Y-1 /\ Row(at) = <<z, y>>
  BY <1>1, RowOfSlice DEF InGroup
<1>3. dl = 2 \/ dl = 3 \/ dl = 4
  BY SMT
<1>4. /\ Passed \in SUBSET Rows /\ Reached \in SUBSET Rows /\ open \in SUBSET Rows
      /\ <<z, y>> \notin Passed /\ <<z, y>> \notin Reached
  BY <1>2, GroupFacts
<1>5. y > 0 => <<z, y-1>> \in Passed
  <2> SUFFICES ASSUME y > 0 PROVE <<z, y-1>> \in Passed
    OBVIOUS
  <2>1. y-1 \in 0 .. Y-1 /\ (y-1) + dl * z < t
    BY <1>1, <1>2, <1>3, GeometryFacts, SMT
  <2> HIDE DEF z, y
  <2> QED
    BY <1>2, <2>1, PassedMember
<1>6. y = 0 /\ z > 0 => <<z-1, 0>> \in Passed
  <2> SUFFICES ASSUME y = 0, z > 0 PROVE <<z-1, 0>> \in Passed
    OBVIOUS
  <2>1. z-1 \in 0 .. Z-1 /\ 0 \in 0 .. Y-1 /\ 0 + dl * (z-1) < t
    BY <1>1, <1>2, <1>3, GeometryFacts, SMT
  <2> HIDE DEF z, y
  <2> QED
    BY <2>1, PassedMember
<1>7. RowBegin(Contents(Passed, Reached), z, y) = begun
  <2> HIDE DEF z, y
  <2>0. <<z, y>> \notin Passed \cup Reached
    BY <1>4
  <2>1. RowBegin(Contents(Passed, Reached), z, y) = Contents(Passed, Reached \cup {<<z, y>>})
    <3>1. z \in 0 .. Z-1 /\ y \in 0 .. Y-1
      BY <1>2
    <3>2. Passed \in SUBSET Rows /\ Reached \in SUBSET Rows
      BY <1>4
    <3> QED
      BY <3>1, <3>2, <1>5, <1>6, <2>0, BeginContents
  <2> QED
    BY <2>1, <1>2
<1>8. ASSUME NEW T \in SUBSET TapBox, \A tap \in T : tap[1] < 0 => tap[2] <= dl - 1
      PROVE  View(begun, z, y, T) = RasterView(z, y, T)
  <2>1. begun[<<z, y>>]["left"] = Above(z, y)
    <3> HIDE DEF z, y
    <3> QED
      BY <1>2, <1>4, OpenLeft
  <2>2. \A tap \in T : tap # <<0, 0, "left">> =>
          Settled(Passed, open, z, y, z + tap[1], y + tap[2])
    BY <1>8, WaveSettled
  <2>3. \A c \in Cells : c # <<z, y>> => begun[c] = Contents(Passed, open)[c]
    OBVIOUS
  <2> HIDE DEF z, y, open, begun
  <2> QED
    BY <1>2, <1>4, <1>8, <2>1, <2>2, <2>3, SettledView
<1> QED
  BY <1>7, <1>8

\* The taps of the used models stay within the slope, and so does the stencil.
LEMMA TapsWithinSlope ==
    ASSUME models \in SUBSET Radii, dl = DecoderDelta(models), NEW z \in 0 .. Z-1
    PROVE  /\ dl \in 2 .. 4
           /\ DecoderTaps(z) \in SUBSET TapBox
           /\ \A tap \in DecoderTaps(z) : tap[1] < 0 => tap[2] <= dl - 1
           /\ ActivityTaps \in SUBSET TapBox
           /\ \A tap \in ActivityTaps : tap[1] < 0 => tap[2] <= dl - 1
<1>1. dl \in 2 .. 4 /\ \A m \in models : Delta(m) <= dl
  BY SlopeIsLargest
<1>2. DecoderTaps(z) \in SUBSET TapBox
  BY TapsInBox DEF DecoderTaps
<1>3. ASSUME NEW tap \in DecoderTaps(z), tap[1] < 0 PROVE tap[2] <= dl - 1
  <2>1. PICK m \in models : tap \in UsedTaps(m, z)
    BY DEF DecoderTaps
  <2>2. tap \in Taps(m)
    BY <2>1 DEF UsedTaps
  <2>3. \/ tap \in {-1} \X (-m.r1 .. m.r1) \X SidesWithin(m.r1)
        \/ tap \in {-2} \X (-m.r2 .. m.r2) \X SidesWithin(m.r2)
    <3>1. tap[1] # 0
      BY <1>3, SMT
    <3>2. tap # <<0, 0, "left">> /\ tap \notin {0} \X (-m.r0 .. -1) \X SidesWithin(m.r0)
      BY <3>1
    <3> QED
      BY <2>2, <3>2 DEF Taps
  <2>4. m.r1 \in -1 .. 3 /\ m.r2 \in -1 .. 3
    BY DEF Radii
  <2>5. \/ tap[2] \in Int /\ tap[2] <= m.r1
        \/ tap[2] \in Int /\ tap[2] <= m.r2
    BY <2>3, <2>4, SMT
  <2>6. /\ Reach(m) \in -1 .. 3 /\ Delta(m) \in 2 .. 4
        /\ m.r1 <= Reach(m) /\ m.r2 <= Reach(m)
        /\ Delta(m) = IF Reach(m) > 1 THEN Reach(m) + 1 ELSE 2
    BY ModelSlope
  <2>7. Delta(m) <= dl
    BY <1>1
  <2> QED
    BY <1>1, <2>4, <2>5, <2>6, <2>7, SMT
<1>4. \A tap \in ActivityTaps : tap[1] < 0 => tap[2] <= 1
  BY SMT DEF ActivityTaps
<1>5. \A tap \in ActivityTaps : tap[2] \in Int
  BY SMT DEF ActivityTaps
<1>6. \A tap \in ActivityTaps : tap[1] < 0 => tap[2] <= dl - 1
  BY <1>1, <1>4, <1>5, SMT
<1> QED
  BY <1>1, <1>2, <1>3, <1>6, TapsInBox

-----------------------------------------------------------------------------
(* The wave history.                                                       *)

\* A plane has the dummy lane, one per slice and room for a store past the last.
LEMMA StrideRoom == Stride \in Int /\ Stride >= Z + NL
<1> DEFINE n == Z + 3 * NL - 1
           m == 2 * NL
<1>1. n \in Nat /\ m \in Nat /\ m > 0
  BY GeometryFacts, LanesAssumption, SMT
<1>2. \A i \in Nat, k \in Nat : k > 0 => (i \div k) \in Int /\ (i \div k) * k > i - k
  BY SMT
<1> HIDE DEF n, m
<1>3. (n \div m) * m \in Int /\ (n \div m) * m > n - m
  BY <1>1, <1>2, SMT
<1>4. Stride = (n \div m) * m
  BY DEF Stride, n, m
<1>5. n - m = Z + NL - 1
  BY GeometryFacts, LanesAssumption, SMT DEF n, m
<1> QED
  BY <1>3, <1>4, <1>5, GeometryFacts, LanesAssumption, SMT

\* A full vector stored for the last slice ends inside the plane.
LEMMA SliceLane ==
    ASSUME NEW z \in 0 .. Z-1
    PROVE  z + 1 \in Lanes /\ z + NL <= Stride - 1
BY StrideRoom, GeometryFacts, LanesAssumption, SMT DEF Lanes

\* A plane serves one step of every dl + 2.
LEMMA PlaneFacts ==
    ASSUME dl \in 2 .. 4, NEW s \in Int
    PROVE  /\ Plane(s) \in 0 .. Depth - 1
           /\ Plane(s + Depth) = Plane(s)
           /\ \A u \in Int : s < u /\ u < s + Depth => Plane(s) # Plane(u)
<1>1. CASE dl = 2
  BY <1>1, SMT DEF Plane, Depth
<1>2. CASE dl = 3
  BY <1>2, SMT DEF Plane, Depth
<1>3. CASE dl = 4
  BY <1>3, SMT DEF Plane, Depth
<1> QED
  BY <1>1, <1>2, <1>3, SMT

-----------------------------------------------------------------------------
(* The invariant, action by action.                                        *)

\* The slope, and the row a wave's phase is at.
LEMMA AtRow ==
    ASSUME TypeOK, Position
    PROVE  /\ models \in SUBSET Radii /\ dl = DecoderDelta(models) /\ dl \in 2 .. 4
           /\ pc \in Waves =>
                /\ InGroup
                /\ at \in 0 .. Z-1 /\ t - dl * at \in 0 .. Y-1
                /\ Row(at) = <<at, t - dl * at>> /\ Row(at) \in Rows
                /\ Row(at) \in Group /\ Row(at) \notin Passed /\ Row(at) \notin Reached
<1>1. models \in SUBSET Radii /\ dl = DecoderDelta(models)
  BY ModelSetsAssumption DEF TypeOK
<1>2. dl \in 2 .. 4
  BY <1>1, SlopeIsLargest
<1>3. ASSUME pc \in Waves
      PROVE  /\ InGroup
             /\ at \in 0 .. Z-1 /\ t - dl * at \in 0 .. Y-1
             /\ Row(at) = <<at, t - dl * at>> /\ Row(at) \in Rows
             /\ Row(at) \in Group /\ Row(at) \notin Passed /\ Row(at) \notin Reached
  <2>1. InGroup
    BY <1>3 DEF Position
  <2>2. t \in Int
    BY <2>1, GeometryFacts, <1>2, SMT DEF InGroup, LastStep
  <2>3. at \in SlicesOf(t)
    BY <2>1 DEF InGroup
  <2> QED
    BY <2>1, <2>2, <2>3, <1>2, RowOfSlice, GroupFacts
<1> QED
  BY <1>1, <1>2, <1>3

\* Before the first group nothing is known.
LEMMA InitWave == Init => WaveInv
<1> SUFFICES ASSUME Init PROVE WaveInv
  OBVIOUS
<1>1. TypeOK
  BY DEF Init, TypeOK, Waves
<1>2. models \in SUBSET Radii /\ dl \in 2 .. 4 /\ pc = "start" /\ t = 0 /\ lo = 0 /\ at = 0
  BY ModelSetsAssumption, SlopeIsLargest DEF Init
<1>3. 0 \in 0 .. LastStep /\ 0 \in SlicesOf(0)
  <2>1. dl = 2 \/ dl = 3 \/ dl = 4
    BY <1>2, SMT
  <2>2. 0 \in 0 .. LastStep /\ 0 \in 0 .. Z-1 /\ 0 - dl * 0 \in 0 .. Y-1
    BY <2>1, GeometryFacts, SMT DEF LastStep
  <2> QED
    BY <2>2 DEF SlicesOf
<1>4. Position
  <2>1. 0 <= 0 /\ 0 < 0 + NL
    BY LanesAssumption, SMT
  <2> QED
    BY <1>2, <1>3, <2>1 DEF Position, InGroup, Waves
<1>5. \A r \in Rows : ~ Step(r) < 0 /\ ~ r[1] < 0
  <2> TAKE r \in Rows
  <2>1. Step(r) \in 0 .. LastStep
    BY <1>2, RowStep
  <2>2. r[1] \in 0 .. Z-1
    BY RowPair
  <2> QED
    BY <2>1, <2>2, SMT
<1>6. Passed = {} /\ Reached = {}
  BY <1>2, <1>5 DEF Passed, Reached
<1>7. Voxels /\ Errors
  BY <1>2, <1>6, FreshContents DEF Init, Voxels, Errors
<1>8. Output /\ Classed /\ History
  BY <1>2, <1>6 DEF Init, Output, Restored, Classed, Begun, History, Stored, Waves
<1>9. PredictionReadsAgree /\ ClassReadsAgree /\ BaseReadsAgree
  BY DEF Init, PredictionReadsAgree, ClassReadsAgree, BaseReadsAgree
<1> QED
  BY <1>1, <1>4, <1>7, <1>8, <1>9 DEF WaveInv

\* The first group begins once the slopes agree.
LEMMA StartWave == ASSUME WaveInv, Start PROVE WaveInv'
<1>1. TypeOK /\ Position /\ pc = "start"
  BY DEF WaveInv, Start
<1>2. /\ UNCHANGED <<models, path, dl, t, lo, at, b, e, out, ring, readB, readE, readBase>>
      /\ pc' = "begin"
  BY <1>1, AtRow, SlopeOfEntropyModel DEF Start
<1>3. Passed' = Passed /\ Reached' = Reached /\ Group' = Group
  BY <1>2 DEF Passed, Reached, Group, Step
<1>4. TypeOK'
  BY <1>1, <1>2 DEF TypeOK, Waves, Depth, Lanes
<1>5. Position'
  BY <1>1, <1>2 DEF Position, InGroup, Waves, SlicesOf, LastStep
<1>6. Voxels' /\ Errors'
  BY <1>1, <1>2, <1>3 DEF WaveInv, Voxels, Errors
<1>7. Output' /\ Classed'
  BY <1>1, <1>2, <1>3 DEF WaveInv, Output, Restored, Classed, Begun, Waves
<1>8. History'
  BY <1>1, <1>2, <1>3 DEF WaveInv, History, Stored, Waves, Step, Plane, Depth
<1>9. PredictionReadsAgree' /\ ClassReadsAgree' /\ BaseReadsAgree'
  BY <1>2 DEF WaveInv, PredictionReadsAgree, ClassReadsAgree, BaseReadsAgree, DecoderTaps
<1> QED
  BY <1>4, <1>5, <1>6, <1>7, <1>8, <1>9 DEF WaveInv

\* Beginning a row enters its top and left pads, and it reads what the group's step determines.
LEMMA BeginRowWave == ASSUME WaveInv, BeginRow PROVE WaveInv'
<1> DEFINE z == at
           y == t - dl * at
           begun == Contents(Passed, Reached \cup {Row(at)})
<1>1. /\ TypeOK /\ Position /\ pc = "begin" /\ Loop("errors")
      /\ UNCHANGED <<models, path, dl, out, ring, readBase>>
  BY DEF WaveInv, BeginRow
<1>2. /\ dl \in 2 .. 4 /\ dl' = dl /\ InGroup
      /\ z \in 0 .. Z-1 /\ Row(at) = <<z, y>> /\ Row(at) \in Rows
  BY <1>1, AtRow DEF Waves
<1>3. e = Contents(Passed, Reached) /\ (path # "delta" => b = Contents(Passed, Reached))
      /\ (path = "delta" => b = Fresh)
  BY <1>1 DEF WaveInv, Voxels, Errors
<1>4. /\ RowBegin(Contents(Passed, Reached), z, y) = begun
      /\ View(begun, z, y, DecoderTaps(z)) = RasterView(z, y, DecoderTaps(z))
      /\ View(begun, z, y, ActivityTaps) = RasterView(z, y, ActivityTaps)
  <2>1. /\ DecoderTaps(z) \in SUBSET TapBox
        /\ \A tap \in DecoderTaps(z) : tap[1] < 0 => tap[2] <= dl - 1
        /\ ActivityTaps \in SUBSET TapBox
        /\ \A tap \in ActivityTaps : tap[1] < 0 => tap[2] <= dl - 1
    BY <1>1, <1>2, AtRow, TapsWithinSlope
  <2> QED
    BY <1>2, <2>1, BegunRow
<1>5. e' = begun /\ (path # "delta" => b' = begun) /\ (path = "delta" => b' = Fresh)
  BY <1>3, <1>4 DEF BeginRow
<1>6. readE' = [readE EXCEPT ![Row(at)] = RasterView(z, y, ActivityTaps)]
  <2>1. readE' = [readE EXCEPT ![<<z, y>>] = View(RowBegin(e, z, y), z, y, ActivityTaps)]
    BY DEF BeginRow
  <2> QED
    BY <2>1, <1>2, <1>3, <1>4
<1>7. readB' = [readB EXCEPT ![Row(at)] = RasterView(z, y, DecoderTaps(z))]
  <2>1. readB' = [readB EXCEPT ![<<z, y>>] =
                    View(IF path = "delta" THEN b ELSE RowBegin(b, z, y), z, y, DecoderTaps(z))]
    BY DEF BeginRow
  <2>2. CASE path # "delta"
    BY <2>1, <2>2, <1>2, <1>3, <1>4
  <2>3. CASE path = "delta"
    <3>1. DecoderTaps(z) = {}
      BY <2>3, <1>1 DEF TypeOK, DecoderTaps
    <3>2. \A any : View(any, z, y, {}) = RasterView(z, y, {})
      BY DEF View, RasterView
    <3> QED
      BY <2>1, <2>3, <1>2, <3>1, <3>2
  <2> QED
    BY <2>2, <2>3
<1>8. /\ InGroup' /\ Passed' = Passed /\ Group' = Group /\ t' = t
      /\ \/ /\ pc' = "errors" /\ Reached' = {} /\ at' = lo'
            /\ Reached \cup {Row(at)} = Group
         \/ /\ pc' = "begin" /\ Reached' = Reached \cup {Row(at)} /\ at' > lo'
  BY <1>1, <1>2, LoopFacts
<1>9. TypeOK'
  <2>1. readB' = [r \in Rows |-> readB'[r]] /\ readE' = [r \in Rows |-> readE'[r]]
    BY <1>1, <1>6, <1>7 DEF TypeOK
  <2>2. pc' \in Waves /\ pc' \notin {"base", "publish", "restore"}
    BY <1>8 DEF Waves
  <2> QED
    BY <1>1, <2>1, <2>2 DEF TypeOK, Depth, Lanes
<1>10. Position'
  BY <1>8 DEF Position
<1>11. Voxels' /\ Errors'
  <2>1. CASE pc' = "errors"
    <3>1. Passed \cup {} = Passed
      OBVIOUS
    <3> QED
      BY <2>1, <3>1, <1>1, <1>5, <1>8 DEF Voxels, Errors
  <2>2. CASE pc' = "begin"
    BY <2>2, <1>1, <1>5, <1>8 DEF Voxels, Errors
  <2> QED
    BY <2>1, <2>2, <1>8
<1>12. Output'
  BY <1>1, <1>8 DEF WaveInv, Output, Restored
<1>13. Classed'
  <2> SUFFICES ASSUME NEW r \in Passed \cup Reached \cup {Row(at)}
               PROVE  readE'[r] # Unread
    BY <1>8 DEF Classed, Begun, Waves
  <2>1. CASE r = Row(at)
    <3>1. readE'[r] = RasterView(z, y, ActivityTaps)
      BY <2>1, <1>1, <1>2, <1>6 DEF TypeOK
    <3>2. DOMAIN RasterView(z, y, ActivityTaps) = ActivityTaps
      BY DEF RasterView, View
    <3>3. <<0, -2, "mid">> \in ActivityTaps
      BY DEF ActivityTaps
    <3>4. DOMAIN Unread = {}
      BY DEF Unread
    <3> QED
      BY <3>1, <3>2, <3>3, <3>4
  <2>2. CASE r # Row(at)
    <3>1. r \in Rows
      BY <1>2, GroupFacts
    <3>2. readE'[r] = readE[r]
      BY <2>2, <3>1, <1>1, <1>6 DEF TypeOK
    <3> QED
      BY <2>2, <3>2, <1>1 DEF WaveInv, Classed, Begun
  <2> QED
    BY <2>1, <2>2
<1>14. History'
  BY <1>1, <1>8 DEF WaveInv, History, Stored, Waves, Step, Plane, Depth
<1>15. PredictionReadsAgree'
  <2> SUFFICES ASSUME NEW r \in Rows, readB'[r] # Unread
               PROVE  readB'[r] = RasterView(r[1], r[2], DecoderTaps(r[1]))
    BY <1>1 DEF PredictionReadsAgree, DecoderTaps, Unread
  <2>1. CASE r = Row(at)
    BY <2>1, <1>1, <1>2, <1>7 DEF TypeOK
  <2>2. CASE r # Row(at)
    <3>1. readB'[r] = readB[r]
      BY <2>2, <1>1, <1>7 DEF TypeOK
    <3> QED
      BY <3>1 DEF WaveInv, PredictionReadsAgree
  <2> QED
    BY <2>1, <2>2
<1>16. ClassReadsAgree'
  <2> SUFFICES ASSUME NEW r \in Rows, readE'[r] # Unread
               PROVE  readE'[r] = RasterView(r[1], r[2], ActivityTaps)
    BY DEF ClassReadsAgree, Unread
  <2>1. CASE r = Row(at)
    BY <2>1, <1>1, <1>2, <1>6 DEF TypeOK
  <2>2. CASE r # Row(at)
    <3>1. readE'[r] = readE[r]
      BY <2>2, <1>1, <1>6 DEF TypeOK
    <3> QED
      BY <3>1 DEF WaveInv, ClassReadsAgree
  <2> QED
    BY <2>1, <2>2
<1>17. BaseReadsAgree'
  BY <1>1 DEF WaveInv, BaseReadsAgree
<1> QED
  BY <1>9, <1>10, <1>11, <1>12, <1>13, <1>14, <1>15, <1>16, <1>17 DEF WaveInv

\* Errors of a row are entered with its side and bottom pads.
LEMMA ErrorRowWave == ASSUME WaveInv, ErrorRow PROVE WaveInv'
<1> DEFINE z == at
           y == t - dl * at
           known == Contents(Passed \cup Reached \cup {Row(at)}, Group)
<1>1. /\ TypeOK /\ Position /\ pc = "errors"
      /\ UNCHANGED <<models, path, dl, b, ring, readB, readE, readBase>>
  BY DEF WaveInv, ErrorRow
<1>2. /\ dl \in 2 .. 4 /\ dl' = dl /\ InGroup
      /\ z \in 0 .. Z-1 /\ y \in 0 .. Y-1 /\ Row(at) = <<z, y>> /\ Row(at) \in Group
      /\ Row(at) \notin Passed
  BY <1>1, AtRow DEF Waves
<1>3. Passed \in SUBSET Rows /\ Group \in SUBSET Rows /\ Reached \in SUBSET Rows
  BY <1>2, GroupFacts
<1>4. e' = known
  <2>1. e' = Complete(Contents(Passed \cup Reached, Group), z, y)
    BY <1>1 DEF WaveInv, Errors, ErrorRow
  <2>2. Passed \cup Reached \in SUBSET Rows
    BY <1>3
  <2>3. <<z, y>> \in Group
    BY <1>2
  <2>4. Complete(Contents(Passed \cup Reached, Group), z, y)
          = Contents(Passed \cup Reached \cup {<<z, y>>}, Group)
    <3> HIDE DEF z, y
    <3> QED
      BY <1>2, <1>3, <2>2, <2>3, CompleteContents
  <2> QED
    BY <2>1, <2>4, <1>2
<1>5. Reached \cup {Row(at)} = Group => e' = Contents(Passed \cup Group, {})
  <2>1. Passed \cup Group \in SUBSET Rows /\ Group \in SUBSET (Passed \cup Group)
    BY <1>3
  <2>2. Contents(Passed \cup Group, Group \cup {}) = Contents(Passed \cup Group, {})
    BY <2>1, OpenDone
  <2>3. Group \cup {} = Group
    OBVIOUS
  <2>4. Reached \cup {Row(at)} = Group =>
          Passed \cup Reached \cup {Row(at)} = Passed \cup Group
    OBVIOUS
  <2> QED
    BY <1>4, <2>2, <2>3, <2>4
<1>6. out' = [r \in Rows |-> out'[r]] /\ \A r \in Passed : out'[r] = out[r]
  BY <1>1, <1>2, <1>3 DEF ErrorRow, TypeOK
<1>7. PredictionReadsAgree' /\ ClassReadsAgree' /\ BaseReadsAgree'
  BY <1>1 DEF WaveInv, PredictionReadsAgree, ClassReadsAgree, BaseReadsAgree, DecoderTaps
<1>8. TypeOK'
  <2>1. CASE path = "delta"
    <3>1. LoopGroups("begin", "restore")
      BY <2>1 DEF ErrorRow
    <3>2. pc' \in {"errors", "begin", "restore"}
      BY <3>1, <1>1, <1>2, LoopGroupsFacts
    <3> QED
      BY <2>1, <3>2, <1>1, <1>6 DEF TypeOK, Depth, Lanes, Waves
  <2>2. CASE path # "delta"
    <3>1. Loop("base")
      BY <2>2 DEF ErrorRow
    <3>2. pc' \in {"errors", "base"}
      BY <3>1, <1>1, <1>2, LoopFacts
    <3> QED
      BY <2>2, <3>2, <1>1, <1>6 DEF TypeOK, Depth, Lanes, Waves
  <2> QED
    BY <2>1, <2>2
<1>9. CASE path # "delta"
  <2>1. Loop("base") /\ path' # "delta"
    BY <1>1, <1>9 DEF ErrorRow
  <2>2. /\ InGroup' /\ Passed' = Passed /\ Group' = Group /\ t' = t
        /\ \/ /\ pc' = "base" /\ Reached' = {} /\ at' = lo'
              /\ Reached \cup {Row(at)} = Group
           \/ /\ pc' = "errors" /\ Reached' = Reached \cup {Row(at)} /\ at' > lo'
    BY <2>1, <1>1, <1>2, LoopFacts
  <2>3. Position'
    BY <2>2 DEF Position
  <2>4. Voxels'
    BY <1>1, <1>9, <2>2 DEF WaveInv, Voxels
  <2>5. Errors'
    <3>1. CASE pc' = "base"
      BY <3>1, <2>2, <1>5 DEF Errors
    <3>2. CASE pc' = "errors"
      <4>1. Passed' \cup Reached' = Passed \cup Reached \cup {Row(at)}
        BY <3>2, <2>2
      <4> QED
        BY <3>2, <4>1, <2>2, <1>4 DEF Errors
    <3> QED
      BY <3>1, <3>2, <2>2
  <2>6. Output'
    <3>1. Restored' = Passed /\ Restored = Passed
      BY <1>1, <1>9, <2>1, <2>2 DEF Restored
    <3> QED
      BY <3>1, <1>6 DEF WaveInv, Output
  <2>7. Classed'
    <3>1. Begun' = Passed \cup Group /\ Begun = Passed \cup Group
      BY <1>1, <2>2 DEF Begun, Waves
    <3> QED
      BY <3>1, <1>1 DEF WaveInv, Classed, Unread
  <2>8. History'
    BY <1>1, <2>2 DEF WaveInv, History, Stored, Waves, Step, Plane, Depth
  <2> QED
    BY <1>7, <1>8, <2>3, <2>4, <2>5, <2>6, <2>7, <2>8 DEF WaveInv
<1>10. CASE path = "delta"
  <2>1. LoopGroups("begin", "restore") /\ path' = "delta"
    BY <1>1, <1>10 DEF ErrorRow
  <2>2. \/ /\ InGroup' /\ Passed' = Passed /\ Group' = Group /\ t' = t
           /\ pc' = "errors" /\ Reached' = Reached \cup {Row(at)} /\ at' > lo'
        \/ /\ InGroup' /\ Passed' = Passed \cup Group /\ t' \in Int /\ t <= t'
           /\ pc' = "begin" /\ Reached' = {} /\ at' = lo'
           /\ Reached \cup {Row(at)} = Group
        \/ /\ pc' = "restore" /\ Passed \cup Group = Rows /\ at' = 0 /\ lo' = 0
           /\ Reached \cup {Row(at)} = Group
    BY <2>1, <1>1, <1>2, LoopGroupsFacts
  <2>3. Position'
    <3>1. 0 \in 0 .. Z-1 /\ 0 \in 0 .. Y-1
      BY GeometryFacts, SMT
    <3> QED
      BY <2>2, <3>1 DEF Position, Waves
  <2>4. Voxels'
    BY <1>1, <1>10 DEF WaveInv, Voxels
  <2>5. Errors'
    <3>1. CASE pc' = "errors"
      <4>1. Passed' \cup Reached' = Passed \cup Reached \cup {Row(at)} /\ Group' = Group
        BY <3>1, <2>2
      <4> QED
        BY <3>1, <4>1, <1>4 DEF Errors
    <3>2. CASE pc' = "begin"
      BY <3>2, <2>2, <1>5 DEF Errors
    <3>3. CASE pc' = "restore"
      BY <3>3 DEF Errors
    <3> QED
      BY <3>1, <3>2, <3>3, <2>2
  <2>6. Output'
    <3>1. Restored' = {}
      <4>1. CASE pc' = "restore"
        <5>1. at' = 0 /\ lo' = 0
          BY <2>2, <4>1
        <5>2. Before(at, lo)' = {}
          BY <5>1, BeforeFacts DEF Before
        <5> QED
          BY <4>1, <5>2 DEF Restored
      <4>2. CASE pc' \in {"errors", "begin"}
        BY <2>1, <4>2 DEF Restored
      <4> QED
        BY <2>2, <4>1, <4>2
    <3> QED
      BY <3>1 DEF Output
  <2>7. Classed'
    <3>1. Begun' = Passed \cup Group
      <4>1. CASE pc' = "errors"
        BY <2>2, <4>1 DEF Begun, Waves
      <4>2. CASE pc' = "begin"
        BY <2>2, <4>2 DEF Begun, Waves
      <4>3. CASE pc' = "restore"
        BY <2>2, <4>3 DEF Begun, Waves
      <4> QED
        BY <2>2, <4>1, <4>2, <4>3
    <3>2. Begun = Passed \cup Group
      BY <1>1 DEF Begun, Waves
    <3> QED
      BY <3>1, <3>2, <1>1 DEF WaveInv, Classed, Unread
  <2>8. History'
    BY <2>1 DEF History
  <2> QED
    BY <1>7, <1>8, <2>3, <2>4, <2>5, <2>6, <2>7, <2>8 DEF WaveInv
<1> QED
  BY <1>9, <1>10

\* The rows a base prediction looks at passed, at most dl + 1 steps ago.
LEMMA NeighboursPassed ==
    ASSUME dl \in 2 .. 4, InGroup, NEW n \in Neighbours(at, t - dl * at)
    PROVE  n \in Passed /\ Step(n) \in Int /\ Step(n) >= t - dl - 1
<1> DEFINE z == at
           y == t - dl * at
<1>1. t \in Int /\ z \in 0 .. Z-1 /\ y \in 0 .. Y-1
  <2>1. t \in Int
    BY GeometryFacts, SMT DEF InGroup, LastStep
  <2> QED
    BY <2>1, RowOfSlice DEF InGroup
<1>2. n \in {<<z, y-1>>, <<z-1, y>>, <<z-1, y-1>>} /\ n[1] >= 0 /\ n[2] >= 0
  BY DEF Neighbours
<1>3. dl = 2 \/ dl = 3 \/ dl = 4
  BY SMT
<1>4. PICK i, j \in Int : n = <<i, j>> /\ i \in {z, z-1} /\ j \in {y, y-1}
                            /\ (i = z => j = y-1) /\ i >= 0 /\ j >= 0
  BY <1>1, <1>2, SMT
<1>5. /\ i \in 0 .. Z-1 /\ j \in 0 .. Y-1
      /\ j + dl * i < t /\ j + dl * i >= t - dl - 1 /\ j + dl * i \in Int
  BY <1>1, <1>3, <1>4, GeometryFacts, SMT
<1>6. n \in Passed
  BY <1>4, <1>5, PassedMember
<1>7. Step(n) = j + dl * i
  BY <1>4 DEF Step
<1> QED
  BY <1>5, <1>6, <1>7

\* A base prediction reads voxels published in earlier waves and stores one lane and a tail.
LEMMA BaseRowWave == ASSUME WaveInv, BaseRow PROVE WaveInv'
<1> DEFINE z == at
           y == t - dl * at
<1>1. /\ TypeOK /\ Position /\ pc = "base" /\ path # "delta" /\ Loop("publish")
      /\ UNCHANGED <<models, path, dl, b, e, out, ring, readB, readE>>
  BY DEF WaveInv, BaseRow, TypeOK
<1>2. /\ dl \in 2 .. 4 /\ dl' = dl /\ InGroup
      /\ z \in 0 .. Z-1 /\ y \in 0 .. Y-1 /\ Row(at) = <<z, y>> /\ Row(at) \in Rows
  BY <1>1, AtRow DEF Waves
<1>3. Passed \in SUBSET Rows
  BY DEF Passed
<1>4. ASSUME NEW n \in Neighbours(z, y) PROVE FoundAt(n) = n
  <2>1. n \in Passed /\ n \in Rows /\ Step(n) \in Int /\ Step(n) >= t - dl - 1
    BY <1>2, <1>3, <1>4, NeighboursPassed
  <2>2. CASE path = "ring"
    <3>1. ring[Plane(Step(n))][n[1] + 1] = n
      BY <2>1, <2>2, <1>1 DEF WaveInv, History, Stored, Waves
    <3>2. Plane(Step(n) + Depth) = Plane(Step(n))
      BY <2>1, <1>2, PlaneFacts
    <3> QED
      BY <2>2, <3>1, <3>2 DEF FoundAt, InRing
  <2>3. CASE path \in {"padded", "bank"}
    <3>1. b = Contents(Passed, Group)
      BY <1>1 DEF WaveInv, Voxels
    <3>2. n = <<n[1], n[2]>> /\ n[1] \in 0 .. Z-1 /\ n[2] \in 0 .. Y-1
      BY <2>1, RowPair
    <3>3. n \in Cells
      BY <3>2, RowCell
    <3>4. ~ n[1] < 0
      BY <3>2, GeometryFacts, SMT
    <3>5. b[n] = RealCell(Passed, Group, n[1], n[2])
      BY <3>1, <3>2, <3>3, <3>4 DEF Contents
    <3>6. b[n] = Whole(n)
      BY <3>2, <3>5, <2>1 DEF RealCell
    <3> QED
      BY <2>3, <3>6 DEF FoundAt, Whole, Sides
  <2>4. CASE path \notin {"ring", "padded", "bank"}
    <3>1. out[n] = "value"
      BY <2>1, <1>1 DEF WaveInv, Output, Restored
    <3> QED
      BY <2>4, <3>1 DEF FoundAt, InOutput
  <2> QED
    BY <2>2, <2>3, <2>4
<1>5. readBase' = [readBase EXCEPT ![Row(at)] = [n \in Neighbours(z, y) |-> n]]
  <2>1. readBase' = [readBase EXCEPT ![<<z, y>>] = [n \in Neighbours(z, y) |-> FoundAt(n)]]
    BY DEF BaseRow
  <2>2. [n \in Neighbours(z, y) |-> FoundAt(n)] = [n \in Neighbours(z, y) |-> n]
    BY <1>4
  <2> QED
    BY <2>1, <2>2, <1>2
<1>6. /\ InGroup' /\ Passed' = Passed /\ Group' = Group /\ t' = t
      /\ \/ /\ pc' = "publish" /\ Reached' = {} /\ at' = lo'
            /\ Reached \cup {Row(at)} = Group
         \/ /\ pc' = "base" /\ Reached' = Reached \cup {Row(at)} /\ at' > lo'
  BY <1>1, <1>2, LoopFacts
<1>7. TypeOK'
  <2>1. readBase' = [r \in Rows |-> readBase'[r]]
    BY <1>1, <1>5 DEF TypeOK
  <2>2. pc' \in Waves
    BY <1>6 DEF Waves
  <2>3. pc' # "restore"
    BY <1>6
  <2> QED
    BY <1>1, <2>1, <2>2, <2>3 DEF TypeOK, Depth, Lanes
<1>8. Position'
  BY <1>6 DEF Position
<1>9. Voxels' /\ Errors'
  <2>1. Passed \cup {} = Passed
    OBVIOUS
  <2> QED
    BY <1>1, <1>6, <2>1 DEF WaveInv, Voxels, Errors
<1>10. Output'
  <2>1. Restored' = Passed /\ Restored = Passed
    BY <1>1, <1>6 DEF Restored
  <2> QED
    BY <2>1, <1>1 DEF WaveInv, Output
<1>11. Classed'
  <2>1. Begun' = Passed \cup Group /\ Begun = Passed \cup Group
    BY <1>1, <1>6 DEF Begun, Waves
  <2> QED
    BY <2>1, <1>1 DEF WaveInv, Classed, Unread
<1>12. History'
  <2>1. Stored' = Passed
    <3>1. CASE pc' = "publish"
      <4>1. lo' \in Int /\ at' = lo'
        BY <3>1, <1>6, GeometryFacts, SMT DEF InGroup, SlicesOf
      <4>2. ~ at' > lo'
        BY <4>1, SMT
      <4> QED
        BY <4>2, <1>6 DEF Stored
    <3>2. CASE pc' = "base"
      BY <3>2, <1>6 DEF Stored
    <3> QED
      BY <3>1, <3>2, <1>6
  <2>2. Stored = Passed
    BY <1>1 DEF Stored
  <2> QED
    BY <2>1, <2>2, <1>1, <1>6 DEF WaveInv, History, Waves, Step, Plane, Depth
<1>13. PredictionReadsAgree' /\ ClassReadsAgree'
  BY <1>1 DEF WaveInv, PredictionReadsAgree, ClassReadsAgree, DecoderTaps
<1>14. BaseReadsAgree'
  <2> SUFFICES ASSUME NEW r \in Rows, readBase'[r] # Unread
               PROVE  readBase'[r] = [n \in Neighbours(r[1], r[2]) |-> n]
    BY DEF BaseReadsAgree, Unread
  <2>1. CASE r = Row(at)
    BY <2>1, <1>1, <1>2, <1>5 DEF TypeOK
  <2>2. CASE r # Row(at)
    <3>1. readBase'[r] = readBase[r]
      BY <2>2, <1>1, <1>5 DEF TypeOK
    <3> QED
      BY <3>1 DEF WaveInv, BaseReadsAgree
  <2> QED
    BY <2>1, <2>2
<1> QED
  BY <1>7, <1>8, <1>9, <1>10, <1>11, <1>12, <1>13, <1>14 DEF WaveInv

\* A store puts the whole group into the ring, and what it overwrites is older
\* than any row still to be looked at.
LEMMA StoredWave ==
    ASSUME dl \in 2 .. 4, InGroup,
           ring = [p \in 0 .. Depth - 1 |-> [l \in Lanes |-> ring[p][l]]],
           \A r \in Passed : Step(r) >= t - dl - 1 => ring[Plane(Step(r))][r[1] + 1] = r
    PROVE  /\ StoreWave = [p \in 0 .. Depth - 1 |-> [l \in Lanes |-> StoreWave[p][l]]]
           /\ \A r \in Passed \cup Group :
                Step(r) >= t - dl - 1 => StoreWave[Plane(Step(r))][r[1] + 1] = r
<1> DEFINE lane(l) == IF l \in lo + 1 .. lo + NL THEN PublishedLane(l) ELSE ring[Plane(t)][l]
<1>1. t \in Int /\ lo \in Int /\ NL \in Nat /\ dl \in Int
  BY LanesAssumption, GeometryFacts, SMT DEF InGroup, SlicesOf, LastStep
<1>2. Plane(t) \in 0 .. Depth - 1
  BY <1>1, PlaneFacts
<1>3. StoreWave = [ring EXCEPT ![Plane(t)] = [l \in Lanes |-> lane(l)]]
  BY DEF StoreWave
<1>4. /\ StoreWave = [p \in 0 .. Depth - 1 |-> StoreWave[p]]
      /\ StoreWave[Plane(t)] = [l \in Lanes |-> lane(l)]
      /\ \A p \in 0 .. Depth - 1 : p # Plane(t) => StoreWave[p] = ring[p]
  <2> HIDE DEF lane
  <2> QED
    BY <1>2, <1>3
<1>5. \A p \in 0 .. Depth - 1 : StoreWave[p] = [l \in Lanes |-> StoreWave[p][l]]
  <2> TAKE p \in 0 .. Depth - 1
  <2> HIDE DEF lane
  <2>1. CASE p = Plane(t)
    BY <2>1, <1>4
  <2>2. CASE p # Plane(t)
    BY <2>2, <1>4
  <2> QED
    BY <2>1, <2>2
<1>6. StoreWave = [p \in 0 .. Depth - 1 |-> [l \in Lanes |-> StoreWave[p][l]]]
  BY <1>4, <1>5
<1>7. ASSUME NEW r \in Passed \cup Group, Step(r) >= t - dl - 1
      PROVE  StoreWave[Plane(Step(r))][r[1] + 1] = r
  <2>1. r \in Rows
    BY DEF Passed, Group
  <2>2. r[1] \in 0 .. Z-1 /\ r[1] \in Int /\ Step(r) \in Int /\ r[1] \in SlicesOf(Step(r))
    BY <2>1, RowPair, RowStep, SMT
  <2>3. r[1] + 1 \in Lanes
    BY <2>2, SliceLane
  <2>4. CASE r \in Group
    <3>1. Step(r) = t /\ r[1] + 1 \in lo + 1 .. lo + NL /\ r[1] + 1 - 1 = r[1]
      BY <2>2, <2>4, <1>1, SMT DEF Group
    <3>2. StoreWave[Plane(t)][r[1] + 1] = PublishedLane(r[1] + 1)
      BY <1>4, <2>3, <3>1
    <3>3. PublishedLane(r[1] + 1) = Row(r[1])
      BY <2>2, <3>1 DEF PublishedLane
    <3>4. Row(r[1]) = r
      BY <1>1, <2>1, <2>2, <3>1, RowOfSlice
    <3> QED
      BY <3>1, <3>2, <3>3, <3>4
  <2>5. CASE r \in Passed /\ Step(r) = t
    <3>1. r[1] < lo
      BY <2>5, <1>1, SMT DEF Passed
    <3>2. r[1] + 1 \notin lo + 1 .. lo + NL
      BY <3>1, <2>2, <1>1, SMT
    <3>3. StoreWave[Plane(t)][r[1] + 1] = ring[Plane(t)][r[1] + 1]
      BY <1>4, <2>3, <3>2
    <3> QED
      BY <2>5, <3>3, <1>7
  <2>6. CASE r \in Passed /\ Step(r) # t
    <3>1. Step(r) < t
      BY <2>6 DEF Passed
    <3>2. t < Step(r) + Depth
      BY <1>1, <1>7, <2>2, SMT DEF Depth
    <3>3. Plane(Step(r)) \in 0 .. Depth - 1 /\ Plane(Step(r)) # Plane(t)
      BY <1>1, <2>2, <3>1, <3>2, PlaneFacts
    <3>4. StoreWave[Plane(Step(r))] = ring[Plane(Step(r))]
      BY <1>4, <3>3
    <3> QED
      BY <2>6, <3>4, <1>7
  <2> QED
    BY <2>4, <2>5, <2>6
<1> QED
  BY <1>6, <1>7

\* Publishing a row makes its voxels known and puts them in their place.
LEMMA PublishRowWave == ASSUME WaveInv, PublishRow PROVE WaveInv'
<1> DEFINE z == at
           y == t - dl * at
           known == Contents(Passed \cup Reached \cup {Row(at)}, Group)
<1>1. /\ TypeOK /\ Position /\ pc = "publish" /\ path # "delta"
      /\ LoopGroups("begin", "done")
      /\ UNCHANGED <<models, path, dl, e, readB, readE, readBase>>
  BY DEF WaveInv, PublishRow, TypeOK
<1>2. /\ dl \in 2 .. 4 /\ dl' = dl /\ InGroup
      /\ z \in 0 .. Z-1 /\ y \in 0 .. Y-1 /\ Row(at) = <<z, y>>
      /\ Row(at) \in Rows /\ Row(at) \in Group
  BY <1>1, AtRow DEF Waves
<1>3. Passed \in SUBSET Rows /\ Group \in SUBSET Rows /\ Reached \in SUBSET Group
  BY <1>2, GroupFacts
<1>4. b' = known
  <2>1. b' = Complete(Contents(Passed \cup Reached, Group), z, y)
    BY <1>1 DEF WaveInv, Voxels, PublishRow
  <2>2. Passed \cup Reached \in SUBSET Rows
    BY <1>3
  <2>3. <<z, y>> \in Group
    BY <1>2
  <2>4. Complete(Contents(Passed \cup Reached, Group), z, y)
          = Contents(Passed \cup Reached \cup {<<z, y>>}, Group)
    <3> HIDE DEF z, y
    <3> QED
      BY <1>2, <1>3, <2>2, <2>3, CompleteContents
  <2> QED
    BY <2>1, <2>4, <1>2
<1>5. Reached \cup {Row(at)} = Group => b' = Contents(Passed \cup Group, {})
  <2>1. Passed \cup Group \in SUBSET Rows /\ Group \in SUBSET (Passed \cup Group)
    BY <1>3
  <2>2. Contents(Passed \cup Group, Group \cup {}) = Contents(Passed \cup Group, {})
    BY <2>1, OpenDone
  <2>3. Group \cup {} = Group
    OBVIOUS
  <2>4. Reached \cup {Row(at)} = Group =>
          Passed \cup Reached \cup {Row(at)} = Passed \cup Group
    OBVIOUS
  <2> QED
    BY <1>4, <2>2, <2>3, <2>4
<1>6. /\ out' = [r \in Rows |-> out'[r]]
      /\ \A r \in Passed \cup Reached \cup {Row(at)} : out'[r] = "value"
  <2>1. out' = [out EXCEPT ![Row(at)] = "value"]
    BY <1>2 DEF PublishRow
  <2>2. \A r \in Passed \cup Reached : r \in Rows /\ out[r] = "value"
    BY <1>1, <1>3 DEF WaveInv, Output, Restored
  <2> QED
    BY <1>1, <1>2, <2>1, <2>2 DEF TypeOK
<1>7. ring' = [p \in 0 .. Depth - 1 |-> [l \in Lanes |-> ring'[p][l]]]
  <2>1. CASE path = "ring" /\ at = lo
    <3>1. /\ ring = [p \in 0 .. Depth - 1 |-> [l \in Lanes |-> ring[p][l]]]
          /\ ring' = StoreWave
      BY <2>1, <1>1 DEF TypeOK, PublishRow
    <3>2. ~ at > lo
      BY <2>1, <1>2, GeometryFacts, SMT
    <3>3. \A r \in Passed : Step(r) >= t - dl - 1 => ring[Plane(Step(r))][r[1] + 1] = r
      BY <2>1, <3>2, <1>1 DEF WaveInv, History, Stored, Waves
    <3>4. StoreWave = [p \in 0 .. Depth - 1 |-> [l \in Lanes |-> StoreWave[p][l]]]
      BY <3>1, <3>3, <1>2, StoredWave
    <3> QED
      BY <3>1, <3>4
  <2>2. CASE ~ (path = "ring" /\ at = lo)
    BY <2>2, <1>1 DEF TypeOK, PublishRow
  <2> QED
    BY <2>1, <2>2
<1>8. path = "ring" =>
        \A r \in Passed \cup Group :
            Step(r) >= t - dl - 1 => ring'[Plane(Step(r))][r[1] + 1] = r
  <2>1. CASE path = "ring" /\ at = lo
    <3>1. /\ ring = [p \in 0 .. Depth - 1 |-> [l \in Lanes |-> ring[p][l]]]
          /\ ring' = StoreWave
      BY <2>1, <1>1 DEF TypeOK, PublishRow
    <3>2. ~ at > lo
      BY <2>1, <1>2, GeometryFacts, SMT
    <3>3. \A r \in Passed : Step(r) >= t - dl - 1 => ring[Plane(Step(r))][r[1] + 1] = r
      BY <2>1, <3>2, <1>1 DEF WaveInv, History, Stored, Waves
    <3> QED
      BY <3>1, <3>3, <1>2, StoredWave
  <2>2. CASE path = "ring" /\ at # lo
    <3>1. at > lo
      BY <2>2, <1>2, GeometryFacts, SMT DEF InGroup, SlicesOf
    <3>2. ring' = ring
      BY <2>2 DEF PublishRow
    <3> QED
      BY <2>2, <3>1, <3>2, <1>1 DEF WaveInv, History, Stored, Waves
  <2> QED
    BY <2>1, <2>2
<1>9. \/ /\ InGroup' /\ Passed' = Passed /\ Group' = Group /\ t' = t
         /\ pc' = "publish" /\ Reached' = Reached \cup {Row(at)} /\ at' > lo'
      \/ /\ InGroup' /\ Passed' = Passed \cup Group /\ t' \in Int /\ t <= t'
         /\ pc' = "begin" /\ Reached' = {} /\ at' = lo'
         /\ Reached \cup {Row(at)} = Group
      \/ /\ pc' = "done" /\ Passed \cup Group = Rows /\ at' = 0 /\ lo' = 0
         /\ Reached \cup {Row(at)} = Group
  BY <1>1, <1>2, LoopGroupsFacts
<1>10. TypeOK'
  <2>1. pc' \in Waves \cup {"restore", "done"} /\ pc' # "restore"
    BY <1>9 DEF Waves
  <2> QED
    BY <1>1, <1>6, <1>7, <2>1 DEF TypeOK, Depth, Lanes
<1>11. Position'
  BY <1>9 DEF Position, Waves
<1>12. Voxels'
  <2>1. CASE pc' = "publish"
    <3>1. Passed' \cup Reached' = Passed \cup Reached \cup {Row(at)} /\ Group' = Group
      BY <1>9, <2>1
    <3> QED
      BY <2>1, <3>1, <1>1, <1>4 DEF Voxels
  <2>2. CASE pc' = "begin"
    BY <2>2, <1>1, <1>5, <1>9 DEF Voxels
  <2>3. CASE pc' = "done"
    BY <2>3, <1>1 DEF Voxels
  <2> QED
    BY <1>9, <2>1, <2>2, <2>3
<1>13. Errors'
  <2>1. e = Contents(Passed \cup Group, {})
    BY <1>1 DEF WaveInv, Errors
  <2>2. CASE pc' = "publish"
    BY <2>1, <2>2, <1>1, <1>9 DEF Errors
  <2>3. CASE pc' = "begin"
    BY <2>1, <2>3, <1>1, <1>9 DEF Errors
  <2>4. CASE pc' = "done"
    BY <2>4 DEF Errors
  <2> QED
    BY <1>9, <2>2, <2>3, <2>4
<1>14. Output'
  <2>1. Restored' = Passed \cup Reached \cup {Row(at)}
    <3>1. CASE pc' = "publish"
      BY <3>1, <1>1, <1>9 DEF Restored
    <3>2. CASE pc' = "begin"
      BY <3>2, <1>1, <1>9 DEF Restored
    <3>3. CASE pc' = "done"
      BY <3>3, <1>1, <1>9 DEF Restored
    <3> QED
      BY <1>9, <3>1, <3>2, <3>3
  <2> QED
    BY <2>1, <1>6 DEF Output
<1>15. Classed'
  <2>1. Begun = Passed \cup Group
    BY <1>1 DEF Begun, Waves
  <2>2. Begun' = Passed \cup Group
    <3>1. CASE pc' = "publish"
      BY <3>1, <1>9 DEF Begun, Waves
    <3>2. CASE pc' = "begin"
      BY <3>2, <1>9 DEF Begun, Waves
    <3>3. CASE pc' = "done"
      BY <3>3, <1>9 DEF Begun, Waves
    <3> QED
      BY <1>9, <3>1, <3>2, <3>3
  <2> QED
    BY <2>1, <2>2, <1>1 DEF WaveInv, Classed, Unread
<1>16. History'
  <2> SUFFICES ASSUME path = "ring", pc' \in Waves, NEW r \in Stored', Step(r)' >= (t - dl - 1)'
               PROVE  ring'[Plane(Step(r))'][r[1] + 1] = r
    BY <1>1 DEF History
  <2>1. r \in Passed \cup Group /\ t' \in Int /\ t <= t'
    <3>1. CASE pc' = "publish"
      <4>1. t \in Int /\ t <= t
        BY <1>2, GeometryFacts, SMT DEF InGroup, LastStep
      <4> QED
        BY <3>1, <4>1, <1>9 DEF Stored
    <3>2. CASE pc' = "begin"
      BY <3>2, <1>9 DEF Stored
    <3> QED
      BY <1>9, <3>1, <3>2 DEF Waves
  <2>2. r \in Rows
    BY <2>1, <1>3
  <2>3. Step(r)' = Step(r) /\ Plane(Step(r))' = Plane(Step(r))
    BY <1>2 DEF Step, Plane, Depth
  <2>4. Step(r) \in Int /\ t \in Int
    BY <2>2, <1>2, RowStep, GeometryFacts, SMT DEF InGroup, LastStep
  <2>5. Step(r) >= t - dl - 1
    <3>1. Step(r) >= t' - dl - 1
      BY <2>3, <1>2
    <3> QED
      BY <3>1, <2>1, <2>4, <1>2, SMT
  <2> QED
    BY <2>1, <2>3, <2>5, <1>8
<1>17. PredictionReadsAgree' /\ ClassReadsAgree' /\ BaseReadsAgree'
  BY <1>1 DEF WaveInv, PredictionReadsAgree, ClassReadsAgree, BaseReadsAgree, DecoderTaps
<1> QED
  BY <1>10, <1>11, <1>12, <1>13, <1>14, <1>15, <1>16, <1>17 DEF WaveInv

\* The delta path restores row after row from rows already restored.
LEMMA RestoreRowWave == ASSUME WaveInv, RestoreRow PROVE WaveInv'
<1> DEFINE z == at
           y == lo
<1>1. /\ TypeOK /\ Position /\ pc = "restore" /\ path = "delta"
      /\ UNCHANGED <<models, path, dl, t, b, e, ring, readB, readE>>
  BY DEF WaveInv, RestoreRow, TypeOK
<1>2. z \in 0 .. Z-1 /\ y \in 0 .. Y-1 /\ <<z, y>> \in Rows
  <2>1. z \in 0 .. Z-1 /\ y \in 0 .. Y-1
    BY <1>1 DEF Position
  <2> QED
    BY <2>1, RowCell
<1>3. \A r \in Before(z, y) : r \in Rows /\ out[r] = "value"
  BY <1>1 DEF WaveInv, Output, Restored, Before
<1>4. ASSUME NEW n \in Neighbours(z, y) PROVE InOutput(n) = n
  <2>1. n \in {<<z, y-1>>, <<z-1, y>>, <<z-1, y-1>>} /\ n[1] >= 0 /\ n[2] >= 0
    BY DEF Neighbours
  <2>2. n \in Rows /\ (n[1] < z \/ (n[1] = z /\ n[2] < y))
    BY <2>1, <1>2, GeometryFacts, SMT DEF Rows
  <2>3. n \in Before(z, y)
    BY <2>2 DEF Before
  <2> QED
    BY <2>3, <1>3 DEF InOutput
<1>5. readBase' = [readBase EXCEPT ![<<z, y>>] = [n \in Neighbours(z, y) |-> n]]
  <2>1. readBase' = [readBase EXCEPT ![<<z, y>>] = [n \in Neighbours(z, y) |-> InOutput(n)]]
    BY DEF RestoreRow
  <2>2. [n \in Neighbours(z, y) |-> InOutput(n)] = [n \in Neighbours(z, y) |-> n]
    BY <1>4
  <2> QED
    BY <2>1, <2>2
<1>6. /\ out' = [r \in Rows |-> out'[r]]
      /\ \A r \in Before(z, y) \cup {<<z, y>>} : out'[r] = "value"
  <2>1. out' = [out EXCEPT ![<<z, y>>] = "value"]
    BY DEF RestoreRow
  <2> QED
    BY <2>1, <1>1, <1>2, <1>3 DEF TypeOK
<1>7. /\ pc' = "restore" => at' \in 0 .. Z-1 /\ lo' \in 0 .. Y-1
      /\ pc' \in {"restore", "done"}
      /\ Restored' = Before(z, y) \cup {<<z, y>>}
  <2>0. /\ y < Y-1 => Before(z, y+1) = Before(z, y) \cup {<<z, y>>}
        /\ y = Y-1 /\ z < Z-1 => Before(z+1, 0) = Before(z, y) \cup {<<z, y>>}
        /\ y = Y-1 /\ z = Z-1 => Before(z, y) \cup {<<z, y>>} = Rows
    <3> HIDE DEF z, y
    <3> QED
      BY <1>2, BeforeNext
  <2>1. CASE y < Y-1
    <3>1. lo' = y + 1 /\ at' = z /\ pc' = "restore"
      BY <2>1, <1>1 DEF RestoreRow
    <3>2. lo' \in 0 .. Y-1
      BY <3>1, <2>1, <1>2, GeometryFacts, SMT
    <3>3. Before(at, lo)' = Before(z, y+1)
      BY <3>1 DEF Before
    <3> QED
      BY <3>1, <3>2, <3>3, <2>0, <2>1, <1>2 DEF Restored
  <2>2. CASE ~ y < Y-1 /\ z < Z-1
    <3>1. lo' = 0 /\ at' = z + 1 /\ pc' = "restore"
      BY <2>2, <1>1 DEF RestoreRow
    <3>2. lo' \in 0 .. Y-1 /\ at' \in 0 .. Z-1 /\ y = Y-1
      BY <3>1, <2>2, <1>2, GeometryFacts, SMT
    <3>3. Before(at, lo)' = Before(z+1, 0)
      BY <3>1 DEF Before
    <3> QED
      BY <3>1, <3>2, <3>3, <2>0, <2>2 DEF Restored
  <2>3. CASE ~ y < Y-1 /\ ~ z < Z-1
    <3>1. pc' = "done"
      BY <2>3, <1>1 DEF RestoreRow
    <3>2. y = Y-1 /\ z = Z-1
      BY <2>3, <1>2, GeometryFacts, SMT
    <3> QED
      BY <3>1, <3>2, <2>0 DEF Restored
  <2> QED
    BY <2>1, <2>2, <2>3
<1>8. TypeOK'
  <2>1. readBase' = [r \in Rows |-> readBase'[r]]
    BY <1>1, <1>5 DEF TypeOK
  <2> QED
    BY <1>1, <1>6, <1>7, <2>1 DEF TypeOK, Depth, Lanes
<1>9. Position' /\ Errors' /\ History'
  BY <1>7 DEF Position, Errors, History, Waves
<1>10. Voxels'
  BY <1>1 DEF WaveInv, Voxels
<1>11. Output'
  BY <1>6, <1>7 DEF Output
<1>12. Classed'
  <2>1. Begun = Rows /\ Begun' = Rows
    BY <1>1, <1>7 DEF Begun, Waves
  <2> QED
    BY <2>1, <1>1 DEF WaveInv, Classed, Unread
<1>13. PredictionReadsAgree' /\ ClassReadsAgree'
  BY <1>1 DEF WaveInv, PredictionReadsAgree, ClassReadsAgree, DecoderTaps
<1>14. BaseReadsAgree'
  <2> SUFFICES ASSUME NEW r \in Rows, readBase'[r] # Unread
               PROVE  readBase'[r] = [n \in Neighbours(r[1], r[2]) |-> n]
    BY DEF BaseReadsAgree, Unread
  <2>1. CASE r = <<z, y>>
    BY <2>1, <1>1, <1>2, <1>5 DEF TypeOK
  <2>2. CASE r # <<z, y>>
    <3>1. readBase'[r] = readBase[r]
      BY <2>2, <1>1, <1>5 DEF TypeOK
    <3> QED
      BY <3>1 DEF WaveInv, BaseReadsAgree
  <2> QED
    BY <2>1, <2>2
<1> QED
  BY <1>8, <1>9, <1>10, <1>11, <1>12, <1>13, <1>14 DEF WaveInv

\* A step that changes nothing keeps everything.
LEMMA StutterWave == ASSUME WaveInv, UNCHANGED vars PROVE WaveInv'
<1>1. UNCHANGED <<models, path, dl, pc, t, lo, at, b, e, out, ring, readB, readE, readBase>>
  BY DEF vars
<1>2. Passed' = Passed /\ Reached' = Reached /\ Group' = Group
  BY <1>1 DEF Passed, Reached, Group, Step
<1>3. TypeOK'
  BY <1>1 DEF WaveInv, TypeOK, Depth, Lanes
<1>4. Position'
  BY <1>1 DEF WaveInv, Position, InGroup, SlicesOf, LastStep
<1>5. Voxels' /\ Errors'
  BY <1>1, <1>2 DEF WaveInv, Voxels, Errors
<1>6. Output' /\ Classed'
  BY <1>1, <1>2 DEF WaveInv, Output, Restored, Classed, Begun
<1>7. History'
  BY <1>1, <1>2 DEF WaveInv, History, Stored, Step, Plane, Depth
<1>8. PredictionReadsAgree' /\ ClassReadsAgree' /\ BaseReadsAgree'
  BY <1>1 DEF WaveInv, PredictionReadsAgree, ClassReadsAgree, BaseReadsAgree, DecoderTaps
<1> QED
  BY <1>3, <1>4, <1>5, <1>6, <1>7, <1>8 DEF WaveInv

-----------------------------------------------------------------------------
\* The buffers, the output and the wave history are what WaveInv says, in every
\* phase of every group.
THEOREM WaveInvariant == Spec => []WaveInv
<1>1. Init => WaveInv
  BY InitWave
<1>2. WaveInv /\ [Next]_vars => WaveInv'
  BY StartWave, BeginRowWave, ErrorRowWave, BaseRowWave, PublishRowWave, RestoreRowWave,
     StutterWave DEF Next
<1> QED
  BY <1>1, <1>2, PTL DEF Spec

\* The slope of the serialized entropy model is the one the decoder takes from the
\* used models, whichever those are: the check in Start never rejects.
THEOREM SlopesAlwaysAgree == Spec => []SlopesAgree
<1>1. WaveInv => SlopesAgree
  BY DEF WaveInv, TypeOK, Waves, SlopesAgree
<1> QED
  BY <1>1, WaveInvariant, PTL

\* Every prediction of the wavefront reads what the encoder's raster pass read.
THEOREM PredictionReadsAlwaysAgree == Spec => []PredictionReadsAgree
<1>1. WaveInv => PredictionReadsAgree
  BY DEF WaveInv
<1> QED
  BY <1>1, WaveInvariant, PTL

\* Every class context of the wavefront is what it was in the encoder.
THEOREM ClassReadsAlwaysAgree == Spec => []ClassReadsAgree
<1>1. WaveInv => ClassReadsAgree
  BY DEF WaveInv
<1> QED
  BY <1>1, WaveInvariant, PTL

\* Every base prediction finds the final voxels of its neighbours, wherever the
\* build looks for them: output, padded volume or wave history.
THEOREM BaseReadsAlwaysAgree == Spec => []BaseReadsAgree
<1>1. WaveInv => BaseReadsAgree
  BY DEF WaveInv
<1> QED
  BY <1>1, WaveInvariant, PTL

\* A full-width store never leaves its plane of the wave history.
THEOREM StoresStayInPlane == Spec => []StoreInsidePlane
<1>1. WaveInv => StoreInsidePlane
  <2> SUFFICES ASSUME WaveInv, pc = "publish" PROVE lo + NL <= Stride - 1
    BY DEF StoreInsidePlane
  <2>1. lo \in 0 .. Z-1
    BY DEF WaveInv, Position, InGroup, SlicesOf, Waves
  <2> QED
    BY <2>1, SliceLane
<1> QED
  BY <1>1, WaveInvariant, PTL

\* When the decoder is done, every row was classed and restored.
THEOREM AllRowsRestored == Spec => []EveryRowRestored
<1>1. WaveInv => EveryRowRestored
  BY DEF WaveInv, Output, Restored, Classed, Begun, Waves, EveryRowRestored
<1> QED
  BY <1>1, WaveInvariant, PTL
=============================================================================
