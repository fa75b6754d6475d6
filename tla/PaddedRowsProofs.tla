-------------------------- MODULE PaddedRowsProofs --------------------------
(***************************************************************************)
(* Lemmas about the padded volume: what the two pad routines do to a       *)
(* buffer that is known as a function of its finished rows, and which      *)
(* buffers a tap cannot tell from the one of a raster traversal.           *)
(***************************************************************************)
EXTENDS PaddedRows, TLAPS

\* The volume has a first row, and flat is no row.
LEMMA GeometryFacts ==
    /\ Y \in Nat /\ Y >= 4 /\ Z \in Nat /\ Z >= 1
    /\ YP \in Nat /\ YP >= 3 /\ ZP \in Nat /\ ZP >= 2
    /\ Flat \notin Rows
BY GeometryAssumption, PadAssumption, FlatAssumption

\* A cell is its slice and its row.
LEMMA CellPair ==
    ASSUME NEW c \in Cells
    PROVE  /\ c = <<c[1], c[2]>>
           /\ c[1] \in Int /\ -ZP <= c[1] /\ c[1] <= Z-1
           /\ c[2] \in Int /\ -YP <= c[2] /\ c[2] <= Y+YP-1
BY GeometryFacts, SMT DEF Cells

\* A row of the volume has a cell.
LEMMA RowCell ==
    ASSUME NEW z \in 0 .. Z-1, NEW y \in 0 .. Y-1
    PROVE  <<z, y>> \in Cells /\ <<z, y>> \in Rows
BY GeometryFacts, SMT DEF Cells, Rows

\* A row is its slice and its place there.
LEMMA RowPair ==
    ASSUME NEW r \in Rows
    PROVE  r = <<r[1], r[2]>> /\ r[1] \in 0 .. Z-1 /\ r[2] \in 0 .. Y-1
BY SMT DEF Rows

\* Which rows come before one in raster order.
LEMMA BeforeMember ==
    ASSUME NEW z \in Int, NEW y \in Int, NEW i \in Int, NEW j \in Int
    PROVE  /\ (<<i, j>> \in Before(z, y))
                <=> (<<i, j>> \in Rows /\ (i < z \/ (i = z /\ j < y)))
           /\ (<<i, j>> \in Rows) <=> (i \in 0 .. Z-1 /\ j \in 0 .. Y-1)
<1>1. <<i, j>>[1] = i /\ <<i, j>>[2] = j
  OBVIOUS
<1>2. (<<i, j>> \in Before(z, y))
        <=> (<<i, j>> \in Rows /\ (i < z \/ (i = z /\ j < y)))
  BY <1>1, Zenon DEF Before
<1>3. (<<i, j>> \in Rows) <=> (i \in 0 .. Z-1 /\ j \in 0 .. Y-1)
  BY SMT DEF Rows
<1> QED
  BY <1>2, <1>3

\* Nothing comes before the first row, and no row before itself.
LEMMA BeforeFacts ==
    /\ <<0, 0>> \in Rows
    /\ Before(0, 0) = {}
    /\ \A r \in Rows : Before(r[1], r[2]) \in SUBSET Rows /\ r \notin Before(r[1], r[2])
<1>1. <<0, 0>> \in Rows
  BY GeometryFacts, SMT DEF Rows
<1>2. ASSUME NEW q \in Before(0, 0) PROVE FALSE
  BY <1>2, RowPair, SMT DEF Before
<1>3. ASSUME NEW r \in Rows PROVE r \notin Before(r[1], r[2])
  BY RowPair, SMT DEF Before
<1> QED
  BY <1>1, <1>2, <1>3 DEF Before

\* The rows before the next one are those before this one, and this one; after
\* the last row they are all rows.
LEMMA BeforeNext ==
    ASSUME NEW z \in 0 .. Z-1, NEW y \in 0 .. Y-1
    PROVE  /\ y < Y-1 => Before(z, y+1) = Before(z, y) \cup {<<z, y>>}
           /\ y = Y-1 /\ z < Z-1 => Before(z+1, 0) = Before(z, y) \cup {<<z, y>>}
           /\ y = Y-1 /\ z = Z-1 => Before(z, y) \cup {<<z, y>>} = Rows
<1>1. \A r \in Rows : /\ r = <<r[1], r[2]>>
                      /\ r[1] \in 0 .. Z-1
                      /\ r[2] \in 0 .. Y-1
  BY RowPair
<1>2. <<z, y>> \in Rows
  BY RowCell
<1>3. \A r \in Rows : (r[1] = z /\ r[2] = y) <=> r = <<z, y>>
  BY <1>1
<1>4. ASSUME y < Y-1 PROVE Before(z, y+1) = Before(z, y) \cup {<<z, y>>}
  <2>1. \A r \in Rows : r[2] < y+1 <=> (r[2] < y \/ r[2] = y)
    BY <1>1, SMT
  <2> QED
    BY <2>1, <1>2, <1>3 DEF Before
<1>5. ASSUME y = Y-1, z < Z-1 PROVE Before(z+1, 0) = Before(z, y) \cup {<<z, y>>}
  <2>1. ASSUME NEW r \in Rows
        PROVE  (r[1] < z+1 \/ (r[1] = z+1 /\ r[2] < 0))
                 <=> ((r[1] < z \/ (r[1] = z /\ r[2] < y)) \/ r = <<z, y>>)
    <3>1. ~ r[2] < 0 /\ (r[2] < y \/ r[2] = y)
      BY <1>1, <1>5, GeometryFacts, SMT
    <3>2. r[1] < z+1 <=> (r[1] < z \/ r[1] = z)
      BY <1>1, SMT
    <3>3. r[1] = z => ~ r[1] < z
      BY SMT
    <3> QED
      BY <1>3, <3>1, <3>2, <3>3
  <2> QED
    BY <2>1, <1>2 DEF Before
<1>6. ASSUME y = Y-1, z = Z-1, NEW r \in Rows PROVE r \in Before(z, y) \cup {<<z, y>>}
  <2>1. (r[1] < z \/ r[1] = z) /\ (r[2] < y \/ r[2] = y)
    BY <1>1, <1>6, GeometryFacts, SMT
  <2> QED
    BY <2>1, <1>3 DEF Before
<1>7. y = Y-1 /\ z = Z-1 => Before(z, y) \cup {<<z, y>>} = Rows
  BY <1>2, <1>6 DEF Before
<1> QED
  BY <1>4, <1>5, <1>7

\* A buffer as cleared is the buffer of no row.
LEMMA FreshContents == Fresh = Contents({}, {})
<1>1. ASSUME NEW c \in Cells PROVE Contents({}, {})[c] = Whole(Flat)
  BY <1>1 DEF Contents, RealCell, PadCell
<1> QED
  BY <1>1 DEF Fresh, Contents

\* The pads written before a row make the buffer that of one more begun row.
LEMMA BeginContents ==
    ASSUME NEW done \in SUBSET Rows, NEW open \in SUBSET Rows,
           NEW z \in 0 .. Z-1, NEW y \in 0 .. Y-1,
           <<z, y>> \notin done \cup open,
           y > 0 => <<z, y-1>> \in done,
           y = 0 /\ z > 0 => <<z-1, 0>> \in done
    PROVE  RowBegin(Contents(done, open), z, y)
             = Contents(done, open \cup {<<z, y>>})
<1> DEFINE b == Contents(done, open)
           full == Contents(done, open \cup {<<z, y>>})
           top == IF z > 0 THEN b[<<z-1, 0>>] ELSE Whole(Flat)
           above == IF y = 0 THEN top["mid"] ELSE b[<<z, y-1>>]["mid"]
<1>1. z > 0 /\ y = 0 => b[<<z-1, 0>>] = Whole(<<z-1, 0>>)
  <2>1. z > 0 => z-1 \in 0 .. Z-1 /\ 0 \in 0 .. Y-1
    BY GeometryFacts, SMT
  <2>2. z > 0 => <<z-1, 0>> \in Cells
    BY <2>1, RowCell
  <2> QED
    BY <2>1, <2>2, SMT DEF Contents, RealCell
<1>2. y = 0 => top = IF z > 0 THEN Whole(<<z-1, 0>>) ELSE Whole(Flat)
  BY <1>1
<1>3. y > 0 => b[<<z, y-1>>] = Whole(<<z, y-1>>)
  <2>1. y > 0 => y-1 \in 0 .. Y-1
    BY GeometryFacts, SMT
  <2>2. y > 0 => <<z, y-1>> \in Cells
    BY <2>1, RowCell
  <2> QED
    BY <2>1, <2>2, SMT DEF Contents, RealCell
<1>4. above = Above(z, y)
  BY <1>2, <1>3, SMT DEF Above, Whole, Sides
<1>5. ASSUME NEW c \in Cells
      PROVE  (IF c[1] = z /\ y = 0 /\ c[2] < 0 THEN top
              ELSE IF c = <<z, y>> THEN [b[c] EXCEPT !["left"] = above]
              ELSE b[c]) = full[c]
  <2> USE CellPair, GeometryFacts
  <2>1. CASE c[1] = z /\ y = 0 /\ c[2] < 0
    <3>1. /\ c[1] >= 0
          /\ c[2] \notin 0 .. Y-1
          /\ <<c[1], 0>> \in open \cup {<<z, y>>}
      BY <2>1, SMT
    <3>2. full[c] = PadCell(done, open \cup {<<z, y>>}, c[1], c[2])
      BY <3>1 DEF Contents
    <3>3. full[c] = IF z > 0 THEN Whole(<<z-1, 0>>) ELSE Whole(Flat)
      BY <3>1, <3>2, <2>1 DEF PadCell
    <3> QED
      BY <3>3, <2>1, <1>2
  <2>2. CASE c = <<z, y>>
    <3>1. b[c] = Whole(Flat)
      BY <2>2, SMT DEF Contents, RealCell
    <3>2. full[c] = [Whole(Flat) EXCEPT !["left"] = Above(z, y)]
      <4>1. /\ ~ c[1] < 0
            /\ c[2] \in 0 .. Y-1
            /\ c[1] = z /\ c[2] = y
            /\ <<z, y>> \notin done
            /\ <<z, y>> \in open \cup {<<z, y>>}
        BY <2>2, SMT
      <4>2. full[c] = RealCell(done, open \cup {<<z, y>>}, z, y)
        BY <4>1 DEF Contents
      <4> QED
        BY <4>1, <4>2 DEF RealCell
    <3>3. ~ (c[1] = z /\ y = 0 /\ c[2] < 0)
      BY <2>2, SMT
    <3> QED
      BY <3>1, <3>2, <3>3, <2>2, <1>4
  <2>3. CASE c # <<z, y>> /\ ~ (c[1] = z /\ y = 0 /\ c[2] < 0)
    <3>1. b[c] = full[c]
      BY <2>3, SMT DEF Contents, RealCell, PadCell
    <3> QED
      BY <3>1, <2>3
  <2> QED
    BY <2>1, <2>2, <2>3
<1>6. RowBegin(b, z, y)
        = [c \in Cells |->
             IF c[1] = z /\ y = 0 /\ c[2] < 0 THEN top
             ELSE IF c = <<z, y>> THEN [b[c] EXCEPT !["left"] = above]
             ELSE b[c]]
  BY DEF RowBegin
<1>7. full = [c \in Cells |-> full[c]]
  BY DEF Contents
<1> HIDE DEF b, full, top, above
<1>8. RowBegin(b, z, y) = full
  BY <1>5, <1>6, <1>7
<1> QED
  BY <1>8 DEF b, full

\* Storing a begun row and its pads makes the buffer that of one more finished
\* row.
LEMMA CompleteContents ==
    ASSUME NEW done \in SUBSET Rows, NEW open \in SUBSET Rows,
           NEW z \in 0 .. Z-1, NEW y \in 0 .. Y-1,
           <<z, y>> \in open
    PROVE  Complete(Contents(done, open), z, y)
             = Contents(done \cup {<<z, y>>}, open)
<1> DEFINE old == Contents(done, open)
           b == [old EXCEPT ![<<z, y>>]["mid"] = <<z, y>>]
           full == Contents(done \cup {<<z, y>>}, open)
           own == Whole(b[<<z, y>>]["mid"])
           first == IF y = 0 THEN -YP ELSE y
           last == IF y = Y-1 THEN Y+YP-1 ELSE y
           inSlice(q) == IF q = y \/ (y = Y-1 /\ q >= Y) THEN own ELSE b[<<z, q>>]
<1>1. <<z, y>> \in Cells
  BY RowCell
<1>2. \A c \in Cells : c # <<z, y>> => b[c] = old[c]
  BY DEF Contents
<1>3. old[<<z, y>>] \in [Sides -> Owners \cup {Above(z, y)} \cup Rows]
  <2>1. \E done2, open2 : old[<<z, y>>] = RealCell(done2, open2, z, y)
    BY <1>1, SMT DEF Contents
  <2> QED
    BY <2>1 DEF RealCell, Whole, Owners
<1>4. own = Whole(<<z, y>>)
  BY <1>1, <1>3 DEF Contents, Sides
<1> HIDE DEF b, own
<1>5. ASSUME NEW c \in Cells
      PROVE  (IF c[1] = z THEN inSlice(c[2])
              ELSE IF z = 0 /\ c[1] < 0 /\ c[2] \in first .. last THEN inSlice(c[2])
              ELSE b[c]) = full[c]
  <2> USE CellPair, GeometryFacts
  <2>1. CASE c[1] = z
    <3>1. CASE c[2] = y
      <4>1. full[c] = Whole(<<z, y>>)
        BY <2>1, <3>1, SMT DEF Contents, RealCell
      <4> QED
        BY <4>1, <3>1, <2>1, <1>4
    <3>2. CASE y = Y-1 /\ c[2] >= Y
      <4>1. full[c] = Whole(<<z, Y-1>>)
        BY <2>1, <3>2, SMT DEF Contents, PadCell
      <4> QED
        BY <4>1, <3>2, <2>1, <1>4
    <3>3. CASE c[2] # y /\ ~ (y = Y-1 /\ c[2] >= Y)
      <4>1. inSlice(c[2]) = old[c]
        BY <2>1, <3>3, <1>2
      <4>2. old[c] = full[c]
        BY <2>1, <3>3, SMT DEF Contents, RealCell, PadCell
      <4> QED
        BY <4>1, <4>2, <2>1
    <3> QED
      BY <3>1, <3>2, <3>3
  <2>2. CASE z = 0 /\ c[1] < 0 /\ c[2] \in first .. last
    <3>0. c[1] # z
      BY <2>2, SMT
    <3>1. CASE c[2] = y
      <4>1. full[c] = Whole(<<0, y>>)
        BY <2>2, <3>1, SMT DEF Contents, RealCell
      <4> QED
        BY <4>1, <3>1, <2>2, <3>0, <1>4
    <3>2. CASE y = Y-1 /\ c[2] >= Y
      <4>1. full[c] = Whole(<<0, Y-1>>)
        BY <2>2, <3>2, SMT DEF Contents, PadCell
      <4> QED
        BY <4>1, <3>2, <2>2, <3>0, <1>4
    <3>3. CASE c[2] # y /\ ~ (y = Y-1 /\ c[2] >= Y)
      <4>1. c[2] < 0
        BY <2>2, <3>3, SMT
      <4>2. <<0, c[2]>> \in Cells
        BY <4>1, SMT DEF Cells
      <4>3. inSlice(c[2]) = old[<<0, c[2]>>]
        BY <2>2, <3>3, <4>2, <1>2
      <4>4. old[<<0, c[2]>>] = Whole(Flat)
        BY <4>1, <4>2, SMT DEF Contents, PadCell
      <4>5. full[c] = Whole(Flat)
        BY <4>1, <2>2, SMT DEF Contents, PadCell
      <4> QED
        BY <4>3, <4>4, <4>5, <3>0, <2>2
    <3> QED
      BY <3>1, <3>2, <3>3
  <2>3. CASE c[1] # z /\ ~ (z = 0 /\ c[1] < 0 /\ c[2] \in first .. last)
    <3>1. b[c] = old[c]
      BY <2>3, <1>2
    <3>2. old[c] = full[c]
      <4>1. CASE c[1] >= 0
        BY <4>1, <2>3, SMT DEF Contents, RealCell, PadCell
      <4>2. CASE c[1] < 0 /\ z # 0
        BY <4>2, <2>3, SMT DEF Contents, RealCell, PadCell
      <4>3. CASE c[1] < 0 /\ z = 0
        <5>1. c[2] # y /\ ~ (y = Y-1 /\ c[2] >= Y)
          BY <4>3, <2>3, SMT
        <5> QED
          BY <4>3, <5>1, SMT DEF Contents, RealCell, PadCell
      <4> QED
        BY <4>1, <4>2, <4>3, SMT
    <3> QED
      BY <3>1, <3>2, <2>3
  <2> QED
    BY <2>1, <2>2, <2>3
<1>6. RowEnd(b, z, y)
        = [c \in Cells |->
             IF c[1] = z THEN inSlice(c[2])
             ELSE IF z = 0 /\ c[1] < 0 /\ c[2] \in first .. last THEN inSlice(c[2])
             ELSE b[c]]
  BY DEF RowEnd, own
<1>7. full = [c \in Cells |-> full[c]]
  BY DEF Contents
<1>8. Complete(old, z, y) = RowEnd(b, z, y)
  BY DEF Complete, b
<1> HIDE DEF old, full, first, last, inSlice
<1>9. RowEnd(b, z, y) = full
  BY <1>5, <1>6, <1>7
<1> QED
  BY <1>8, <1>9 DEF old, full

\* A finished row no longer counts as begun.
LEMMA OpenDone ==
    ASSUME NEW done \in SUBSET Rows, NEW open \in SUBSET done, NEW more \in SUBSET Rows
    PROVE  Contents(done, open \cup more) = Contents(done, more)
<1>1. ASSUME NEW c \in Cells
      PROVE  Contents(done, open \cup more)[c] = Contents(done, more)[c]
  BY <1>1, Zenon DEF Contents, RealCell, PadCell
<1> QED
  BY <1>1 DEF Contents

-----------------------------------------------------------------------------
(* The whole volume, in its final state, goes through a row again.         *)

\* Only the left pad of the row changes: it shows the row above once more.
LEMMA BeginAgain ==
    ASSUME NEW z \in 0 .. Z-1, NEW y \in 0 .. Y-1
    PROVE  RowBegin(Contents(Rows, {}), z, y)
             = [Contents(Rows, {}) EXCEPT ![<<z, y>>]["left"] = Above(z, y)]
<1> DEFINE full == Contents(Rows, {})
           top == IF z > 0 THEN full[<<z-1, 0>>] ELSE Whole(Flat)
           above == IF y = 0 THEN top["mid"] ELSE full[<<z, y-1>>]["mid"]
<1> USE GeometryFacts
<1>1. \A i \in 0 .. Z-1, j \in 0 .. Y-1 : full[<<i, j>>] = Whole(<<i, j>>)
  <2> TAKE i \in 0 .. Z-1, j \in 0 .. Y-1
  <2>1. <<i, j>> \in Cells /\ <<i, j>> \in Rows
    BY RowCell
  <2> QED
    BY <2>1, SMT DEF Contents, RealCell
<1>2. top = IF z > 0 THEN Whole(<<z-1, 0>>) ELSE Whole(Flat)
  BY <1>1, SMT
<1>3. y > 0 => full[<<z, y-1>>] = Whole(<<z, y-1>>)
  BY <1>1, SMT
<1>4. above = Above(z, y)
  BY <1>2, <1>3, SMT DEF Above, Whole, Sides
<1>5. ASSUME NEW c \in Cells, c[1] = z, y = 0, c[2] < 0
      PROVE  full[c] = top
  <2>1. <<z, 0>> \in Rows
    BY SMT DEF Rows
  <2>2. full[c] = PadCell(Rows, {}, z, c[2])
    BY <1>5, CellPair, SMT DEF Contents
  <2> QED
    BY <2>1, <2>2, <1>5, <1>2 DEF PadCell
<1> HIDE DEF full, top, above
<1>6. RowBegin(full, z, y)
        = [c \in Cells |->
             IF c[1] = z /\ y = 0 /\ c[2] < 0 THEN top
             ELSE IF c = <<z, y>> THEN [full[c] EXCEPT !["left"] = above]
             ELSE full[c]]
  BY DEF RowBegin, top, above
<1>7. full = [c \in Cells |-> full[c]]
  BY DEF full, Contents
<1>8. ~ <<z, y>>[2] < 0
  BY SMT
<1>9. [full EXCEPT ![<<z, y>>]["left"] = Above(z, y)]
        = [c \in Cells |-> IF c = <<z, y>>
                            THEN [full[c] EXCEPT !["left"] = Above(z, y)]
                            ELSE full[c]]
  BY <1>7
<1>10. RowBegin(full, z, y) = [full EXCEPT ![<<z, y>>]["left"] = Above(z, y)]
  BY <1>4, <1>5, <1>6, <1>8, <1>9
<1> QED
  BY <1>10 DEF full

\* Writing the row's own pads puts it back.
LEMMA EndAgain ==
    ASSUME NEW z \in 0 .. Z-1, NEW y \in 0 .. Y-1
    PROVE  RowEnd(RowBegin(Contents(Rows, {}), z, y), z, y) = Contents(Rows, {})
<1> DEFINE full == Contents(Rows, {})
           begun == RowBegin(full, z, y)
           own == Whole(begun[<<z, y>>]["mid"])
           first == IF y = 0 THEN -YP ELSE y
           last == IF y = Y-1 THEN Y+YP-1 ELSE y
           inSlice(q) == IF q = y \/ (y = Y-1 /\ q >= Y) THEN own ELSE begun[<<z, q>>]
<1> USE GeometryFacts
<1>1. <<z, y>> \in Cells /\ <<z, y>> \in Rows
  BY RowCell
<1>2. full[<<z, y>>] = Whole(<<z, y>>)
  BY <1>1, SMT DEF Contents, RealCell
<1>3. begun = [full EXCEPT ![<<z, y>>]["left"] = Above(z, y)]
  BY BeginAgain
<1>4. own = Whole(<<z, y>>)
  <2>1. begun[<<z, y>>] = [Whole(<<z, y>>) EXCEPT !["left"] = Above(z, y)]
    <3>1. full = [c \in Cells |-> full[c]]
      BY DEF Contents
    <3> HIDE DEF full, begun
    <3> QED
      BY <3>1, <1>1, <1>2, <1>3
  <2> HIDE DEF begun
  <2>2. begun[<<z, y>>]["mid"] = <<z, y>>
    BY <2>1 DEF Whole, Sides
  <2> QED
    BY <2>2
<1>5. \A c \in Cells : c # <<z, y>> => begun[c] = full[c]
  BY <1>3 DEF Contents
<1>6. \A i \in -ZP .. Z-1, q \in -YP .. Y+YP-1 : <<i, q>> \in Cells
  BY SMT DEF Cells
<1> HIDE DEF begun, own
<1>7. ASSUME NEW q \in -YP .. Y+YP-1
      PROVE  inSlice(q) = full[<<z, q>>]
  <2>0. <<z, q>> \in Cells
    BY <1>6, SMT
  <2>1. CASE q = y
    BY <2>1, <1>2, <1>4
  <2>2. CASE y = Y-1 /\ q >= Y
    <3>1. full[<<z, q>>] = PadCell(Rows, {}, z, q)
      BY <2>0, <2>2, SMT DEF Contents
    <3>2. ~ q < 0
      BY <2>2, SMT
    <3> QED
      BY <3>1, <3>2, <2>2, <1>1, <1>4 DEF PadCell
  <2>3. CASE q # y /\ ~ (y = Y-1 /\ q >= Y)
    BY <2>3, <2>0, <1>5
  <2> QED
    BY <2>1, <2>2, <2>3
<1>8. ASSUME NEW c \in Cells, z = 0, c[1] < 0
      PROVE  full[c] = full[<<0, c[2]>>]
  <2>1. <<0, c[2]>> \in Cells
    BY CellPair, <1>6, SMT
  <2>2. CASE c[2] \in 0 .. Y-1
    <3>1. <<0, c[2]>> \in Rows
      BY <2>2, SMT DEF Rows
    <3> QED
      BY <3>1, <2>1, <2>2, <1>8, SMT DEF Contents, RealCell
  <2>3. CASE c[2] \notin 0 .. Y-1
    BY <2>1, <2>3, <1>8, SMT DEF Contents
  <2> QED
    BY <2>2, <2>3
<1>9. RowEnd(begun, z, y)
        = [c \in Cells |->
             IF c[1] = z THEN inSlice(c[2])
             ELSE IF z = 0 /\ c[1] < 0 /\ c[2] \in first .. last THEN inSlice(c[2])
             ELSE begun[c]]
  BY DEF RowEnd, own
<1>10. ASSUME NEW c \in Cells
       PROVE  (IF c[1] = z THEN inSlice(c[2])
               ELSE IF z = 0 /\ c[1] < 0 /\ c[2] \in first .. last THEN inSlice(c[2])
               ELSE begun[c]) = full[c]
  <2>1. c = <<c[1], c[2]>> /\ c[2] \in -YP .. Y+YP-1
    BY CellPair, SMT
  <2>2. inSlice(c[2]) = full[<<z, c[2]>>]
    BY <2>1, <1>7
  <2>3. c[1] # z => c # <<z, y>>
    OBVIOUS
  <2> HIDE DEF inSlice, full
  <2> QED
    BY <2>1, <2>2, <2>3, <1>5, <1>8
<1>11. full = [c \in Cells |-> full[c]]
  BY DEF Contents
<1> HIDE DEF full, inSlice, first, last
<1>12. RowEnd(begun, z, y) = full
  BY <1>9, <1>10, <1>11
<1> QED
  BY <1>12 DEF begun, full

-----------------------------------------------------------------------------
(* Views.                                                                  *)

\* The taps of a model and of the activity stencil: they stay within two slices
\* and three rows, and in the row's own slice they look back.
TapBox ==
    {<<0, 0, "left">>} \cup ({0} \X (-3 .. -1) \X Sides)
                       \cup ({-1, -2} \X (-3 .. 3) \X Sides)

\* Cell <<a, q>>, seen from row <<z, y>>, shows finished rows exactly where it
\* shows them in raster order, where a pad slice shows slice 0.
Settled(done, open, z, y, a, q) ==
    LET src == IF a < 0 THEN 0 ELSE a IN
    /\ q \in 0 .. Y-1 =>
         IF a < z /\ z = 0 THEN (<<0, q>> \in done) <=> q < y
         ELSE <<src, q>> \in done
    /\ q >= Y =>
         IF z = 0 THEN <<0, Y-1>> \notin done ELSE <<src, Y-1>> \in done
    /\ q < 0 /\ a > 0 => <<a, 0>> \in done \cup open

\* A settled cell shows what it shows in raster order.
LEMMA SettledCell ==
    ASSUME NEW done \in SUBSET Rows, NEW open \in SUBSET Rows,
           NEW z \in 0 .. Z-1, NEW y \in 0 .. Y-1,
           NEW a \in Int, NEW q \in Int,
           z-2 <= a, a <= z, y-3 <= q, q <= y+3, a = z => q < y,
           Settled(done, open, z, y, a, q)
    PROVE  Contents(done, open)[<<a, q>>]
             = Contents(Before(z, y), {<<z, y>>})[<<a, q>>]
<1> DEFINE was == Before(z, y)
           now == {<<z, y>>}
<1> USE GeometryFacts
<1>1. <<a, q>> \in Cells
  BY SMT DEF Cells
<1>2. was \in SUBSET Rows
  BY DEF Before
<1>3. z \in Int /\ y \in Int
  BY SMT
<1>4. \A i, j \in Int :
        /\ (<<i, j>> \in was)
             <=> (<<i, j>> \in Rows /\ (i < z \/ (i = z /\ j < y)))
        /\ (<<i, j>> \in Rows) <=> (i \in 0 .. Z-1 /\ j \in 0 .. Y-1)
  BY <1>3, BeforeMember
<1>5. \A d, o : Contents(d, o)[<<a, q>>] =
        IF a < 0
        THEN IF q \in 0 .. Y-1 THEN RealCell(d, {}, 0, q) ELSE PadCell(d, {}, 0, q)
        ELSE IF q \in 0 .. Y-1 THEN RealCell(d, o, a, q) ELSE PadCell(d, o, a, q)
  BY <1>1 DEF Contents
<1>6. CASE a < 0 /\ q \in 0 .. Y-1
  <2>1. (<<0, q>> \in done) <=> (<<0, q>> \in was)
    BY <1>4, <1>6, SMT DEF Settled
  <2> QED
    BY <2>1, <1>5, <1>6 DEF RealCell
<1>7. CASE a < 0 /\ q \notin 0 .. Y-1
  <2>1. q >= Y => ((<<0, Y-1>> \in done) <=> (<<0, Y-1>> \in was))
    BY <1>4, <1>7, SMT DEF Settled
  <2>2. q < 0 \/ q >= Y
    BY <1>7, SMT
  <2> QED
    BY <2>1, <2>2, <1>5, <1>7, SMT DEF PadCell
<1>8. CASE ~ a < 0 /\ q \in 0 .. Y-1
  <2>1. <<a, q>> \in done /\ <<a, q>> \in was
    BY <1>4, <1>8, SMT DEF Settled
  <2> QED
    BY <2>1, <1>5, <1>8 DEF RealCell
<1>9. CASE ~ a < 0 /\ q \notin 0 .. Y-1
  <2>1. q >= Y => ((<<a, Y-1>> \in done) <=> (<<a, Y-1>> \in was))
    BY <1>4, <1>9, SMT DEF Settled
  <2>2. q < 0 /\ a > 0 => <<a, 0>> \in done \cup open /\ <<a, 0>> \in was \cup now
    BY <1>4, <1>9, SMT DEF Settled
  <2>3. q < 0 \/ q >= Y
    BY <1>9, SMT
  <2> QED
    BY <2>1, <2>2, <2>3, <1>5, <1>9, SMT DEF PadCell
<1> QED
  BY <1>6, <1>7, <1>8, <1>9

\* The left pad of a row that has begun shows the row above.
LEMMA OpenLeft ==
    ASSUME NEW done \in SUBSET Rows, NEW open \in SUBSET Rows,
           NEW z \in 0 .. Z-1, NEW y \in 0 .. Y-1,
           <<z, y>> \in open, <<z, y>> \notin done
    PROVE  Contents(done, open)[<<z, y>>]["left"] = Above(z, y)
<1>1. <<z, y>> \in Cells
  BY RowCell
<1>2. Contents(done, open)[<<z, y>>] = RealCell(done, open, z, y)
  BY <1>1, GeometryFacts, SMT DEF Contents
<1> QED
  BY <1>2 DEF RealCell, Whole, Sides

\* A buffer whose cells are settled for every tap gives a row the view of raster
\* order.
LEMMA SettledView ==
    ASSUME NEW done \in SUBSET Rows, NEW open \in SUBSET Rows,
           NEW z \in 0 .. Z-1, NEW y \in 0 .. Y-1,
           NEW T \in SUBSET TapBox,
           NEW b,
           b[<<z, y>>]["left"] = Above(z, y),
           \A c \in Cells : c # <<z, y>> => b[c] = Contents(done, open)[c],
           \A tap \in T : tap # <<0, 0, "left">> =>
               Settled(done, open, z, y, z + tap[1], y + tap[2])
    PROVE  View(b, z, y, T) = RasterView(z, y, T)
<1> DEFINE raster == Contents(Before(z, y), {<<z, y>>})
<1>1. raster[<<z, y>>]["left"] = Above(z, y)
  <2>1. Before(z, y) \in SUBSET Rows /\ <<z, y>> \notin Before(z, y)
    BY SMT DEF Before
  <2>2. {<<z, y>>} \in SUBSET Rows
    BY RowCell
  <2> QED
    BY <2>1, <2>2, OpenLeft
<1>2. ASSUME NEW tap \in T
      PROVE  b[<<z + tap[1], y + tap[2]>>][tap[3]]
               = raster[<<z + tap[1], y + tap[2]>>][tap[3]]
  <2>1. CASE tap = <<0, 0, "left">>
    <3>1. z + tap[1] = z /\ y + tap[2] = y /\ tap[3] = "left"
      BY <2>1, SMT
    <3> QED
      BY <3>1, <1>1
  <2>2. CASE tap # <<0, 0, "left">>
    <3> DEFINE a == z + tap[1]
               q == y + tap[2]
    <3>1. \/ tap \in {0} \X (-3 .. -1) \X Sides
          \/ tap \in {-1, -2} \X (-3 .. 3) \X Sides
      BY <2>2 DEF TapBox
    <3>2. /\ a \in Int /\ q \in Int
          /\ z-2 <= a /\ a <= z /\ y-3 <= q /\ q <= y+3
          /\ a = z => q < y
      BY <3>1, SMT
    <3>3. <<a, q>> \in Cells
      BY <3>2, GeometryFacts, SMT DEF Cells
    <3>4. <<a, q>> # <<z, y>>
      BY <3>2, SMT
    <3>5. Settled(done, open, z, y, a, q)
      BY <2>2
    <3>6. Contents(done, open)[<<a, q>>] = raster[<<a, q>>]
      <4> HIDE DEF a, q
      <4> QED
        BY <3>2, <3>5, SettledCell
    <3> QED
      BY <3>3, <3>4, <3>6
  <2> QED
    BY <2>1, <2>2
<1> QED
  BY <1>2 DEF View, RasterView

\* The taps of every model and of the activity stencil are in the box, and in
\* slice 0 a model uses taps of its own slice only.
LEMMA TapsInBox ==
    /\ ActivityTaps \subseteq TapBox
    /\ \A m \in Radii, z \in 0 .. Z-1 :
          /\ UsedTaps(m, z) \subseteq TapBox
          /\ z = 0 => \A tap \in UsedTaps(m, z) : tap[1] = 0
<1>1. ActivityTaps \subseteq TapBox
  BY SMT DEF ActivityTaps, TapBox, Sides
<1>2. ASSUME NEW m \in Radii
      PROVE  Taps(m) \subseteq TapBox
  <2>1. m.r0 \in 1 .. 3 /\ m.r1 \in -1 .. 3 /\ m.r2 \in -1 .. 3
    BY DEF Radii
  <2>2. SidesWithin(m.r0) \subseteq Sides /\ SidesWithin(m.r1) \subseteq Sides
        /\ SidesWithin(m.r2) \subseteq Sides
    BY DEF SidesWithin, Sides
  <2>3. -m.r0 .. -1 \subseteq -3 .. -1
    BY <2>1, SMT
  <2>4. -m.r1 .. m.r1 \subseteq -3 .. 3 /\ -m.r2 .. m.r2 \subseteq -3 .. 3
    BY <2>1, SMT
  <2> QED
    BY <2>2, <2>3, <2>4 DEF Taps, TapBox
<1> QED
  BY <1>1, <1>2 DEF UsedTaps
=============================================================================
