----------------------------- MODULE LeafProofs -----------------------------
(***************************************************************************)
(* Proofs about a leaf, on its way in and on its way back.                 *)
(*                                                                         *)
(* The encoder's passes read only what precedes a row, for every volume    *)
(* and every model.  The invariant says what the two buffers are: the      *)
(* function of the rows finished so far, in the pass that fills them, and  *)
(* of all rows once the volume is kept for a session.                      *)
(*                                                                         *)
(* The frame decodes every block as its policy coded it, for every set of  *)
(* fits and any number of blocks.  The invariant says of every block, at   *)
(* each step, that its choice stands for the id its policy gave it.        *)
(***************************************************************************)
EXTENDS RasterPass, LeafFrame, PaddedRowsProofs, FiniteSetTheorems, WellFoundedInduction

Passes == {"pad", "predict", "symbols", "done"}

TypeOK ==
    /\ model \in Models
    /\ session \in BOOLEAN
    /\ pass \in Passes
    /\ row \in Rows
    /\ pass = "done" => row = <<0, 0>>
    /\ readB = [r \in Rows |-> readB[r]]
    /\ readE = [r \in Rows |-> readE[r]]

\* Whether the pass at hand fills the padded volume, or finds it whole.
Filling == pass = "pad" \/ (pass = "predict" /\ ~session)

\* The rows the voxels hold are those before the pass's row, or all of them.
Voxels ==
    b = IF Filling THEN Contents(Before(row[1], row[2]), {})
        ELSE Contents(Rows, {})

\* The errors are flat while the volume is padded, and those of the rows before
\* the pass's row in both later passes.
Errors ==
    /\ pass = "pad" => e = Fresh
    /\ pass \in {"predict", "symbols"} => e = Contents(Before(row[1], row[2]), {})

PassInv ==
    /\ TypeOK
    /\ Voxels
    /\ Errors
    /\ PredictionsAreCausal
    /\ ClassesAreCausal

-----------------------------------------------------------------------------
(* The order of the rows.                                                  *)

\* The rows before the pass's next row are those before this one, and this one;
\* after the last row they are all rows.
LEMMA BeforeNextRow ==
    ASSUME row \in Rows
    PROVE  /\ row = LastRow => Before(row[1], row[2]) \cup {row} = Rows
           /\ row # LastRow =>
                /\ NextRow \in Rows
                /\ Before(NextRow[1], NextRow[2]) = Before(row[1], row[2]) \cup {row}
<1> DEFINE z == row[1]
           y == row[2]
<1>1. row = <<z, y>> /\ z \in 0 .. Z-1 /\ y \in 0 .. Y-1
  BY RowPair
<1>2. /\ y < Y-1 => Before(z, y+1) = Before(z, y) \cup {<<z, y>>}
      /\ y = Y-1 /\ z < Z-1 => Before(z+1, 0) = Before(z, y) \cup {<<z, y>>}
      /\ y = Y-1 /\ z = Z-1 => Before(z, y) \cup {<<z, y>>} = Rows
  BY <1>1, BeforeNext
<1>3. row = LastRow => z = Z-1 /\ y = Y-1
  BY DEF LastRow
<1>4. row # LastRow => y < Y-1 \/ (y = Y-1 /\ z < Z-1)
  BY <1>1, GeometryFacts, SMT DEF LastRow
<1>5. y < Y-1 => /\ NextRow[1] = z /\ NextRow[2] = y+1
                 /\ NextRow \in Rows
  BY <1>1, GeometryFacts, SMT DEF NextRow, Rows
<1>6. y = Y-1 /\ z < Z-1 => /\ NextRow[1] = z+1 /\ NextRow[2] = 0
                            /\ NextRow \in Rows
  BY <1>1, GeometryFacts, SMT DEF NextRow, Rows
<1> QED
  BY <1>1, <1>2, <1>3, <1>4, <1>5, <1>6

\* A row begun on the rows before it has the buffer of raster order, and once
\* completed leaves the buffer of the rows before the next.
LEMMA RasterRow ==
    ASSUME row \in Rows
    PROVE  LET z == row[1]  y == row[2]  was == Before(z, y) IN
           /\ RowBegin(Contents(was, {}), z, y) = Contents(was, {row})
           /\ Complete(RowBegin(Contents(was, {}), z, y), z, y)
                = Contents(was \cup {row}, {})
<1> DEFINE z == row[1]
           y == row[2]
           was == Before(z, y)
<1>1. row = <<z, y>> /\ z \in 0 .. Z-1 /\ y \in 0 .. Y-1
  BY RowPair
<1>2. was \in SUBSET Rows /\ row \notin was
  BY BeforeFacts
<1> HIDE DEF z, y
<1>3. y > 0 => <<z, y-1>> \in was
  <2>1. z \in 0 .. Z-1 /\ y \in 0 .. Y-1
    BY <1>1
  <2>2. z \in Int /\ y \in Int /\ y-1 \in Int /\ (y > 0 => y-1 \in 0 .. Y-1 /\ y-1 < y)
    BY <2>1, GeometryFacts, SMT
  <2> QED
    BY <2>1, <2>2, BeforeMember
<1>4. y = 0 /\ z > 0 => <<z-1, 0>> \in was
  <2>1. z \in 0 .. Z-1 /\ y \in 0 .. Y-1
    BY <1>1
  <2>2. /\ z \in Int /\ y \in Int /\ z-1 \in Int /\ 0 \in Int /\ 0 \in 0 .. Y-1
        /\ z > 0 => z-1 \in 0 .. Z-1 /\ z-1 < z
    BY <2>1, GeometryFacts, SMT
  <2> QED
    BY <2>1, <2>2, BeforeMember
<1>5. {row} \in SUBSET Rows /\ was \cup {row} \in SUBSET Rows /\ {} \in SUBSET Rows
  BY <1>2
<1> HIDE DEF was
<1>6. RowBegin(Contents(was, {}), z, y) = Contents(was, {} \cup {<<z, y>>})
  BY <1>1, <1>2, <1>3, <1>4, <1>5, BeginContents
<1>7. RowBegin(Contents(was, {}), z, y) = Contents(was, {row})
  BY <1>6, <1>1
<1>8. Complete(Contents(was, {row}), z, y) = Contents(was \cup {<<z, y>>}, {row})
  BY <1>1, <1>2, <1>5, CompleteContents
<1>9. Contents(was \cup {row}, {row} \cup {}) = Contents(was \cup {row}, {})
  BY <1>5, OpenDone
<1>10. {row} \cup {} = {row}
  OBVIOUS
<1>11. Complete(Contents(was, {row}), z, y) = Contents(was \cup {row}, {})
  BY <1>1, <1>8, <1>9, <1>10
<1> QED
  BY <1>7, <1>11 DEF z, y, was

\* In the whole volume, a row begun again has the view of raster order: its taps
\* reach only rows that are final there too.
LEMMA SessionView ==
    ASSUME NEW z \in 0 .. Z-1, NEW y \in 0 .. Y-1, NEW m \in Radii
    PROVE  View(RowBegin(Contents(Rows, {}), z, y), z, y, UsedTaps(m, z))
             = RasterView(z, y, UsedTaps(m, z))
<1> DEFINE full == Contents(Rows, {})
           begun == RowBegin(full, z, y)
           T == UsedTaps(m, z)
<1> USE GeometryFacts
<1>1. <<z, y>> \in Cells
  BY RowCell
<1>2. begun = [full EXCEPT ![<<z, y>>]["left"] = Above(z, y)]
  BY BeginAgain
<1>3. full = [c \in Cells |-> full[c]]
  BY DEF Contents
<1>4. full[<<z, y>>] = [s \in Sides |-> full[<<z, y>>][s]]
  <2>1. <<z, y>> \in Rows
    BY RowCell
  <2>2. full[<<z, y>>] = RealCell(Rows, {}, z, y)
    BY <1>1, SMT DEF Contents
  <2> QED
    BY <2>1, <2>2 DEF RealCell, Whole
<1>5. begun[<<z, y>>]["left"] = Above(z, y)
  <2> HIDE DEF full, begun
  <2> QED
    BY <1>1, <1>2, <1>3, <1>4 DEF Sides
<1>6. \A c \in Cells : c # <<z, y>> => begun[c] = full[c]
  <2> HIDE DEF full, begun
  <2> QED
    BY <1>2, <1>3
<1>7. T \in SUBSET TapBox /\ (z = 0 => \A tap \in T : tap[1] = 0)
  BY TapsInBox
<1>8. ASSUME NEW tap \in T, tap # <<0, 0, "left">>
      PROVE  Settled(Rows, {}, z, y, z + tap[1], y + tap[2])
  <2>1. \/ tap \in {0} \X (-3 .. -1) \X Sides
        \/ tap \in {-1, -2} \X (-3 .. 3) \X Sides
    BY <1>7, <1>8 DEF TapBox
  <2>2. z = 0 => tap[1] = 0
    BY <1>7
  <2>3. CASE tap \in {0} \X (-3 .. -1) \X Sides
    BY <2>3, SMTT(60) DEF Settled, Rows
  <2>4. CASE tap \in {-1, -2} \X (-3 .. 3) \X Sides
    BY <2>2, <2>4, SMTT(60) DEF Settled, Rows
  <2> QED
    BY <2>1, <2>3, <2>4
<1> HIDE DEF full, begun, T
<1>9. Rows \in SUBSET Rows /\ {} \in SUBSET Rows
  OBVIOUS
<1>10. View(begun, z, y, T) = RasterView(z, y, T)
  BY <1>5, <1>6, <1>7, <1>8, <1>9, SettledView DEF full
<1> QED
  BY <1>10 DEF full, begun, T

-----------------------------------------------------------------------------
(* The invariant.                                                          *)

\* Before the first row nothing is known and nothing was read.
LEMMA InitPass == Init => PassInv
<1> SUFFICES ASSUME Init PROVE PassInv
  OBVIOUS
<1>1. row \in Rows /\ row[1] = 0 /\ row[2] = 0
  BY GeometryFacts, SMT DEF Init, Rows
<1>2. Before(row[1], row[2]) = {}
  BY <1>1, BeforeFacts
<1>3. TypeOK
  BY <1>1 DEF Init, TypeOK, Passes
<1>4. Voxels /\ Errors
  BY <1>2, FreshContents DEF Init, Voxels, Errors, Filling
<1>5. PredictionsAreCausal /\ ClassesAreCausal
  BY DEF Init, PredictionsAreCausal, ClassesAreCausal
<1> QED
  BY <1>3, <1>4, <1>5 DEF PassInv

\* After the pass's row: the rows before the next row of the same pass, or all.
LEMMA AdvanceRow ==
    ASSUME row \in Rows, NEW following, Advance(following)
    PROVE  /\ row' \in Rows
           /\ row = LastRow =>
                /\ pass' = following
                /\ row' = <<0, 0>>
                /\ Before(row'[1], row'[2]) = {}
                /\ Before(row[1], row[2]) \cup {row} = Rows
           /\ row # LastRow =>
                /\ pass' = pass
                /\ Before(row'[1], row'[2]) = Before(row[1], row[2]) \cup {row}
<1>1. CASE row = LastRow
  <2>1. row' = <<0, 0>> /\ row'[1] = 0 /\ row'[2] = 0 /\ pass' = following
    BY <1>1 DEF Advance
  <2>2. <<0, 0>> \in Rows /\ Before(0, 0) = {}
    BY BeforeFacts
  <2>3. Before(row'[1], row'[2]) = {}
    BY <2>1, <2>2
  <2>4. Before(row[1], row[2]) \cup {row} = Rows
    BY <1>1, BeforeNextRow
  <2> QED
    BY <2>1, <2>2, <2>3, <2>4, <1>1
<1>2. CASE row # LastRow
  <2>1. row' = NextRow /\ pass' = pass
    BY <1>2 DEF Advance
  <2>2. /\ NextRow \in Rows
        /\ Before(NextRow[1], NextRow[2]) = Before(row[1], row[2]) \cup {row}
    BY <1>2, BeforeNextRow
  <2> QED
    BY <2>1, <2>2, <1>2
<1> QED
  BY <1>1, <1>2

\* The pad pass enters the next row in raster order.
LEMMA PadRowPass == ASSUME PassInv, PadRow PROVE PassInv'
<1> DEFINE z == row[1]
           y == row[2]
           was == Before(row[1], row[2])
<1>1. row \in Rows /\ pass = "pad" /\ session \in BOOLEAN
  BY DEF PassInv, TypeOK, PadRow
<1>2. Advance("predict") /\ UNCHANGED <<model, session, e, readB, readE>>
  BY DEF PadRow
<1>3. b = Contents(was, {}) /\ e = Fresh
  BY <1>1 DEF PassInv, Voxels, Errors, Filling
<1>4. b' = FitVolume(Contents(was \cup {row}, {}))
  <2>1. b' = FitVolume(Complete(RowBegin(Contents(was, {}), z, y), z, y))
    BY <1>3 DEF PadRow
  <2> QED
    BY <2>1, <1>1, RasterRow
<1>5. TypeOK'
  BY <1>1, <1>2, AdvanceRow DEF PassInv, TypeOK, Passes
<1>6. Voxels' /\ Errors'
  <2>1. CASE row = LastRow
    <3>1. /\ pass' = "predict"
          /\ Before(row[1], row[2])' = {}
          /\ was \cup {row} = Rows
      BY <2>1, <1>1, <1>2, AdvanceRow DEF Before
    <3>2. b' = IF session THEN Contents(Rows, {}) ELSE Fresh
      BY <2>1, <1>1, <1>4, <3>1 DEF FitVolume
    <3> QED
      BY <1>1, <1>2, <1>3, <3>1, <3>2, FreshContents DEF Voxels, Errors, Filling
  <2>2. CASE row # LastRow
    <3>1. pass' = "pad" /\ Before(row[1], row[2])' = was \cup {row}
      BY <2>2, <1>1, <1>2, AdvanceRow DEF Before
    <3>2. b' = Contents(was \cup {row}, {})
      BY <2>2, <1>4 DEF FitVolume
    <3> QED
      BY <1>2, <1>3, <3>1, <3>2 DEF Voxels, Errors, Filling
  <2> QED
    BY <2>1, <2>2
<1>7. PredictionsAreCausal' /\ ClassesAreCausal'
  BY <1>2 DEF PassInv, PredictionsAreCausal, ClassesAreCausal
<1> QED
  BY <1>5, <1>6, <1>7 DEF PassInv

\* A prediction reads what the rows before it determine, whether or not the buffer holds more.
LEMMA PredictRowPass == ASSUME PassInv, PredictRow PROVE PassInv'
<1> DEFINE z == row[1]
           y == row[2]
           was == Before(row[1], row[2])
           begun == RowBegin(b, z, y)
           T == UsedTaps(model, z)
<1>1. /\ row \in Rows /\ pass = "predict" /\ session \in BOOLEAN
      /\ model \in Radii
      /\ readB = [r \in Rows |-> readB[r]]
  BY ModelsAssumption DEF PassInv, TypeOK, PredictRow
<1>2. Advance("symbols") /\ UNCHANGED <<model, session, readE>>
  BY DEF PredictRow
<1>3. row = <<z, y>> /\ z \in 0 .. Z-1 /\ y \in 0 .. Y-1
  BY <1>1, RowPair
<1>4. /\ b = IF session THEN Contents(Rows, {}) ELSE Contents(was, {})
      /\ e = Contents(was, {})
  BY <1>1 DEF PassInv, Voxels, Errors, Filling
<1>5. b' = IF session THEN Contents(Rows, {}) ELSE Contents(was \cup {row}, {})
  <2>1. b' = PredictedVolume(begun, z, y)
    BY DEF PredictRow
  <2>2. CASE session
    BY <2>1, <2>2, <1>3, <1>4, EndAgain DEF PredictedVolume
  <2>3. CASE ~ session
    BY <2>1, <2>3, <1>1, <1>4, RasterRow DEF PredictedVolume
  <2> QED
    BY <2>2, <2>3
<1>6. e' = ErrorsFor(Contents(was \cup {row}, {}))
  <2>1. e' = ErrorsFor(Complete(RowBegin(Contents(was, {}), z, y), z, y))
    BY <1>4 DEF PredictRow
  <2> QED
    BY <2>1, <1>1, RasterRow
<1>7. View(begun, z, y, T) = RasterView(z, y, T)
  <2>1. CASE session
    BY <2>1, <1>1, <1>3, <1>4, SessionView
  <2>2. CASE ~ session
    <3>1. begun = Contents(was, {row})
      BY <2>2, <1>1, <1>4, RasterRow
    <3> QED
      BY <3>1, <1>3 DEF RasterView
  <2> QED
    BY <2>1, <2>2
<1>8. readB' = [readB EXCEPT ![row] = RasterView(z, y, T)]
  BY <1>7 DEF PredictRow
<1>9. TypeOK'
  <2>1. row' \in Rows /\ pass' \in {"predict", "symbols"}
    BY <1>1, <1>2, AdvanceRow
  <2>2. readB' = [r \in Rows |-> readB'[r]]
    BY <1>1, <1>8
  <2> QED
    BY <2>1, <2>2, <1>2 DEF PassInv, TypeOK, Passes
<1>10. Voxels' /\ Errors'
  <2>1. CASE row = LastRow
    <3>1. /\ pass' = "symbols"
          /\ Before(row[1], row[2])' = {}
          /\ was \cup {row} = Rows
      BY <2>1, <1>1, <1>2, AdvanceRow DEF Before
    <3>2. b' = Contents(Rows, {})
      BY <1>5, <3>1
    <3>3. e' = Contents({}, {})
      BY <2>1, <1>6, FreshContents DEF ErrorsFor
    <3> QED
      BY <3>1, <3>2, <3>3 DEF Voxels, Errors, Filling
  <2>2. CASE row # LastRow
    <3>1. pass' = "predict" /\ Before(row[1], row[2])' = was \cup {row}
      BY <2>2, <1>1, <1>2, AdvanceRow DEF Before
    <3>2. e' = Contents(was \cup {row}, {})
      BY <2>2, <1>6 DEF ErrorsFor
    <3> QED
      BY <1>1, <1>2, <1>5, <3>1, <3>2 DEF Voxels, Errors, Filling
  <2> QED
    BY <2>1, <2>2
<1>11. PredictionsAreCausal'
  <2> SUFFICES ASSUME NEW r \in Rows, readB'[r] # Unread
               PROVE  readB'[r] = RasterView(r[1], r[2], UsedTaps(model, r[1]))
    BY <1>2 DEF PredictionsAreCausal, Unread
  <2>1. CASE r = row
    BY <2>1, <1>1, <1>8
  <2>2. CASE r # row
    <3>1. readB'[r] = readB[r]
      BY <2>2, <1>1, <1>8
    <3> QED
      BY <3>1 DEF PassInv, PredictionsAreCausal
  <2> QED
    BY <2>1, <2>2
<1>12. ClassesAreCausal'
  BY <1>2 DEF PassInv, ClassesAreCausal
<1> QED
  BY <1>9, <1>10, <1>11, <1>12 DEF PassInv

\* So does a class, from the errors.
LEMMA SymbolRowPass == ASSUME PassInv, SymbolRow PROVE PassInv'
<1> DEFINE z == row[1]
           y == row[2]
           was == Before(row[1], row[2])
           begun == RowBegin(e, z, y)
<1>1. /\ row \in Rows /\ pass = "symbols"
      /\ readE = [r \in Rows |-> readE[r]]
  BY DEF PassInv, TypeOK, SymbolRow
<1>2. Advance("done") /\ UNCHANGED <<model, session, b, readB>>
  BY DEF SymbolRow
<1>3. row = <<z, y>>
  BY <1>1, RowPair
<1>4. b = Contents(Rows, {}) /\ e = Contents(was, {})
  BY <1>1 DEF PassInv, Voxels, Errors, Filling
<1>5. begun = Contents(was, {row})
  BY <1>1, <1>4, RasterRow
<1>6. e' = Contents(was \cup {row}, {})
  <2>1. e' = Complete(RowBegin(Contents(was, {}), z, y), z, y)
    BY <1>4 DEF SymbolRow
  <2> QED
    BY <2>1, <1>1, RasterRow
<1>7. readE' = [readE EXCEPT ![row] = RasterView(z, y, ActivityTaps)]
  BY <1>3, <1>5 DEF SymbolRow, RasterView
<1>8. TypeOK'
  <2>1. /\ row' \in Rows /\ pass' \in {"symbols", "done"}
        /\ pass' = "done" => row' = <<0, 0>>
    BY <1>1, <1>2, AdvanceRow
  <2>2. readE' = [r \in Rows |-> readE'[r]]
    BY <1>1, <1>7
  <2> QED
    BY <2>1, <2>2, <1>2 DEF PassInv, TypeOK, Passes
<1>9. Voxels' /\ Errors'
  <2>1. CASE row = LastRow
    BY <2>1, <1>1, <1>2, <1>4, AdvanceRow DEF Voxels, Errors, Filling
  <2>2. CASE row # LastRow
    <3>1. pass' = "symbols" /\ Before(row[1], row[2])' = was \cup {row}
      BY <2>2, <1>1, <1>2, AdvanceRow DEF Before
    <3> QED
      BY <3>1, <1>2, <1>4, <1>6 DEF Voxels, Errors, Filling
  <2> QED
    BY <2>1, <2>2
<1>10. PredictionsAreCausal'
  BY <1>2 DEF PassInv, PredictionsAreCausal
<1>11. ClassesAreCausal'
  <2> SUFFICES ASSUME NEW r \in Rows, readE'[r] # Unread
               PROVE  readE'[r] = RasterView(r[1], r[2], ActivityTaps)
    BY DEF ClassesAreCausal, Unread
  <2>1. CASE r = row
    BY <2>1, <1>1, <1>7
  <2>2. CASE r # row
    <3>1. readE'[r] = readE[r]
      BY <2>2, <1>1, <1>7
    <3> QED
      BY <3>1 DEF PassInv, ClassesAreCausal
  <2> QED
    BY <2>1, <2>2
<1> QED
  BY <1>8, <1>9, <1>10, <1>11 DEF PassInv

\* The next candidate of a session finds the whole volume and no errors.
LEMMA NextCandidatePass == ASSUME PassInv, NextCandidate PROVE PassInv'
<1>1. /\ pass = "done" /\ session /\ pass' = "predict" /\ e' = Fresh
      /\ UNCHANGED <<model, session, row, b, readB, readE>>
  BY DEF NextCandidate
<1>2. row = <<0, 0>> /\ row[1] = 0 /\ row[2] = 0 /\ row \in Rows
  BY <1>1 DEF PassInv, TypeOK
<1>3. Before(row[1], row[2])' = {}
  BY <1>1, <1>2, BeforeFacts DEF Before
<1>4. Voxels' /\ Errors'
  BY <1>1, <1>3, FreshContents DEF PassInv, Voxels, Errors, Filling
<1>5. TypeOK'
  BY <1>1 DEF PassInv, TypeOK, Passes
<1>6. PredictionsAreCausal' /\ ClassesAreCausal'
  BY <1>1 DEF PassInv, PredictionsAreCausal, ClassesAreCausal
<1> QED
  BY <1>4, <1>5, <1>6 DEF PassInv

\* Every step keeps the invariant.
LEMMA NextPass == ASSUME PassInv, [Next]_vars PROVE PassInv'
<1>1. CASE UNCHANGED vars
  <2>1. UNCHANGED <<model, session, pass, row, b, e, readB, readE>>
    BY <1>1 DEF vars
  <2>2. TypeOK' /\ Voxels' /\ Errors'
    BY <2>1 DEF PassInv, TypeOK, Voxels, Errors, Filling
  <2>3. PredictionsAreCausal' /\ ClassesAreCausal'
    BY <2>1 DEF PassInv, PredictionsAreCausal, ClassesAreCausal
  <2> QED
    BY <2>2, <2>3 DEF PassInv
<1> QED
  BY <1>1, PadRowPass, PredictRowPass, SymbolRowPass, NextCandidatePass DEF Next

-----------------------------------------------------------------------------
\* The buffers are what PassInv says, in every pass of every run.
THEOREM PassInvariant == Spec => []PassInv
<1>1. Init => PassInv
  BY InitPass
<1>2. PassInv /\ [Next]_vars => PassInv'
  BY NextPass
<1> QED
  BY <1>1, <1>2, PTL DEF Spec

\* ng_predict and the fit read of the padded volume only what a raster traversal
\* would have given them, also within a session, whose volume is whole.
THEOREM PredictionsCausal == Spec => []PredictionsAreCausal
<1>1. PassInv => PredictionsAreCausal
  BY DEF PassInv
<1> QED
  BY <1>1, PassInvariant, PTL

\* The symbol pass classes every row from the errors of earlier rows only.
THEOREM ClassesCausal == Spec => []ClassesAreCausal
<1>1. PassInv => ClassesAreCausal
  BY DEF PassInv
<1> QED
  BY <1>1, PassInvariant, PTL

\* Within a session every later pass leaves the padded volume as it was.
THEOREM SessionKept == Spec => SessionKeepsVolume
<1>1. ASSUME PassInv, [Next]_vars, session, pass # "pad"
      PROVE  b' = b
  <2>1. b = Contents(Rows, {})
    BY <1>1 DEF PassInv, Voxels, Filling
  <2>2. CASE PredictRow
    <3>1. row \in Rows
      BY <1>1 DEF PassInv, TypeOK
    <3>2. row[1] \in 0 .. Z-1 /\ row[2] \in 0 .. Y-1
      BY <3>1, RowPair
    <3>3. b' = RowEnd(RowBegin(b, row[1], row[2]), row[1], row[2])
      BY <1>1, <2>2 DEF PredictRow, PredictedVolume
    <3> QED
      BY <2>1, <3>2, <3>3, EndAgain
  <2>3. CASE SymbolRow \/ NextCandidate \/ UNCHANGED vars
    BY <2>3 DEF SymbolRow, NextCandidate, vars
  <2>4. ~ PadRow
    BY <1>1 DEF PadRow
  <2> QED
    BY <1>1, <2>2, <2>3, <2>4 DEF Next
<1>2. PassInv /\ [Next]_vars => (session /\ pass # "pad" => b' = b)
  BY <1>1
<1>3. PassInv /\ [Next]_vars => [session /\ pass # "pad" => b' = b]_vars
  BY <1>2
<1> QED
  BY <1>3, PassInvariant, PTL DEF Spec, SessionKeepsVolume

-----------------------------------------------------------------------------
(* Places in a finite set of numbers.                                      *)

Less == {x \in Nat \X Nat : x[1] < x[2]}

\* A set of numbers that is not empty has a least one.
LEMMA LeastNumber ==
    ASSUME NEW T, T \subseteq Nat, T # {}
    PROVE  \E x \in T : \A y \in T : x <= y
<1>1. IsWellFoundedOn(Less, Nat)
  <2>1. IsWellFoundedOn(OpToRel(<, Nat), Nat)
    BY NatLessThanWellFounded
  <2>2. OpToRel(<, Nat) = Less
    BY DEF OpToRel, Less
  <2>. QED BY <2>1, <2>2
<1>2. PICK x \in T : \A y \in T : ~ (<<y, x>> \in Less)
  BY <1>1, WFMin, Zenon
<1>3. ASSUME NEW y \in T
      PROVE  x <= y
  <2>1. x \in Nat /\ y \in Nat /\ ~ (<<y, x>> \in Less)
    BY <1>2
  <2>2. y < x => <<y, x>> \in Less
    BY <2>1 DEF Less
  <2>. QED BY <2>1, <2>2
<1>. QED BY <1>3

\* The least number of a set is in it.
LEMMA MinIsLeast ==
    ASSUME NEW T, T \subseteq Nat, T # {}
    PROVE  Min(T) \in T /\ \A y \in T : Min(T) <= y
<1> DEFINE Least(x) == \A y \in T : x <= y
           m == CHOOSE x \in T : Least(x)
<1>1. \E x \in T : Least(x)
  BY LeastNumber
<1>2. Min(T) = m
  BY DEF Min
<1>3. m \in T /\ Least(m)
  <2>. HIDE DEF Least
  <2>. QED BY <1>1
<1>. HIDE DEF m
<1>. QED BY <1>2, <1>3

\* Ranks count from 0 and follow the order.
LEMMA RankFacts ==
    ASSUME NEW S, S \subseteq Nat, IsFiniteSet(S), NEW i \in S
    PROVE  /\ Rank(S, i) \in 0 .. Cardinality(S) - 1
           /\ \A j \in S : i < j => Rank(S, i) < Rank(S, j)
<1> DEFINE B(j) == {k \in S : k < j}
<1>1. \A j \in S : /\ IsFiniteSet(B(j)) /\ Cardinality(B(j)) \in Nat
                   /\ B(j) \in SUBSET (S \ {j})
  BY FS_Subset, FS_CardinalityType
<1>2. /\ IsFiniteSet(S \ {i}) /\ Cardinality(S \ {i}) = Cardinality(S) - 1
      /\ Cardinality(S) \in Nat
  <2>1. IsFiniteSet(S \ {i}) /\ Cardinality(S \ {i}) = Cardinality(S) - 1
    BY FS_RemoveElement
  <2>2. Cardinality(S) \in Nat
    BY FS_CardinalityType
  <2>. QED BY <2>1, <2>2
<1>3. Cardinality(B(i)) <= Cardinality(S \ {i})
  BY <1>1, <1>2, FS_Subset
<1>4. ASSUME NEW j \in S, i < j
      PROVE  Cardinality(B(i)) < Cardinality(B(j))
  <2>0. \A k \in S : k \in Nat
    OBVIOUS
  <2>1. B(i) \cup {i} \in SUBSET B(j) /\ i \notin B(i)
    <3>1. \A k \in B(i) : k \in S /\ k < j
      BY <2>0, <1>4
    <3>2. ~ (i < i)
      BY <2>0
    <3>. QED BY <3>1, <3>2, <1>4
  <2>2. Cardinality(B(i) \cup {i}) = Cardinality(B(i)) + 1
    BY <1>1, <2>1, FS_AddElement
  <2>3. Cardinality(B(i) \cup {i}) <= Cardinality(B(j))
    BY <1>1, <2>1, FS_Subset
  <2>. QED BY <2>2, <2>3, <1>1
<1>5. \A j \in S : Rank(S, j) = Cardinality(B(j))
  BY DEF Rank
<1>. HIDE DEF B
<1>. QED BY <1>1, <1>2, <1>3, <1>4, <1>5

\* The element at a place is the one of that rank, and every element has a place.
LEMMA NthFacts ==
    ASSUME NEW S, S \subseteq Nat, IsFiniteSet(S)
    PROVE  /\ \A n \in 1 .. Cardinality(S) : Nth(S, n) \in S /\ Rank(S, Nth(S, n)) = n - 1
           /\ \A i \in S : Nth(S, Rank(S, i) + 1) = i
<1> DEFINE N == Cardinality(S)
           T == 0 .. N - 1
           f == [i \in S |-> Rank(S, i)]
<1>1. N \in Nat /\ IsFiniteSet(T) /\ Cardinality(T) = N
  <2>1. N \in Nat
    BY FS_CardinalityType
  <2>. HIDE DEF N
  <2>2. 0 \in Int /\ N - 1 \in Int /\ (IF 0 > N - 1 THEN 0 ELSE ((N - 1) - 0) + 1) = N
    BY <2>1
  <2>. QED BY <2>1, <2>2, FS_Interval
<1>2. \A i \in S : Rank(S, i) \in T
  BY RankFacts
<1>3. \A i, j \in S : Rank(S, i) = Rank(S, j) => i = j
  <2>1. \A i, j \in S : i < j => Rank(S, i) < Rank(S, j)
    BY RankFacts
  <2>. QED BY <2>1, <1>2, <1>1
<1>4. f \in Injection(S, T)
  BY <1>2, <1>3 DEF Injection, IsInjective
<1>5. f \in Surjection(S, T)
  BY <1>1, <1>4, FS_Injection
<1>6. \A n \in 1 .. N : \E i \in S : Rank(S, i) = n - 1
  <2>1. \A t \in T : \E i \in S : f[i] = t
    BY <1>5 DEF Surjection
  <2>2. \A n \in 1 .. N : n - 1 \in T
    BY <1>1
  <2>. QED BY <2>1, <2>2
<1>7. \A n \in 1 .. N : Nth(S, n) \in S /\ Rank(S, Nth(S, n)) = n - 1
  BY <1>6 DEF Nth
<1>8. ASSUME NEW i \in S
      PROVE  Nth(S, Rank(S, i) + 1) = i
  <2>1. PICK n : n = Rank(S, i) + 1
    OBVIOUS
  <2>2. n \in 1 .. N /\ n - 1 = Rank(S, i)
    BY <2>1, <1>2, <1>1
  <2>3. Nth(S, n) \in S /\ Rank(S, Nth(S, n)) = Rank(S, i)
    BY <2>2, <1>7
  <2>. QED BY <2>1, <2>3, <1>3
<1>. QED BY <1>7, <1>8

-----------------------------------------------------------------------------
(* Lists of the ids that a set of blocks, or of choices, meets.            *)

\* What a list of the ids of S is.
IsList(S, of) ==
    /\ Firsts(S, of) \subseteq S /\ IsFiniteSet(Firsts(S, of))
    /\ Listed(S, of) \in Seq(S)
    /\ Len(Listed(S, of)) = Cardinality(Firsts(S, of))
    /\ Cardinality(Firsts(S, of)) \in Nat
    /\ \A n \in 1 .. Len(Listed(S, of)) :
         Listed(S, of)[n] \in S /\ Listed(S, of)[n] \in Firsts(S, of)
    /\ \A c \in S : /\ Place(S, of, c) \in 0 .. Len(Listed(S, of)) - 1
                    /\ Listed(S, of)[Place(S, of, c) + 1] \in S
                    /\ of[Listed(S, of)[Place(S, of, c) + 1]] = of[c]

\* What every element finds at its place of a list is its own id.
LEMMA ListFacts ==
    ASSUME NEW S, S \subseteq Nat, IsFiniteSet(S), NEW of
    PROVE  IsList(S, of)
<1> DEFINE F == Firsts(S, of)
           L == Listed(S, of)
<1>1. F \subseteq S /\ F \subseteq Nat /\ IsFiniteSet(F) /\ Cardinality(F) \in Nat
  <2>1. F \in SUBSET S
    BY DEF Firsts
  <2>. QED BY <2>1, FS_Subset, FS_CardinalityType
<1>2. \A n \in 1 .. Cardinality(F) : Nth(F, n) \in F /\ Nth(F, n) \in S
  BY <1>1, NthFacts
<1>3. L = [n \in 1 .. Cardinality(F) |-> Nth(F, n)]
  BY DEF Listed
<1>. HIDE DEF F, L
<1>4. L \in Seq(S) /\ Len(L) = Cardinality(F)
  BY <1>1, <1>2, <1>3
<1>5. ASSUME NEW c \in S
      PROVE  /\ Place(S, of, c) \in 0 .. Cardinality(F) - 1
             /\ L[Place(S, of, c) + 1] = FirstOf(S, of, c)
             /\ FirstOf(S, of, c) \in S
             /\ of[FirstOf(S, of, c)] = of[c]
  <2> DEFINE C == {d \in S : of[d] = of[c]}
  <2>1. FirstOf(S, of, c) = Min(C)
    BY DEF FirstOf
  <2>2. C \subseteq Nat /\ C # {}
    OBVIOUS
  <2>3. Min(C) \in C /\ \A y \in C : Min(C) <= y
    <3>. HIDE DEF C
    <3>. QED BY <2>2, MinIsLeast
  <2>4. PICK m : m = FirstOf(S, of, c)
    OBVIOUS
  <2>5. m \in S /\ of[m] = of[c] /\ \A d \in S : of[d] = of[c] => m <= d
    BY <2>1, <2>3, <2>4
  <2>6. m \in F
    <3>1. \A d \in S : d < m => of[d] # of[m]
      <4>1. \A d \in S : of[d] = of[m] => m <= d
        BY <2>5
      <4>2. \A d \in S : d \in Nat /\ m \in Nat
        BY <2>5
      <4>. QED BY <4>1, <4>2
    <3>. QED BY <2>5, <3>1 DEF F, Firsts
  <2>7. Rank(F, m) \in 0 .. Cardinality(F) - 1 /\ Nth(F, Rank(F, m) + 1) = m
    BY <1>1, <2>6, RankFacts, NthFacts
  <2>8. PICK r : r = Rank(F, m)
    OBVIOUS
  <2>9. Place(S, of, c) = r
    BY <2>8, <2>4 DEF Place, F
  <2>10. r + 1 \in 1 .. Cardinality(F)
    BY <2>7, <2>8, <1>1
  <2>11. L[r + 1] = m
    BY <2>10, <2>7, <2>8, <1>3
  <2>. QED BY <2>9, <2>11, <2>7, <2>8, <2>4, <2>5
<1>6. \A n \in 1 .. Len(L) : L[n] \in S /\ L[n] \in F
  BY <1>2, <1>3, <1>4
<1>. QED BY <1>1, <1>4, <1>5, <1>6 DEF F, L, IsList

\* A list is no longer than the number of ids there are.
LEMMA ListBound ==
    ASSUME NEW S, S \subseteq Nat, IsFiniteSet(S), NEW of, NEW V, IsFiniteSet(V),
           \A c \in S : of[c] \in V
    PROVE  Len(Listed(S, of)) <= Cardinality(V)
<1> DEFINE F == Firsts(S, of)
           g == [i \in F |-> of[i]]
<1>1. F \subseteq S /\ Len(Listed(S, of)) = Cardinality(F)
  BY ListFacts DEF IsList
<1>2. \A i, j \in F : of[i] = of[j] => i = j
  <2>1. \A i, j \in F : i < j => of[i] # of[j]
    BY DEF Firsts
  <2>2. \A i \in F : i \in Nat
    BY <1>1
  <2>. QED BY <2>1, <2>2
<1>3. \A i \in F : of[i] \in V
  BY <1>1
<1>. HIDE DEF F
<1>4. g \in Injection(F, V)
  BY <1>2, <1>3 DEF Injection, IsInjective
<1>5. Cardinality(F) <= Cardinality(V)
  BY <1>4, FS_Injection
<1>. QED BY <1>1, <1>5

-----------------------------------------------------------------------------
(* MenuChoices, and what a block with a choice is decoded with.                *)

MenuChoices == [predictor : 0 .. 12, model : Nat, entropy : Nat, weights : Fits \cup {None}]

\* A choice is no prediction, a predictor alone, or one with a model of ms, whose
\* weights it then has unless it predicts nothing of its own.
Sound(c, ms) ==
    \/ c.predictor \in 0 .. 12 /\ c.model = NoModel /\ c.weights = None
    \/ /\ c.predictor \in 0 .. 11 /\ c.model \in 0 .. Len(ms) - 1
       /\ c.weights = IF c.predictor = 0 THEN None ELSE ms[c.model + 1]

Reads(c, ms) ==
    [predictor |-> IF c.predictor = ZeroPredictor THEN 0 ELSE c.predictor,
     fit |-> IF c.model = NoModel THEN None ELSE ms[c.model + 1],
     weights |-> c.weights]

\* What the encoder is given, and what the decoder finds in the file: at most n
\* choices in at most m banks.
Packed(f, n, m) ==
    /\ f.models \in Seq(Fits) /\ Len(f.models) <= 3
    /\ f.menu \in Seq(MenuChoices) /\ Len(f.menu) \in 1 .. n
    /\ \A i \in 1 .. Len(f.menu) : Sound(f.menu[i], f.models) /\ f.menu[i].entropy < m
    /\ f.selectors \in [Blocks -> Nat]
    /\ \A x \in Blocks : f.selectors[x] < Len(f.menu)

\* The ids of a policy name its models.
Planned(fs, of) ==
    /\ fs \in Seq(Fits)
    /\ of \in [Blocks -> Nat]
    /\ \A x \in Blocks : of[x] \div 12 <= Len(fs)

Tells(f, fs, of, x) ==
    Reads(Of(f.menu, f.selectors, x), f.models) = Coding(fs, of[x])

\* What a policy hands to the frame encoder.
Submitted(fs, of, f) ==
    /\ Planned(fs, of)
    /\ f = Fitted(fs, f.models, f.menu, f.selectors, f.zeros)
    /\ Packed(f, 3, 3)
    /\ f.zeros \subseteq Blocks
    /\ \A x \in Blocks \ f.zeros : Tells(f, fs, of, x)
    /\ \A x \in f.zeros : of[x] = 0

\* An id is a predictor and the number of a model.
LEMMA IdFacts ==
    ASSUME NEW id \in Nat
    PROVE  /\ id \div 12 \in Nat /\ id % 12 \in 0 .. 11
           /\ id = 12 * (id \div 12) + (id % 12)
           /\ id < 12 <=> id \div 12 = 0
           /\ id < 12 => id % 12 = id
OBVIOUS

LEMMA IdOf ==
    ASSUME NEW k \in Nat, NEW p \in 0 .. 11
    PROVE  /\ 12 * k + p \in Nat
           /\ (12 * k + p) \div 12 = k
           /\ (12 * k + p) % 12 = p
<1>1. PICK id : id = 12 * k + p
  OBVIOUS
<1>2. id \in Nat
  BY <1>1
<1>3. id = 12 * (id \div 12) + (id % 12) /\ id \div 12 \in Nat /\ id % 12 \in 0 .. 11
  BY <1>2
<1>. QED BY <1>1, <1>2, <1>3

\* The model m of ms is the one the id names.
Names(fs, ms, id, m) ==
    \/ id < 12 /\ m = NoModel
    \/ id >= 12 /\ m \in 0 .. Len(ms) - 1 /\ ms[m + 1] = fs[id \div 12]

Within(fs, id) == id \in Nat /\ id \div 12 <= Len(fs)

\* A choice in this bank that codes as the id says.
Serves(c, ms, bank, fs, id) ==
    /\ c \in MenuChoices /\ Sound(c, ms) /\ c.entropy = bank
    /\ Reads(c, ms) = Coding(fs, id)

\* The choice in this bank for an id whose model is numbered m.
Entry(fs, id, m, bank) == Choice(id % 12, m, bank, Weights(fs, id))

\* The choice a policy lists for an id codes as the id says.
LEMMA EntryFacts ==
    ASSUME NEW fs \in Seq(Fits), NEW ms \in Seq(Fits), Len(ms) <= 3,
           NEW id, Within(fs, id), NEW m, Names(fs, ms, id, m), NEW bank \in Nat,
           NEW c, c = Entry(fs, id, m, bank)
    PROVE  Serves(c, ms, bank, fs, id)
<1>0. /\ id \in Nat /\ id \div 12 <= Len(fs)
      /\ \/ id < 12 /\ m = NoModel
         \/ id >= 12 /\ m \in 0 .. Len(ms) - 1 /\ ms[m + 1] = fs[id \div 12]
  BY DEF Within, Names
<1>6. c = Choice(id % 12, m, bank, Weights(fs, id))
  BY DEF Entry
<1>1. PICK k, p : k = id \div 12 /\ p = id % 12
  OBVIOUS
<1>2. k \in Nat /\ p \in 0 .. 11 /\ (id < 12 <=> k = 0) /\ k <= Len(fs)
  BY <1>0, <1>1, IdFacts
<1>3. PICK w : w = Weights(fs, id)
  OBVIOUS
<1>4. CASE id < 12 /\ m = NoModel
  <2>1. w = None /\ FitOf(fs, id) = None
    BY <1>3, <1>4 DEF Weights, FitOf
  <2>2. Coding(fs, id) = [predictor |-> p, fit |-> None, weights |-> None]
    BY <2>1, <1>1, <1>3 DEF Coding
  <2>. QED BY <1>1, <1>2, <1>3, <1>4, <1>6, <2>1, <2>2
       DEF Serves, Choice, MenuChoices, Sound, Reads, NoModel, ZeroPredictor
<1>5. CASE id >= 12 /\ m \in 0 .. Len(ms) - 1 /\ ms[m + 1] = fs[id \div 12]
  <2>1. k \in 1 .. Len(fs) /\ m \in Nat /\ m + 1 \in 1 .. Len(ms) /\ m # NoModel
    BY <1>0, <1>2, <1>5 DEF NoModel
  <2>2. fs[k] \in Fits /\ ms[m + 1] = fs[k]
    BY <1>1, <1>5, <2>1
  <2>3. FitOf(fs, id) = fs[k]
    BY <1>0, <1>1, <1>5 DEF FitOf
  <2>4. w = IF p = 0 THEN None ELSE fs[k]
    BY <1>1, <1>3, <2>3 DEF Weights
  <2>5. Coding(fs, id) = [predictor |-> p, fit |-> fs[k], weights |-> w]
    BY <2>3, <1>1, <1>3 DEF Coding
  <2>6. w \in Fits \cup {None}
    BY <2>2, <2>4
  <2>. QED BY <1>1, <1>2, <1>3, <1>5, <1>6, <2>1, <2>2, <2>4, <2>5, <2>6, SMTT(30)
       DEF Serves, Choice, MenuChoices, Sound, Reads, ZeroPredictor
<1>. QED BY <1>0, <1>4, <1>5

\* A choice without prediction codes as id 0 says.
LEMMA ZeroFacts ==
    ASSUME NEW bank \in Nat, NEW ms, NEW fs
    PROVE  Serves(ZeroChoice(bank), ms, bank, fs, 0)
<1>1. Coding(fs, 0) = [predictor |-> 0, fit |-> None, weights |-> None]
  BY DEF Coding, FitOf, Weights
<1>. QED BY <1>1 DEF Serves, ZeroChoice, Choice, MenuChoices, Sound, Reads, ZeroPredictor, NoModel

\* A coding is one of the codings.
LEMMA CodingFacts ==
    ASSUME NEW fs, NEW of, Planned(fs, of), NEW x \in Blocks
    PROVE  Coding(fs, of[x]) \in Codings
<1>1. PICK id \in Nat : id = of[x]
  BY DEF Planned
<1>2. PICK k, p : k = id \div 12 /\ p = id % 12
  OBVIOUS
<1>3. k \in Nat /\ p \in 0 .. 11 /\ (id < 12 <=> k = 0) /\ k <= Len(fs) /\ fs \in Seq(Fits)
  BY <1>1, <1>2, IdFacts DEF Planned
<1>4. FitOf(fs, id) \in Fits \cup {None}
  <2>1. CASE id < 12
    BY <2>1 DEF FitOf
  <2>2. CASE ~ (id < 12)
    <3>1. fs[k] \in Fits
      BY <2>2, <1>3
    <3>. QED BY <2>2, <3>1, <1>2 DEF FitOf
  <2>. QED BY <2>1, <2>2
<1>5. Weights(fs, id) \in Fits \cup {None}
  BY <1>4 DEF Weights
<1>. QED BY <1>1, <1>2, <1>3, <1>4, <1>5 DEF Coding, Codings

LEMMA BlocksFacts == Blocks \subseteq Nat /\ IsFiniteSet(Blocks) /\ 1 \in Blocks
<1>1. NB \in Int /\ 1 \in Int /\ 1 <= NB
  BY BlocksAssumption
<1>2. IsFiniteSet(1 .. NB)
  BY <1>1, FS_Interval
<1>. QED BY <1>1, <1>2 DEF Blocks

\* A list has a choice for every id the blocks of bs meet, with models md and banks bk.
Lists(list, bs, of, fs, ms, md, bk) ==
    LET first == Listed(bs, of)
    IN  /\ list = [i \in 1 .. Len(first) |-> list[i]]
        /\ \A i \in 1 .. Len(first) :
             /\ list[i] = Choice(of[first[i]] % 12, md[i], bk[i], Weights(fs, of[first[i]]))
             /\ Names(fs, ms, of[first[i]], md[i])
             /\ bk[i] \in Nat

\* It is a menu that serves each of the blocks at its place.
IsMenu(list, bs, of, fs, ms, bk, n) ==
    /\ list \in Seq(MenuChoices)
    /\ Len(list) \in 1 .. n
    /\ \A i \in 1 .. Len(list) : Sound(list[i], ms) /\ list[i].entropy = bk[i]
    /\ \A x \in bs : /\ Place(bs, of, x) \in 0 .. Len(list) - 1
                     /\ Reads(list[Place(bs, of, x) + 1], ms) = Coding(fs, of[x])

LEMMA PairSize ==
    ASSUME NEW x, NEW y
    PROVE  /\ IsFiniteSet({x, y}) /\ Cardinality({x, y}) \in Nat
           /\ Cardinality({x, y}) <= 2
<1>1. IsFiniteSet({y}) /\ Cardinality({y}) = 1
  BY FS_Singleton
<1>2. CASE x = y
  <2>1. {x, y} = {y}
    BY <1>2
  <2>. QED BY <1>1, <2>1
<1>3. CASE x # y
  <2>1. {x, y} = {y} \cup {x} /\ x \notin {y}
    BY <1>3
  <2>2. IsFiniteSet({y} \cup {x}) /\ Cardinality({y} \cup {x}) = Cardinality({y}) + 1
    BY <1>1, <2>1, FS_AddElement
  <2>. QED BY <1>1, <2>1, <2>2
<1>. QED BY <1>2, <1>3

\* A menu listed for the ids of some blocks serves each of them at its place.
LEMMA ListedMenu ==
    ASSUME NEW fs, NEW of, Planned(fs, of), NEW ms \in Seq(Fits), Len(ms) <= 3,
           NEW bs \in SUBSET Blocks, bs # {},
           NEW V, IsFiniteSet(V), \A x \in bs : of[x] \in V,
           NEW list, NEW md, NEW bk, Lists(list, bs, of, fs, ms, md, bk)
    PROVE  IsMenu(list, bs, of, fs, ms, bk, Cardinality(V))
<1> DEFINE L == Listed(bs, of)
<1>1. bs \subseteq Nat /\ IsFiniteSet(bs)
  BY BlocksFacts, FS_Subset
<1>2. /\ L \in Seq(bs) /\ Len(L) \in Nat
      /\ \A i \in 1 .. Len(L) : L[i] \in bs
      /\ \A x \in bs : /\ Place(bs, of, x) \in 0 .. Len(L) - 1
                       /\ of[L[Place(bs, of, x) + 1]] = of[x]
  <2>1. /\ Listed(bs, of) \in Seq(bs)
        /\ \A n \in 1 .. Len(Listed(bs, of)) : Listed(bs, of)[n] \in bs
        /\ \A x \in bs : /\ Place(bs, of, x) \in 0 .. Len(Listed(bs, of)) - 1
                         /\ of[Listed(bs, of)[Place(bs, of, x) + 1]] = of[x]
    <3>1. IsList(bs, of)
      BY <1>1, ListFacts
    <3>. QED BY <3>1 DEF IsList
  <2>2. Len(Listed(bs, of)) \in Nat
    BY <2>1
  <2>. QED BY <2>1, <2>2
<1>3. Len(L) <= Cardinality(V) /\ Cardinality(V) \in Nat
  BY <1>1, ListBound, FS_CardinalityType
<1>. HIDE DEF L
<1>4. \A i \in 1 .. Len(L) :
         /\ list[i] = Choice(of[L[i]] % 12, md[i], bk[i], Weights(fs, of[L[i]]))
         /\ Names(fs, ms, of[L[i]], md[i]) /\ bk[i] \in Nat
  BY DEF L, Lists
<1>5. list = [i \in 1 .. Len(L) |-> list[i]]
  BY DEF L, Lists
<1>6. ASSUME NEW i \in 1 .. Len(L)
      PROVE  /\ list[i] \in MenuChoices /\ Sound(list[i], ms) /\ list[i].entropy = bk[i]
             /\ Reads(list[i], ms) = Coding(fs, of[L[i]])
  <2>1. PICK id : id = of[L[i]]
    OBVIOUS
  <2>2. id \in Nat /\ id \div 12 <= Len(fs) /\ fs \in Seq(Fits)
    BY <2>1, <1>2 DEF Planned
  <2>3. PICK m, bank : m = md[i] /\ bank = bk[i]
    OBVIOUS
  <2>4. list[i] = Choice(id % 12, m, bank, Weights(fs, id)) /\ bank \in Nat
    BY <1>4, <2>1, <2>3
  <2>5. Names(fs, ms, id, m) /\ Within(fs, id)
    BY <1>4, <2>1, <2>2, <2>3 DEF Within
  <2>6. PICK c : c = list[i]
    OBVIOUS
  <2>7. c = Entry(fs, id, m, bank)
    BY <2>4, <2>6 DEF Entry
  <2>8. Serves(c, ms, bank, fs, id)
    BY <2>2, <2>4, <2>5, <2>7, EntryFacts
  <2>. QED BY <2>1, <2>3, <2>6, <2>8 DEF Serves
<1>7. list \in Seq(MenuChoices) /\ Len(list) = Len(L)
  <2>1. PICK k \in Nat : k = Len(L)
    BY <1>2
  <2>2. list \in [1 .. k -> MenuChoices]
    BY <2>1, <1>5, <1>6
  <2>3. PICK s \in [1 .. k -> MenuChoices] : s = list
    BY <2>2
  <2>4. s \in Seq(MenuChoices) /\ Len(s) = k
    OBVIOUS
  <2>. QED BY <2>1, <2>3, <2>4
<1>10. PICK k \in Nat : k = Len(L)
  BY <1>2
<1>8. k >= 1
  <2>1. PICK x : x \in bs
    OBVIOUS
  <2>2. Place(bs, of, x) \in 0 .. k - 1
    BY <2>1, <1>2, <1>10
  <2>. QED BY <2>2
<1>9. ASSUME NEW x \in bs
      PROVE  /\ Place(bs, of, x) \in 0 .. Len(L) - 1
             /\ Reads(list[Place(bs, of, x) + 1], ms) = Coding(fs, of[x])
  <2>1. Place(bs, of, x) \in 0 .. Len(L) - 1 /\ of[L[Place(bs, of, x) + 1]] = of[x]
    BY <1>2
  <2>2. PICK n : n = Place(bs, of, x)
    OBVIOUS
  <2>3. n \in 0 .. Len(L) - 1 /\ of[L[n + 1]] = of[x]
    BY <2>1, <2>2
  <2>4. n + 1 \in 1 .. k
    BY <2>3, <1>10
  <2>5. Reads(list[n + 1], ms) = Coding(fs, of[L[n + 1]])
    BY <2>4, <1>6, <1>10
  <2>. QED BY <2>2, <2>3, <2>5
<1>11. k \in 1 .. Cardinality(V) /\ Len(list) = k
  BY <1>3, <1>7, <1>8, <1>10
<1>. QED BY <1>6, <1>7, <1>9, <1>10, <1>11 DEF IsMenu

\* Blocks with one id, and empty ones with id 0.
LEMMA FastPlanned ==
    ASSUME NEW void, void \subseteq Blocks, NEW fs \in Seq(Fits),
           NEW seed, Within(fs, seed), NEW of, of = FastIds(seed, void)
    PROVE  Planned(fs, of)
<1>1. 0 \div 12 = 0 /\ Len(fs) \in Nat
  OBVIOUS
<1>. QED BY <1>1 DEF Planned, FastIds, Within

\* The fast policy's frame.
LEMMA FastSubmits ==
    ASSUME NEW void \in SUBSET Blocks, void # Blocks, NEW fs \in Seq(Fits), NEW seed \in Nat,
           \/ Len(fs) = 0 /\ seed < 12
           \/ Len(fs) = 1 /\ seed \in 12 .. 23
    PROVE  Submitted(fs, FastIds(seed, void), FastMenu(fs, FastIds(seed, void), void))
<1>1. PICK of : of = FastIds(seed, void)
  OBVIOUS
<1>2. /\ seed >= 12 => Len(fs) = 1 /\ seed \div 12 = 1
      /\ seed \div 12 <= Len(fs)
  <2>1. seed < 12 => seed \div 12 = 0
    OBVIOUS
  <2>2. seed \in 12 .. 23 => seed \div 12 = 1
    OBVIOUS
  <2>. QED BY <2>1, <2>2
<1>3. /\ Planned(fs, of)
      /\ \A x \in Blocks : of[x] \in {0, seed}
      /\ \A x \in void : of[x] = 0
  <2>1. Within(fs, seed)
    BY <1>2 DEF Within
  <2>2. void \subseteq Blocks
    OBVIOUS
  <2>3. Planned(fs, of)
    BY <1>1, <2>1, <2>2, FastPlanned
  <2>4. \A x \in void : x \in Blocks
    BY <2>2
  <2>5. \A x \in Blocks : of[x] \in {0, seed}
    BY <1>1, <2>4 DEF FastIds
  <2>6. \A x \in void : of[x] = 0
    BY <1>1, <2>4 DEF FastIds
  <2>. QED BY <2>3, <2>5, <2>6
<1> DEFINE L == Listed(Blocks, of)
           Model(id) == IF id >= 12 THEN 0 ELSE NoModel
           listed == [i \in 1 .. Len(L) |->
                        Choice(of[L[i]] % 12, Model(of[L[i]]), 0, Weights(fs, of[L[i]]))]
           md == [i \in 1 .. Len(L) |-> Model(of[L[i]])]
           bk == [i \in 1 .. Len(L) |-> 0]
           tail == IF void = {} THEN <<>> ELSE <<ZeroChoice(1)>>
           sel == [x \in Blocks |-> IF x \in void THEN Len(listed) ELSE Place(Blocks, of, x)]
           f == FastMenu(fs, of, void)
<1>4. f = Fitted(fs, fs, listed \o tail, sel, {})
  BY DEF FastMenu
<1>5. \A i \in 1 .. Len(L) : L[i] \in Blocks
  BY BlocksFacts, ListFacts DEF IsList
<1>6. ASSUME NEW i \in 1 .. Len(L)
      PROVE  Names(fs, fs, of[L[i]], Model(of[L[i]]))
  <2>1. PICK id : id = of[L[i]]
    OBVIOUS
  <2>2. id \in {0, seed} /\ id \in Nat
    BY <2>1, <1>5, <1>3
  <2>3. CASE id < 12
    <3>1. ~ (id >= 12) /\ Model(id) = NoModel
      BY <2>2, <2>3
    <3>. QED BY <2>1, <2>3, <3>1 DEF Names
  <2>4. CASE id >= 12
    <3>1. id = seed /\ id \div 12 = 1 /\ Len(fs) = 1
      BY <2>2, <2>4, <1>2
    <3>2. 0 \in 0 .. Len(fs) - 1 /\ fs[0 + 1] = fs[id \div 12]
      BY <3>1
    <3>. QED BY <3>2, <2>1, <2>4 DEF Names
  <2>. QED BY <2>2, <2>3, <2>4
<1>7. IsFiniteSet({0, seed}) /\ Cardinality({0, seed}) \in Nat /\ Cardinality({0, seed}) <= 2
  BY PairSize
<1>8. /\ listed \in Seq(MenuChoices)
      /\ Len(listed) \in 1 .. Cardinality({0, seed})
      /\ \A i \in 1 .. Len(listed) : Sound(listed[i], fs) /\ listed[i].entropy = bk[i]
      /\ \A x \in Blocks : /\ Place(Blocks, of, x) \in 0 .. Len(listed) - 1
                           /\ Reads(listed[Place(Blocks, of, x) + 1], fs) = Coding(fs, of[x])
  <2>1. Blocks # {} /\ Blocks \in SUBSET Blocks
    BY BlocksFacts
  <2>0. Len(fs) <= 3
    OBVIOUS
  <2>3. Lists(listed, Blocks, of, fs, fs, md, bk)
    BY <1>6 DEF Lists
  <2>4. PICK V : V = {0, seed}
    OBVIOUS
  <2>5. IsFiniteSet(V) /\ \A x \in Blocks : of[x] \in V
    BY <2>4, <1>3, <1>7
  <2>. HIDE DEF listed, md, bk
  <2>6. IsMenu(listed, Blocks, of, fs, fs, bk, Cardinality(V))
    BY <2>0, <2>1, <2>3, <2>5, <1>3, ListedMenu
  <2>. QED BY <2>4, <2>6 DEF IsMenu
<1>9. DOMAIN bk = DOMAIN listed /\ \A i \in 1 .. Len(listed) : listed[i].entropy = 0
  <2>1. Len(L) \in Nat
    BY BlocksFacts, ListFacts DEF IsList
  <2>2. DOMAIN listed = 1 .. Len(L) /\ DOMAIN bk = 1 .. Len(L) /\ Len(listed) = Len(L)
    BY <2>1
  <2>3. \A i \in 1 .. Len(L) : bk[i] = 0
    OBVIOUS
  <2>. HIDE DEF listed, bk, L
  <2>. QED BY <2>2, <2>3, <1>8
<1>. HIDE DEF listed, L, bk
<1>22. PICK n : n = Len(listed)
  OBVIOUS
<1>10. n \in 1 .. 2
  <2>1. PICK c \in Nat : c = Cardinality({0, seed})
    BY <1>7
  <2>2. c <= 2 /\ n \in 1 .. c
    BY <2>1, <1>7, <1>8, <1>22
  <2>. QED BY <2>2
<1>19. /\ ZeroChoice(1) \in MenuChoices /\ Sound(ZeroChoice(1), fs)
       /\ ZeroChoice(1).entropy = 1 /\ Reads(ZeroChoice(1), fs) = Coding(fs, 0)
  BY ZeroFacts DEF Serves
<1>11. /\ tail \in Seq(MenuChoices) /\ Len(tail) \in 0 .. 1
       /\ void # {} => Len(tail) = 1 /\ tail[1] = ZeroChoice(1)
       /\ void = {} => Len(tail) = 0
  BY <1>19
<1>. HIDE DEF tail
<1>20. PICK m : m = listed \o tail
  OBVIOUS
<1>12. /\ m \in Seq(MenuChoices) /\ Len(m) = n + Len(tail)
       /\ \A i \in 1 .. n : m[i] = listed[i]
       /\ \A i \in n + 1 .. Len(m) : m[i] = tail[1] /\ void # {}
  <2>1. m \in Seq(MenuChoices) /\ Len(m) = n + Len(tail)
    BY <1>8, <1>11, <1>20, <1>22
  <2>2. \A i \in 1 .. n : m[i] = listed[i]
    BY <1>8, <1>11, <1>10, <1>20, <1>22
  <2>3. ASSUME NEW i \in n + 1 .. Len(m)
        PROVE  m[i] = tail[1] /\ void # {}
    <3>1. PICK t : t = Len(tail)
      OBVIOUS
    <3>2. t \in 0 .. 1 /\ i \in n + 1 .. n + t
      BY <3>1, <2>1, <1>11
    <3>3. i = n + 1 /\ t = 1
      BY <3>2, <1>10
    <3>4. m[i] = tail[1]
      BY <3>1, <3>3, <1>8, <1>11, <1>10, <1>20, <1>22
    <3>. QED BY <3>1, <3>3, <3>4, <1>11
  <2>. QED BY <2>1, <2>2, <2>3
<1>23. PICK k : k = Len(m)
  OBVIOUS
<1>21. k \in n .. 3 /\ (void # {} => k = n + 1) /\ k = Len(m)
  <2>1. PICK t : t = Len(tail)
    OBVIOUS
  <2>2. t \in 0 .. 1 /\ k = n + t /\ (void # {} => t = 1)
    BY <2>1, <1>11, <1>12, <1>23
  <2>. QED BY <2>2, <1>10, <1>23
<1>13. \A i \in 1 .. Len(m) : Sound(m[i], fs) /\ m[i].entropy < 3
  <2>. TAKE i \in 1 .. Len(m)
  <2>1. CASE i \in 1 .. n
    <3>1. m[i] = listed[i] /\ Sound(listed[i], fs) /\ listed[i].entropy = 0
      BY <2>1, <1>12, <1>8, <1>9, <1>22
    <3>. QED BY <3>1
  <2>2. CASE i \in n + 1 .. Len(m)
    <3>1. m[i] = ZeroChoice(1)
      BY <2>2, <1>12, <1>11
    <3>. QED BY <3>1, <1>19
  <2>. QED BY <2>1, <2>2, <1>10, <1>21
<1>14. \A x \in Blocks : sel[x] \in Nat /\ sel[x] < Len(m)
  <2>. TAKE x \in Blocks
  <2>1. CASE x \in void
    <3>1. sel[x] = n /\ Len(m) = n + 1
      BY <2>1, <1>21, <1>22
    <3>. QED BY <3>1, <1>10
  <2>2. CASE x \notin void
    <3>1. sel[x] = Place(Blocks, of, x)
      BY <2>2
    <3>2. PICK r : r = Place(Blocks, of, x)
      OBVIOUS
    <3>3. r \in 0 .. n - 1
      BY <3>2, <1>8, <1>22
    <3>. QED BY <3>1, <3>2, <3>3, <1>10, <1>21
  <2>. QED BY <2>1, <2>2
<1>15. \A x \in Blocks : Reads(Of(m, sel, x), fs) = Coding(fs, of[x])
  <2>. TAKE x \in Blocks
  <2>1. CASE x \in void
    <3>0. n + 1 \in n + 1 .. Len(m) /\ void # {}
      BY <2>1, <1>10, <1>21
    <3>1. sel[x] = n /\ m[n + 1] = ZeroChoice(1) /\ of[x] = 0
      BY <2>1, <3>0, <1>11, <1>12, <1>3, <1>22
    <3>2. Of(m, sel, x) = ZeroChoice(1)
      BY <3>1 DEF Of
    <3>. QED BY <3>1, <3>2, <1>19
  <2>2. CASE x \notin void
    <3>1. PICK r : r = Place(Blocks, of, x)
      OBVIOUS
    <3>2. r \in 0 .. n - 1 /\ sel[x] = r /\ Reads(listed[r + 1], fs) = Coding(fs, of[x])
      BY <2>2, <3>1, <1>8, <1>22
    <3>3. m[r + 1] = listed[r + 1]
      BY <3>2, <1>10, <1>12
    <3>. QED BY <3>2, <3>3 DEF Of
  <2>. QED BY <2>1, <2>2
<1>16. f = [models |-> fs, menu |-> m, selectors |-> sel, zeros |-> {}]
  BY <1>4, <1>20 DEF Fitted
<1>. HIDE DEF f, sel
<1>17. Packed(f, 3, 3)
  <2>1. sel \in [Blocks -> Nat]
    BY <1>14 DEF sel
  <2>2. Len(m) \in 1 .. 3 /\ Len(fs) <= 3
    <3>1. k \in 1 .. 3
      BY <1>10, <1>21
    <3>2. PICK z \in Nat : z = Len(fs)
      OBVIOUS
    <3>3. z = 0 \/ z = 1
      BY <3>2
    <3>. QED BY <3>1, <3>2, <3>3, <1>21
  <2>. QED BY <1>16, <1>12, <1>13, <1>14, <2>1, <2>2 DEF Packed
<1>18. Submitted(fs, of, f)
  BY <1>16, <1>17, <1>15, <1>3 DEF Submitted, Fitted, Tells
<1>. QED BY <1>1, <1>18 DEF f

\* What an id with model k and predictor p is.
IsId(fs, id, k, p) ==
    /\ id \in Nat /\ id \div 12 = k /\ id % 12 = p /\ p \in 0 .. 11
    /\ id < 12 <=> k = 0
    /\ id >= 12 <=> k # 0
    /\ Within(fs, id)
    /\ k = 0 => FitOf(fs, id) = None /\ Weights(fs, id) = None
    /\ k # 0 => /\ FitOf(fs, id) = fs[k]
               /\ Weights(fs, id) = IF p = 0 THEN None ELSE fs[k]

\* The id of the k-th model with its own predictor.
LEMMA FittedId ==
    ASSUME NEW fs \in Seq(Fits), NEW k \in 1 .. Len(fs), NEW p \in 0 .. 11, NEW id, id = 12 * k + p
    PROVE  IsId(fs, id, k, p)
<1>1. PICK n \in Nat : n = Len(fs)
  OBVIOUS
<1>2. k \in 1 .. n /\ k \in Nat
  BY <1>1
<1>3. id \in Nat /\ id \div 12 = k /\ id % 12 = p /\ id >= 12
  BY <1>2, IdOf
<1>. QED BY <1>1, <1>2, <1>3 DEF IsId, Within, FitOf, Weights

LEMMA PlainId ==
    ASSUME NEW fs \in Seq(Fits), NEW id \in 0 .. 11
    PROVE  IsId(fs, id, 0, id)
<1>1. id \in Nat /\ id < 12 /\ id \div 12 = 0 /\ id % 12 = id
  OBVIOUS
<1>. QED BY <1>1 DEF IsId, Within, FitOf, Weights

\* The three choices of the medium policy, and the ids they stand for.
LEMMA MediumServes ==
    ASSUME NEW fs \in Seq(Fits), NEW third \in 1 .. 11, NEW assisted \in BOOLEAN,
           Len(fs) = IF assisted THEN 2 ELSE 1, NEW i \in 1 .. 3
    PROVE  Serves(MediumMenu(fs, third, assisted)[i], fs, i - 1, fs, MediumIds(third, assisted)[i])
           /\ Within(fs, MediumIds(third, assisted)[i])
<1> DEFINE m == MediumMenu(fs, third, assisted)
           id == MediumIds(third, assisted)
<1>0. Len(fs) <= 3 /\ Len(fs) \in Nat
  BY DEF MediumMenu
<1>1. ASSUME NEW x, NEW k \in Nat, NEW p, IsId(fs, x, k, p), NEW n, Names(fs, fs, x, n),
              NEW w, w = Weights(fs, x), i - 1 \in Nat,
              m[i] = Choice(p, n, i - 1, w), id[i] = x
      PROVE  Serves(m[i], fs, i - 1, fs, id[i]) /\ Within(fs, id[i])
  <2>1. PICK c : c = m[i]
    OBVIOUS
  <2>2. PICK bank \in Nat : bank = i - 1
    BY <1>1
  <2>3. c = Entry(fs, x, n, bank) /\ Within(fs, x)
    BY <1>1, <2>1, <2>2 DEF Entry, IsId
  <2>4. Serves(c, fs, bank, fs, x)
    BY <1>0, <1>1, <2>3, EntryFacts
  <2>. QED BY <1>1, <2>1, <2>2, <2>3, <2>4
<1>2. CASE i = 1
  <2>1. PICK x : x = 12
    OBVIOUS
  <2>2. PICK k \in 1 .. Len(fs), p \in 0 .. 11 : k = 1 /\ p = 0 /\ x = 12 * k + p
    BY <2>1
  <2>3. IsId(fs, x, k, p)
    BY <2>2, FittedId
  <2>4. Weights(fs, x) = None /\ Names(fs, fs, x, 0) /\ k \in Nat
    BY <2>2, <2>3 DEF IsId, Names
  <2>5. m[i] = Choice(p, 0, i - 1, None) /\ id[i] = x /\ i - 1 \in Nat
    BY <1>2, <2>1, <2>2 DEF MediumMenu, MediumIds
  <2>. QED BY <1>1, <2>3, <2>4, <2>5
<1>3. CASE i = 2
  <2>1. PICK x \in 0 .. 11 : x = 0
    OBVIOUS
  <2>2. IsId(fs, x, 0, x)
    BY PlainId
  <2>3. Weights(fs, x) = None /\ Names(fs, fs, x, NoModel)
    BY <2>1, <2>2 DEF IsId, Names
  <2>4. m[i] = Choice(x, NoModel, i - 1, None) /\ id[i] = x /\ i - 1 \in Nat
    BY <1>3, <2>1 DEF MediumMenu, MediumIds
  <2>. QED BY <1>1, <2>2, <2>3, <2>4
<1>4. CASE i = 3 /\ assisted
  <2>1. PICK x : x = 24 + third
    OBVIOUS
  <2>2. PICK k \in 1 .. Len(fs), p \in 0 .. 11 : k = 2 /\ p = third /\ x = 12 * k + p
    BY <1>4, <2>1
  <2>3. IsId(fs, x, k, p)
    BY <2>2, FittedId
  <2>4. Weights(fs, x) = fs[2] /\ Names(fs, fs, x, 1) /\ k \in Nat
    BY <1>4, <2>2, <2>3 DEF IsId, Names
  <2>5. m[i] = Choice(p, 1, i - 1, fs[2]) /\ id[i] = x /\ i - 1 \in Nat
    BY <1>4, <2>1, <2>2 DEF MediumMenu, MediumIds
  <2>. QED BY <1>1, <2>3, <2>4, <2>5
<1>5. CASE i = 3 /\ ~ assisted
  <2>1. PICK x \in 0 .. 11 : x = third
    OBVIOUS
  <2>2. IsId(fs, x, 0, x)
    BY PlainId
  <2>3. Weights(fs, x) = None /\ Names(fs, fs, x, NoModel)
    BY <2>1, <2>2 DEF IsId, Names
  <2>4. m[i] = Choice(x, NoModel, i - 1, None) /\ id[i] = x /\ i - 1 \in Nat
    BY <1>5, <2>1 DEF MediumMenu, MediumIds
  <2>. QED BY <1>1, <2>2, <2>3, <2>4
<1>. QED BY <1>2, <1>3, <1>4, <1>5

\* The medium policy's frame with its three choices.
LEMMA MediumSubmits ==
    ASSUME NEW void \in SUBSET Blocks, NEW fs \in Seq(Fits), NEW third \in 1 .. 11,
           NEW assisted \in BOOLEAN, Len(fs) = IF assisted THEN 2 ELSE 1,
           NEW sel \in [Blocks -> 0 .. 2], NEW of,
           of = [x \in Blocks |-> IF x \in void THEN 0
                                  ELSE MediumIds(third, assisted)[sel[x] + 1]]
    PROVE  Submitted(fs, of, Fitted(fs, fs, MediumMenu(fs, third, assisted), sel, void))
<1>1. PICK m : m = MediumMenu(fs, third, assisted)
  OBVIOUS
<1>2. PICK id : id = MediumIds(third, assisted)
  OBVIOUS
<1>3. PICK f : f = Fitted(fs, fs, m, sel, void)
  OBVIOUS
<1>4. \A i \in 1 .. 3 : Serves(m[i], fs, i - 1, fs, id[i]) /\ Within(fs, id[i])
  BY <1>1, <1>2, MediumServes
<1>5. Len(m) = 3 /\ DOMAIN m = 1 .. 3 /\ m \in Seq({m[i] : i \in 1 .. 3})
  BY <1>1 DEF MediumMenu
<1>6. m \in Seq(MenuChoices)
  <2>1. {m[i] : i \in 1 .. 3} \subseteq MenuChoices
    BY <1>4 DEF Serves
  <2>. QED BY <1>5, <2>1
<1>7. \A x \in Blocks : sel[x] \in 0 .. 2 /\ sel[x] + 1 \in 1 .. 3
  OBVIOUS
<1>8. Planned(fs, of)
  <2>1. \A x \in Blocks : Within(fs, of[x])
    <3>. TAKE x \in Blocks
    <3>1. CASE x \in void
      <4>1. of[x] = 0 /\ 0 \div 12 = 0 /\ Len(fs) >= 0
        BY <3>1
      <4>. QED BY <4>1 DEF Within
    <3>2. CASE x \notin void
      BY <3>2, <1>2, <1>4, <1>7
    <3>. QED BY <3>1, <3>2
  <2>. QED BY <2>1 DEF Planned, Within
<1>9. f = [models |-> fs, menu |-> m, selectors |-> sel, zeros |-> void]
  BY <1>3 DEF Fitted
<1>10. Packed(f, 3, 3)
  <2>1. Len(fs) <= 3
    OBVIOUS
  <2>2. \A i \in 1 .. 3 : Sound(m[i], fs) /\ m[i].entropy < 3
    BY <1>4 DEF Serves
  <2>3. sel \in [Blocks -> Nat] /\ \A x \in Blocks : sel[x] < 3
    BY <1>7
  <2>4. f.models = fs /\ f.menu = m /\ f.selectors = sel
    BY <1>9
  <2>5. f.models \in Seq(Fits) /\ Len(f.models) <= 3 /\ f.menu \in Seq(MenuChoices)
    BY <2>1, <2>4, <1>6
  <2>6. /\ Len(f.menu) = 3
        /\ \A i \in 1 .. 3 : Sound(f.menu[i], f.models) /\ f.menu[i].entropy < 3
        /\ f.selectors \in [Blocks -> Nat] /\ \A x \in Blocks : f.selectors[x] < 3
    BY <2>4, <1>5, <2>2, <2>3
  <2>. QED BY <2>5, <2>6 DEF Packed
<1>11. \A x \in Blocks \ void : Tells(f, fs, of, x)
  <2>. TAKE x \in Blocks \ void
  <2>1. of[x] = id[sel[x] + 1] /\ Serves(m[sel[x] + 1], fs, (sel[x] + 1) - 1, fs, id[sel[x] + 1])
    BY <1>2, <1>4, <1>7
  <2>. QED BY <2>1, <1>9 DEF Tells, Serves, Of
<1>12. f = Fitted(fs, f.models, f.menu, f.selectors, f.zeros) /\ f.zeros = void
  BY <1>9 DEF Fitted
<1>13. \A x \in void : of[x] = 0
  OBVIOUS
<1>. QED BY <1>1, <1>3, <1>8, <1>10, <1>11, <1>12, <1>13 DEF Submitted

\* A single choice of its own for every block.
LEMMA SingleSubmits ==
    ASSUME NEW void \in SUBSET Blocks, NEW fs \in Seq(Fits), NEW third \in 1 .. 11,
           NEW assisted \in BOOLEAN, Len(fs) = IF assisted THEN 2 ELSE 1,
           NEW singleton \in 0 .. 2, NEW of,
           of = FastIds(MediumIds(third, assisted)[singleton + 1], void)
    PROVE  Submitted(fs, of, Fitted(fs, SingleModels(fs, singleton, assisted),
                                    SingleMenu(fs, singleton, third, assisted),
                                    [x \in Blocks |-> 0], void))
<1>1. PICK ms : ms = SingleModels(fs, singleton, assisted)
  OBVIOUS
<1>2. PICK m : m = SingleMenu(fs, singleton, third, assisted)
  OBVIOUS
<1>3. PICK id : id = MediumIds(third, assisted)[singleton + 1]
  OBVIOUS
<1>4. PICK f : f = Fitted(fs, ms, m, [x \in Blocks |-> 0], void)
  OBVIOUS
<1>5. Within(fs, id)
  <2>1. PICK i \in 1 .. 3 : i = singleton + 1
    OBVIOUS
  <2>. QED BY <2>1, <1>3, MediumServes
<1>6. ms \in Seq(Fits) /\ Len(ms) <= 3 /\ m = <<m[1]>> /\ Len(m) = 1
  <2>1. fs[1] \in Fits /\ (assisted => fs[2] \in Fits)
    OBVIOUS
  <2>. QED BY <2>1, <1>1, <1>2 DEF SingleModels, SingleMenu
<1>7. ASSUME NEW k \in Nat, NEW p, IsId(fs, id, k, p), NEW n, Names(fs, ms, id, n),
             NEW w, w = Weights(fs, id), m[1] = Choice(p, n, 0, w)
      PROVE  Serves(m[1], ms, 0, fs, id)
  <2>1. PICK c : c = m[1]
    OBVIOUS
  <2>2. PICK bank \in Nat : bank = 0
    OBVIOUS
  <2>3. c = Entry(fs, id, n, bank) /\ Within(fs, id)
    BY <1>7, <2>1, <2>2 DEF Entry, IsId
  <2>4. Serves(c, ms, bank, fs, id)
    BY <1>6, <1>7, <2>3, EntryFacts
  <2>. QED BY <2>1, <2>2, <2>4
<1>8. Serves(m[1], ms, 0, fs, id)
  <2>1. CASE singleton = 0
    <3>1. PICK k \in 1 .. Len(fs), p \in 0 .. 11 : k = 1 /\ p = 0 /\ id = 12 * k + p
      BY <2>1, <1>3 DEF MediumIds
    <3>2. IsId(fs, id, k, p)
      BY <3>1, FittedId
    <3>3. ms = <<fs[1]>>
      BY <2>1, <1>1 DEF SingleModels
    <3>4. Weights(fs, id) = None /\ Names(fs, ms, id, 0) /\ k \in Nat
      BY <3>1, <3>2, <3>3 DEF IsId, Names
    <3>5. m[1] = Choice(p, 0, 0, None)
      BY <2>1, <1>2, <3>1 DEF SingleMenu
    <3>. QED BY <1>7, <3>2, <3>4, <3>5
  <2>2. CASE singleton = 1
    <3>1. id \in 0 .. 11 /\ id = 0
      BY <2>2, <1>3 DEF MediumIds
    <3>2. IsId(fs, id, 0, id)
      BY <3>1, PlainId
    <3>3. Weights(fs, id) = None /\ Names(fs, ms, id, NoModel)
      BY <3>1, <3>2 DEF IsId, Names
    <3>4. m[1] = Choice(id, NoModel, 0, None)
      BY <2>2, <1>2, <3>1 DEF SingleMenu
    <3>. QED BY <1>7, <3>2, <3>3, <3>4
  <2>3. CASE singleton = 2 /\ assisted
    <3>1. PICK k \in 1 .. Len(fs), p \in 0 .. 11 : k = 2 /\ p = third /\ id = 12 * k + p
      BY <2>3, <1>3 DEF MediumIds
    <3>2. IsId(fs, id, k, p)
      BY <3>1, FittedId
    <3>3. ms = <<fs[2]>>
      BY <2>3, <1>1 DEF SingleModels
    <3>4. Weights(fs, id) = fs[2] /\ Names(fs, ms, id, 0) /\ k \in Nat
      BY <3>1, <3>2, <3>3 DEF IsId, Names
    <3>5. m[1] = Choice(p, 0, 0, fs[2])
      BY <2>3, <1>2, <3>1 DEF SingleMenu
    <3>. QED BY <1>7, <3>2, <3>4, <3>5
  <2>4. CASE singleton = 2 /\ ~ assisted
    <3>1. id \in 0 .. 11 /\ id = third
      BY <2>4, <1>3 DEF MediumIds
    <3>2. IsId(fs, id, 0, id)
      BY <3>1, PlainId
    <3>3. Weights(fs, id) = None /\ Names(fs, ms, id, NoModel)
      BY <3>1, <3>2 DEF IsId, Names
    <3>4. m[1] = Choice(id, NoModel, 0, None)
      BY <2>4, <1>2, <3>1 DEF SingleMenu
    <3>. QED BY <1>7, <3>2, <3>3, <3>4
  <2>. QED BY <2>1, <2>2, <2>3, <2>4
<1>9. /\ Planned(fs, of)
      /\ \A x \in Blocks : x \notin void => of[x] = id
      /\ \A x \in void : of[x] = 0
  <2>2. of = FastIds(id, void)
    BY <1>3
  <2>3. Planned(fs, of)
    <3>1. void \subseteq Blocks
      OBVIOUS
    <3>. QED BY <1>5, <2>2, <3>1, FastPlanned
  <2>4. \A x \in void : x \in Blocks
    OBVIOUS
  <2>. QED BY <2>2, <2>3, <2>4 DEF FastIds
<1>10. f = [models |-> ms, menu |-> m, selectors |-> [x \in Blocks |-> 0], zeros |-> void]
  BY <1>4 DEF Fitted
<1>11. m \in Seq(MenuChoices) /\ \A i \in 1 .. 1 : Sound(m[i], ms) /\ m[i].entropy < 3
  <2>1. PICK c : c = m[1]
    OBVIOUS
  <2>2. c \in MenuChoices /\ Sound(c, ms) /\ c.entropy = 0 /\ m = <<c>>
    BY <2>1, <1>6, <1>8 DEF Serves
  <2>3. m \in Seq(MenuChoices)
    BY <2>2
  <2>. QED BY <2>1, <2>2, <2>3
<1>12. Packed(f, 3, 3)
  <2>1. f.models = ms /\ f.menu = m /\ f.selectors = [x \in Blocks |-> 0]
    BY <1>10
  <2>. QED BY <2>1, <1>6, <1>11 DEF Packed
<1>13. \A x \in Blocks \ void : Tells(f, fs, of, x)
  BY <1>8, <1>9, <1>10 DEF Tells, Serves, Of
<1>14. f = Fitted(fs, f.models, f.menu, f.selectors, f.zeros) /\ f.zeros = void
  BY <1>10 DEF Fitted
<1>. QED BY <1>1, <1>2, <1>4, <1>9, <1>12, <1>13, <1>14 DEF Submitted

\* A leaf without a voxel other than 0.
LEMMA ZeroSubmits == Submitted(<<>>, FastIds(0, {}), AllZero)
<1>1. PICK of, fs : of = FastIds(0, {}) /\ fs = <<>>
  OBVIOUS
<1>2. PICK f : f = AllZero
  OBVIOUS
<1>3. PICK c : c = ZeroChoice(0)
  OBVIOUS
<1>4. Serves(c, <<>>, 0, fs, 0)
  BY <1>3, ZeroFacts
<1>5. fs \in Seq(Fits) /\ Len(fs) = 0 /\ 0 \div 12 = 0
  BY <1>1
<1>6. Planned(fs, of) /\ \A x \in Blocks : of[x] = 0
  BY <1>1, <1>5 DEF FastIds, Planned
<1>7. f = [models |-> <<>>, menu |-> <<c>>, selectors |-> [x \in Blocks |-> 0], zeros |-> {}]
  BY <1>2, <1>3 DEF AllZero, Fitted
<1>8. Packed(f, 3, 3)
  BY <1>4, <1>7 DEF Packed, Serves
<1>9. \A x \in Blocks : Tells(f, fs, of, x)
  BY <1>4, <1>6, <1>7 DEF Tells, Serves, Of
<1>10. f = Fitted(fs, f.models, f.menu, f.selectors, f.zeros) /\ f.zeros = {}
  BY <1>7 DEF Fitted
<1>. QED BY <1>1, <1>2, <1>6, <1>8, <1>9, <1>10 DEF Submitted

\* The ids of the slow policy's candidates.
LEMMA PlanFacts ==
    ASSUME NEW plan \in SUBSET Candidates, Cardinality(plan) \in 1 .. 3,
           NEW fs \in SetToSeqs(plan \cap Fits)
    PROVE  /\ IsFiniteSet(plan)
           /\ fs \in Seq(Fits) /\ Len(fs) <= 3
           /\ \A c \in plan : Within(fs, PlanId(fs, c))
<1> DEFINE T == plan \cap Fits
<1>1. IsFiniteSet(plan)
  <2>1. IsFiniteSet(0 .. 11)
    <3>1. PICK l \in Int, h \in Int : l = 0 /\ h = 11
      OBVIOUS
    <3>2. IsFiniteSet(l .. h)
      BY FS_Interval
    <3>. QED BY <3>1, <3>2
  <2>2. IsFiniteSet(Plain) /\ IsFiniteSet(Fits)
    BY <2>1, PlainAssumption, FitsAssumption, FS_Subset
  <2>3. IsFiniteSet(Plain \cup Fits)
    BY <2>2, FS_Union
  <2>4. plan \in SUBSET (Plain \cup Fits)
    BY DEF Candidates
  <2>. QED BY <2>3, <2>4, FS_Subset
<1>2. IsFiniteSet(T) /\ Cardinality(T) \in Nat /\ Cardinality(T) <= Cardinality(plan)
  BY <1>1, FS_Subset, FS_CardinalityType
<1>3. PICK n \in Nat : n = Cardinality(T)
  BY <1>2
<1>4. n <= 3
  <2>1. PICK c \in 1 .. 3 : c = Cardinality(plan)
    OBVIOUS
  <2>. QED BY <2>1, <1>2, <1>3
<1>5. fs \in [1 .. n -> T] /\ \A i, j \in 1 .. n : i # j => fs[i] # fs[j]
  BY <1>3 DEF SetToSeqs
<1>. HIDE DEF T
<1>6. Len(fs) = n
  BY <1>5
<1>7. fs \in Seq(Fits)
  <2>1. fs \in [1 .. n -> Fits]
    BY <1>5 DEF T
  <2>. QED BY <2>1
<1>8. \A c \in T : \E k \in 1 .. n : fs[k] = c
  <2>1. fs \in Injection(1 .. n, T)
    BY <1>5 DEF Injection, IsInjective
  <2>2. IsFiniteSet(1 .. n) /\ Cardinality(1 .. n) = n
    <3>1. 1 \in Int /\ n \in Int /\ (IF 1 > n THEN 0 ELSE (n - 1) + 1) = n
      OBVIOUS
    <3>. QED BY <3>1, FS_Interval
  <2>3. fs \in Surjection(1 .. n, T)
    BY <2>1, <2>2, <1>2, <1>3, FS_Injection
  <2>. QED BY <2>3 DEF Surjection
<1>9. ASSUME NEW c \in plan
      PROVE  Within(fs, PlanId(fs, c))
  <2>1. PICK id : id = PlanId(fs, c)
    OBVIOUS
  <2>2. CASE c \in Fits
    <3>1. \E k \in 1 .. Len(fs) : fs[k] = c
      BY <2>2, <1>6, <1>8 DEF T
    <3>2. PICK k : k = CHOOSE j \in 1 .. Len(fs) : fs[j] = c
      OBVIOUS
    <3>3. k \in 1 .. Len(fs)
      BY <3>1, <3>2
    <3>4. PICK p \in 0 .. 11 : p = PredictorOf[c]
      BY <2>2, FitsAssumption
    <3>5. id = 12 * k + p
      BY <2>1, <2>2, <3>2, <3>4 DEF PlanId
    <3>6. IsId(fs, id, k, p)
      BY <1>7, <3>3, <3>5, FittedId
    <3>. QED BY <2>1, <3>6 DEF IsId
  <2>3. CASE c \notin Fits
    <3>1. id = c /\ id \in 0 .. 11
      BY <2>1, <2>3, PlainAssumption DEF PlanId, Candidates
    <3>2. IsId(fs, id, 0, id)
      BY <1>7, <3>1, PlainId
    <3>. QED BY <2>1, <3>2 DEF IsId
  <2>. QED BY <2>2, <2>3
<1>. QED BY <1>1, <1>4, <1>6, <1>7, <1>9

\* The models that blocks use keep their order, and ids name them by rank.
LEMMA LiveNames ==
    ASSUME NEW fs, NEW of, Planned(fs, of), Len(fs) <= 3, NEW ms,
           ms = [m \in 1 .. Cardinality(Live(fs, of)) |-> fs[Nth(Live(fs, of), m)]]
    PROVE  /\ ms \in Seq(Fits) /\ Len(ms) <= 3
           /\ \A x \in Blocks : of[x] < 12 => Names(fs, ms, of[x], NoModel)
           /\ \A x \in Blocks : ~ (of[x] < 12) =>
                Names(fs, ms, of[x], Remap(fs, of, of[x] \div 12))
<1> DEFINE S == Live(fs, of)
<1>1. PICK n \in Nat : n = Len(fs) /\ n <= 3 /\ fs \in Seq(Fits)
  BY DEF Planned
<1>2. S \in SUBSET (1 .. n) /\ S \subseteq Nat
  BY <1>1 DEF Live
<1>3. IsFiniteSet(1 .. n) /\ Cardinality(1 .. n) = n
  <2>1. 1 \in Int /\ n \in Int /\ (IF 1 > n THEN 0 ELSE (n - 1) + 1) = n
    OBVIOUS
  <2>. QED BY <2>1, FS_Interval
<1>4. IsFiniteSet(S) /\ Cardinality(S) \in Nat /\ Cardinality(S) <= n
  BY <1>2, <1>3, FS_Subset, FS_CardinalityType
<1>5. PICK c \in Nat : c = Cardinality(S)
  BY <1>4
<1>6. c <= 3
  BY <1>1, <1>4, <1>5
<1>7. ms = [m \in 1 .. c |-> fs[Nth(S, m)]]
  BY <1>5
<1>8. \A m \in 1 .. c : Nth(S, m) \in S
  <2>. HIDE DEF S
  <2>. QED BY <1>2, <1>4, <1>5, NthFacts
<1>9. ms \in Seq(Fits) /\ Len(ms) = c
  <2>1. \A m \in 1 .. c : fs[Nth(S, m)] \in Fits
    <3>. TAKE m \in 1 .. c
    <3>1. PICK k : k = Nth(S, m)
      OBVIOUS
    <3>2. k \in S
      BY <3>1, <1>8
    <3>3. k \in 1 .. n
      <4>. HIDE DEF S
      <4>. QED BY <3>2, <1>2
    <3>4. fs[k] \in Fits
      BY <3>3, <1>1
    <3>. QED BY <3>1, <3>4
  <2>2. ms \in [1 .. c -> Fits]
    BY <2>1, <1>7
  <2>3. PICK s \in [1 .. c -> Fits] : s = ms
    BY <2>2
  <2>4. s \in Seq(Fits) /\ Len(s) = c
    OBVIOUS
  <2>. QED BY <2>3, <2>4
<1>10. ASSUME NEW x \in Blocks, of[x] < 12
       PROVE  Names(fs, ms, of[x], NoModel)
  BY <1>10 DEF Names
<1>11. ASSUME NEW x \in Blocks, ~ (of[x] < 12)
       PROVE  Names(fs, ms, of[x], Remap(fs, of, of[x] \div 12))
  <2>1. PICK id \in Nat : id = of[x] /\ id \div 12 <= n
    BY <1>1 DEF Planned
  <2>2. PICK k : k = id \div 12
    OBVIOUS
  <2>3. k \in 1 .. n /\ id >= 12
    BY <2>1, <2>2, <1>11, IdFacts
  <2>4. k \in S
    BY <2>1, <2>2, <2>3, <1>1 DEF Live
  <2>5. PICK r : r = Rank(S, k)
    OBVIOUS
  <2>6. r \in 0 .. c - 1 /\ Nth(S, r + 1) = k
    <3>. HIDE DEF S
    <3>1. Rank(S, k) \in 0 .. Cardinality(S) - 1 /\ Nth(S, Rank(S, k) + 1) = k
      BY <1>2, <1>4, <2>4, RankFacts, NthFacts
    <3>. QED BY <3>1, <2>5, <1>5
  <2>7. ms[r + 1] = fs[k]
    <3>1. r + 1 \in 1 .. c
      BY <2>6
    <3>. QED BY <3>1, <2>6, <1>7
  <2>8. Remap(fs, of, of[x] \div 12) = r
    BY <2>1, <2>2, <2>5 DEF Remap
  <2>9. Names(fs, ms, id, r)
    BY <2>2, <2>3, <2>6, <2>7, <1>9 DEF Names
  <2>. QED BY <2>1, <2>8, <2>9
<1>. QED BY <1>6, <1>9, <1>10, <1>11

\* A finite set's image is no larger.
LEMMA ImageSize ==
    ASSUME NEW S, IsFiniteSet(S), NEW g, NEW V, V = {g[x] : x \in S}
    PROVE  IsFiniteSet(V) /\ Cardinality(V) <= Cardinality(S) /\ Cardinality(V) \in Nat
<1>1. PICK h : h = [x \in S |-> g[x]]
  OBVIOUS
<1>2. h \in Surjection(S, V)
  BY <1>1 DEF Surjection
<1>. QED BY <1>2, FS_Surjection, FS_CardinalityType

\* The slow policy's frame.
LEMMA SlowSubmits ==
    ASSUME NEW void \in SUBSET Blocks, void # Blocks,
           NEW plan \in SUBSET Candidates, Cardinality(plan) \in 1 .. 3,
           NEW fs \in SetToSeqs(plan \cap Fits), NEW sel \in [Blocks -> plan],
           NEW of, of = [x \in Blocks |-> IF x \in void THEN 0 ELSE PlanId(fs, sel[x])],
           NEW many, many = (Cardinality(plan) > 1)
    PROVE  Submitted(fs, of, SlowMenu(fs, of, void, many))
<1>1. /\ IsFiniteSet(plan)
      /\ fs \in Seq(Fits) /\ Len(fs) <= 3
      /\ \A c \in plan : Within(fs, PlanId(fs, c))
  BY PlanFacts
<1>2. Planned(fs, of)
  <2>1. \A x \in Blocks : Within(fs, of[x])
    <3>. TAKE x \in Blocks
    <3>1. CASE x \in void
      <4>1. of[x] = 0 /\ 0 \div 12 = 0 /\ Len(fs) >= 0
        BY <3>1, <1>1
      <4>. QED BY <4>1 DEF Within
    <3>2. CASE x \notin void
      BY <3>2, <1>1
    <3>. QED BY <3>1, <3>2
  <2>. QED BY <2>1, <1>1 DEF Planned, Within
<1> DEFINE bs == IF many THEN Blocks \ void ELSE Blocks
           L == Listed(bs, of)
           ms == [m \in 1 .. Cardinality(Live(fs, of)) |-> fs[Nth(Live(fs, of), m)]]
           Model(id) == IF id < 12 THEN NoModel ELSE Remap(fs, of, id \div 12)
           list == [i \in 1 .. Len(L) |-> Choice(of[L[i]] % 12, Model(of[L[i]]),
                                                 IF many THEN i - 1 ELSE 0,
                                                 Weights(fs, of[L[i]]))]
           md == [i \in 1 .. Len(L) |-> Model(of[L[i]])]
           bk == [i \in 1 .. Len(L) |-> IF many THEN i - 1 ELSE 0]
           ss == [x \in Blocks |-> IF x \in bs THEN Place(bs, of, x) ELSE 0]
           f == SlowMenu(fs, of, void, many)
<1>3. f = Fitted(fs, ms, list, ss, void)
  BY DEF SlowMenu
<1>4. bs \in SUBSET Blocks /\ bs # {} /\ bs \subseteq Nat /\ IsFiniteSet(bs)
  <2>1. bs \in SUBSET Blocks /\ bs # {}
    BY BlocksFacts
  <2>. HIDE DEF bs
  <2>. QED BY <2>1, BlocksFacts, FS_Subset
<1>5. \E V : IsFiniteSet(V) /\ Cardinality(V) \in Nat /\ Cardinality(V) <= 3 /\ \A x \in bs : of[x] \in V
  <2>1. PICK g : g = [c \in plan |-> PlanId(fs, c)]
    OBVIOUS
  <2>2. PICK V : V = {g[c] : c \in plan}
    OBVIOUS
  <2>3. IsFiniteSet(V) /\ Cardinality(V) <= Cardinality(plan) /\ Cardinality(V) \in Nat
    BY <2>2, <1>1, ImageSize
  <2>4. PICK n \in 1 .. 3 : n = Cardinality(plan)
    OBVIOUS
  <2>5. PICK v \in Nat : v = Cardinality(V)
    BY <2>3
  <2>6. \A x \in Blocks : x \notin void => of[x] \in V
    BY <2>1, <2>2
  <2>7. CASE many
    <3>1. \A x \in bs : of[x] \in V
      BY <2>6, <2>7
    <3>. QED BY <3>1, <2>3, <2>4, <2>5
  <2>8. CASE ~ many
    <3>0. ~ (n > 1)
      BY <2>4, <2>8
    <3>1. n = 1 /\ v <= 1
      BY <3>0, <2>3, <2>4, <2>5
    <3>2. /\ IsFiniteSet(V \cup {0})
          /\ Cardinality(V \cup {0}) = IF 0 \in V THEN Cardinality(V) ELSE Cardinality(V) + 1
      BY <2>3, FS_AddElement
    <3>3. PICK w : w = Cardinality(V \cup {0})
      OBVIOUS
    <3>4. w = v \/ w = v + 1
      BY <3>2, <3>3, <2>5
    <3>5. \A x \in bs : of[x] \in V \cup {0}
      BY <2>6, <2>8
    <3>. QED BY <3>1, <3>2, <3>3, <3>4, <3>5
  <2>. QED BY <2>7, <2>8
<1>6. PICK V : IsFiniteSet(V) /\ Cardinality(V) \in Nat /\ Cardinality(V) <= 3 /\ \A x \in bs : of[x] \in V
  BY <1>5
<1>. HIDE DEF bs
<1>7. /\ L \in Seq(bs) /\ Len(L) \in Nat
      /\ \A i \in 1 .. Len(L) : L[i] \in bs
  <2>1. IsList(bs, of)
    BY <1>4, ListFacts
  <2>2. L \in Seq(bs) /\ \A i \in 1 .. Len(L) : L[i] \in bs
    BY <2>1 DEF IsList
  <2>. HIDE DEF L
  <2>. QED BY <2>2
<1>8. /\ ms \in Seq(Fits) /\ Len(ms) <= 3
      /\ \A x \in Blocks : of[x] < 12 => Names(fs, ms, of[x], NoModel)
      /\ \A x \in Blocks : ~ (of[x] < 12) =>
           Names(fs, ms, of[x], Remap(fs, of, of[x] \div 12))
  <2>1. PICK s : s = ms
    OBVIOUS
  <2>2. /\ s \in Seq(Fits) /\ Len(s) <= 3
        /\ \A x \in Blocks : of[x] < 12 => Names(fs, s, of[x], NoModel)
        /\ \A x \in Blocks : ~ (of[x] < 12) =>
             Names(fs, s, of[x], Remap(fs, of, of[x] \div 12))
    BY <2>1, <1>1, <1>2, LiveNames
  <2>. HIDE DEF ms
  <2>. QED BY <2>1, <2>2
<1>. HIDE DEF ms
<1>9. Lists(list, bs, of, fs, ms, md, bk)
  <2>1. \A i \in 1 .. Len(L) : Names(fs, ms, of[L[i]], Model(of[L[i]]))
    <3>. TAKE i \in 1 .. Len(L)
    <3>1. PICK x : x = L[i]
      OBVIOUS
    <3>2. x \in Blocks
      BY <3>1, <1>7, <1>4
    <3>. QED BY <3>1, <3>2, <1>8
  <2>2. \A i \in 1 .. Len(L) : bk[i] \in Nat
    <3>1. PICK n \in Nat : n = Len(L)
      BY <1>7
    <3>2. \A i \in 1 .. n : i - 1 \in Nat
      OBVIOUS
    <3>. QED BY <3>1, <3>2
  <2>. HIDE DEF Model, bs
  <2>. QED BY <2>1, <2>2 DEF Lists
<1>10. IsMenu(list, bs, of, fs, ms, bk, Cardinality(V))
  <2>. HIDE DEF list, md, bk
  <2>. QED BY <1>2, <1>4, <1>6, <1>8, <1>9, ListedMenu
<1>11. PICK k \in Nat : k = Len(L)
  BY <1>7
<1>12. /\ list \in Seq(MenuChoices) /\ Len(list) = k /\ k \in 1 .. 3
       /\ \A i \in 1 .. k : Sound(list[i], ms) /\ list[i].entropy = bk[i]
       /\ \A x \in bs : /\ Place(bs, of, x) \in 0 .. k - 1
                        /\ Reads(list[Place(bs, of, x) + 1], ms) = Coding(fs, of[x])
  <2>1. Len(list) = k
    BY <1>11
  <2>. HIDE DEF list
  <2>2. PICK v \in Nat : v = Cardinality(V) /\ v <= 3
    BY <1>6
  <2>3. k \in 1 .. v
    BY <2>1, <2>2, <1>10 DEF IsMenu
  <2>4. k \in 1 .. 3
    BY <2>2, <2>3
  <2>. QED BY <2>1, <2>4, <1>10 DEF IsMenu
<1>13. \A i \in 1 .. k : list[i].entropy < 3
  <2>. TAKE i \in 1 .. k
  <2>1. bk[i] = IF many THEN i - 1 ELSE 0
    BY <1>11
  <2>0. k \in 1 .. 3
    BY <1>12
  <2>2. i - 1 < 3
    BY <2>0
  <2>3. list[i].entropy = bk[i]
    BY <1>12
  <2>. HIDE DEF list, bk
  <2>. QED BY <2>1, <2>2, <2>3
<1>. HIDE DEF list, bk
<1>14. \A x \in Blocks : ss[x] \in Nat /\ ss[x] < k
  <2>. TAKE x \in Blocks
  <2>1. CASE x \in bs
    BY <2>1, <1>12
  <2>2. CASE x \notin bs
    BY <2>2, <1>12
  <2>. QED BY <2>1, <2>2
<1>15. ss \in [Blocks -> Nat]
  BY <1>14
<1>16. /\ f.models = ms /\ f.menu = list /\ f.selectors = ss /\ f.zeros = void
       /\ f = Fitted(fs, ms, list, ss, void)
  BY <1>3 DEF Fitted
<1>17. \A x \in Blocks \ void : Reads(Of(list, ss, x), ms) = Coding(fs, of[x])
  <2>. TAKE x \in Blocks \ void
  <2>1. x \in bs
    BY DEF bs
  <2>2. PICK r : r = Place(bs, of, x)
    OBVIOUS
  <2>3. ss[x] = r /\ Reads(list[r + 1], ms) = Coding(fs, of[x])
    BY <2>1, <2>2, <1>12
  <2>. QED BY <2>3 DEF Of
<1>. HIDE DEF f, ss
<1>18. Packed(f, 3, 3)
  BY <1>8, <1>12, <1>13, <1>14, <1>15, <1>16 DEF Packed
<1>19. \A x \in Blocks \ void : Tells(f, fs, of, x)
  BY <1>16, <1>17 DEF Tells
<1>20. \A x \in void : of[x] = 0
  OBVIOUS
<1>21. void \subseteq Blocks
  OBVIOUS
<1>22. Submitted(fs, of, f)
  BY <1>2, <1>16, <1>18, <1>19, <1>20, <1>21 DEF Submitted
<1>. QED BY <1>22 DEF f

-----------------------------------------------------------------------------
(* The invariant of the frame.                                             *)

\* What reaches the frame encoder proper: every block's choice codes as its id says.
Given(fs, of, f) ==
    /\ Packed(f, 4, 4)
    /\ \A x \in Blocks : Tells(f, fs, of, x)

\* What the encoder writes.
Written(f) ==
    /\ f.tables = IF AllZeros(f.menu, f.selectors) THEN 0 ELSE K * MenuBanks(f.menu)
    /\ ~ AllZeros(f.menu, f.selectors) =>
         f.payload = [x \in Blocks |-> FirstTable(Of(f.menu, f.selectors, x))]

\* The weights the decoder has for a choice that names a model are the choice's own.
Weighed ==
    \A i \in Naming(frame) : weights[WeightId(menu[i])] = menu[i].weights

FrameSteps == {"search", "zeros", "encode", "read", "weigh", "rewrite", "done"}

FrameInv ==
    /\ pc \in FrameSteps
    /\ pc # "search" => Planned(fits, ids)
    /\ pc = "zeros" => Submitted(fits, ids, call)
    /\ pc = "encode" => Given(fits, ids, call)
    /\ pc \in {"read", "weigh", "rewrite", "done"} => Given(fits, ids, frame) /\ Written(frame)
    /\ pc \in {"weigh", "rewrite"} =>
         /\ menu = Renumbered(frame)
         /\ states = SetUp(frame)
         /\ ~ AllZeros(frame.menu, frame.selectors)
    /\ pc = "rewrite" => Weighed
    /\ pc = "done" => /\ \A x \in Blocks : Understood(chosen[x].id) = Coding(fits, ids[x])
                      /\ TablesAgree

-----------------------------------------------------------------------------
(* What the encoder accepts.                                               *)

\* The greatest of some numbers below a bound.
LEMMA MaxIsGreatest ==
    ASSUME NEW T, T \subseteq Nat, T # {}, NEW n \in Nat, \A y \in T : y < n
    PROVE  Max(T) \in T /\ \A y \in T : y <= Max(T)
<1> DEFINE U == {k \in Nat : \A y \in T : y <= k}
           Greatest(x) == \A y \in T : x >= y
           m == CHOOSE x \in T : Greatest(x)
<1>1. U \subseteq Nat /\ n \in U
  OBVIOUS
<1>2. PICK k \in U : \A u \in U : k <= u
  <2>. HIDE DEF U
  <2>. QED BY <1>1, LeastNumber
<1>3. k \in Nat /\ \A y \in T : y <= k
  BY <1>2
<1>4. k \in T
  <2>. SUFFICES ASSUME k \notin T
                PROVE  FALSE
    OBVIOUS
  <2>1. PICK y \in T : TRUE
    OBVIOUS
  <2>2. \A z \in T : z \in Nat /\ z <= k /\ z # k
    BY <1>3
  <2>3. k - 1 \in Nat
    BY <2>1, <2>2, <1>3
  <2>4. \A z \in T : z <= k - 1
    BY <2>2, <1>3
  <2>5. k - 1 \in U
    BY <2>3, <2>4
  <2>6. ~ (k <= k - 1)
    BY <1>3
  <2>. QED BY <2>5, <2>6, <1>2
<1>5. Greatest(k)
  BY <1>3
<1>6. Max(T) = m
  BY DEF Max
<1>7. m \in T /\ Greatest(m)
  <2>. HIDE DEF Greatest
  <2>. QED BY <1>4, <1>5
<1>. HIDE DEF m
<1>. QED BY <1>6, <1>7

\* The banks of a menu hold all of its choices.
LEMMA BanksFacts ==
    ASSUME NEW m \in Seq(MenuChoices), NEW n \in Nat, Len(m) \in 1 .. n, NEW top \in Nat,
           \A i \in 1 .. Len(m) : m[i].entropy < top
    PROVE  /\ MenuBanks(m) \in 1 .. top
           /\ \A i \in 1 .. Len(m) : m[i].entropy \in Nat /\ m[i].entropy < MenuBanks(m)
<1> DEFINE T == {m[i].entropy : i \in 1 .. Len(m)}
<1>1. \A i \in 1 .. Len(m) : m[i] \in MenuChoices /\ m[i].entropy \in Nat
  <2>. TAKE i \in 1 .. Len(m)
  <2>1. PICK c \in MenuChoices : c = m[i]
    OBVIOUS
  <2>2. c.entropy \in Nat
    BY DEF MenuChoices
  <2>. QED BY <2>1, <2>2
<1>2. T \subseteq Nat /\ T # {} /\ \A y \in T : y < top
  BY <1>1
<1>3. \A i \in 1 .. Len(m) : m[i].entropy \in T
  OBVIOUS
<1>4. MenuBanks(m) = 1 + Max(T)
  BY DEF MenuBanks
<1>. HIDE DEF T
<1>5. Max(T) \in T /\ \A y \in T : y <= Max(T)
  BY <1>2, MaxIsGreatest
<1>6. PICK g : g = Max(T)
  OBVIOUS
<1>7. g \in Nat /\ g < top /\ \A y \in T : y <= g
  BY <1>2, <1>5, <1>6
<1>8. ASSUME NEW i \in 1 .. Len(m)
      PROVE  m[i].entropy \in Nat /\ m[i].entropy < 1 + g
  BY <1>1, <1>3, <1>7
<1>. QED BY <1>4, <1>6, <1>7, <1>8

\* What is packed has valid choices only.
LEMMA PackedValid ==
    ASSUME NEW f, NEW n \in Nat, NEW m \in 0 .. MaxBank, Packed(f, n, m)
    PROVE  /\ \A i \in 1 .. Len(f.menu) : Valid(f.menu[i], f.models)
           /\ \A x \in Blocks : /\ f.selectors[x] + 1 \in 1 .. Len(f.menu)
                                /\ f.selectors[x] < Len(f.menu)
           /\ MenuBanks(f.menu) \in 1 .. m
           /\ \A i \in 1 .. Len(f.menu) :
                f.menu[i].entropy \in Nat /\ f.menu[i].entropy < MenuBanks(f.menu)
<1>1. PICK s \in Seq(MenuChoices), ms \in Seq(Fits) : s = f.menu /\ ms = f.models
  BY DEF Packed
<1>2. PICK k \in Nat : k = Len(s)
  OBVIOUS
<1>3. PICK l \in Nat : l = Len(ms)
  OBVIOUS
<1>4. /\ k \in 1 .. n
      /\ \A i \in 1 .. k : s[i] \in MenuChoices /\ Sound(s[i], ms) /\ s[i].entropy < m
      /\ f.selectors \in [Blocks -> Nat] /\ \A x \in Blocks : f.selectors[x] < k
  BY <1>1, <1>2 DEF Packed
<1>5. ASSUME NEW i \in 1 .. k
      PROVE  Valid(s[i], ms)
  <2>1. PICK c \in MenuChoices : c = s[i] /\ Sound(c, ms) /\ c.entropy < m
    BY <1>4
  <2>2. c.predictor <= 12 /\ c.entropy < MaxBank
    <3>1. c.predictor \in 0 .. 12 /\ c.entropy \in Nat
      BY DEF MenuChoices
    <3>2. PICK u : u = c.entropy
      OBVIOUS
    <3>3. u \in Nat /\ u < m
      BY <2>1, <3>1, <3>2
    <3>4. m <= 16
      BY DEF MaxBank
    <3>. QED BY <3>1, <3>2, <3>3, <3>4 DEF MaxBank
  <2>3. c.model = NoModel \/ c.model < Len(ms)
    BY <2>1, <1>3 DEF Sound
  <2>4. c.predictor = ZeroPredictor => c.model = NoModel /\ c.weights = None
    BY <2>1 DEF Sound, ZeroPredictor
  <2>. QED BY <2>1, <2>2, <2>3, <2>4 DEF Valid
<1>6. \A x \in Blocks : f.selectors[x] + 1 \in 1 .. k /\ f.selectors[x] < k
  <2>. TAKE x \in Blocks
  <2>1. PICK z \in Nat : z = f.selectors[x] /\ z < k
    BY <1>4
  <2>. QED BY <2>1
<1>7. /\ MenuBanks(s) \in 1 .. m
      /\ \A i \in 1 .. Len(s) : s[i].entropy \in Nat /\ s[i].entropy < MenuBanks(s)
  BY <1>2, <1>4, BanksFacts
<1>. QED BY <1>1, <1>2, <1>5, <1>6, <1>7

\* The encoder's choice for empty blocks.
LEMMA AppendZeroFrame ==
    ASSUME FrameInv, AppendZero
    PROVE  FrameInv'
<1>0. /\ pc = "zeros" /\ Planned(fits, ids) /\ Submitted(fits, ids, call)
      /\ UNCHANGED <<fits, ids, empty, frame, menu, states, weights, chosen>>
  BY DEF FrameInv, AppendZero, FrameSteps
<1>1. PICK f : f = call
  OBVIOUS
<1>2. PICK z \in SUBSET Blocks : z = f.zeros
  BY <1>0, <1>1 DEF Submitted
<1>3. /\ f = [models |-> f.models, menu |-> f.menu, selectors |-> f.selectors, zeros |-> z]
      /\ Packed(f, 3, 3)
      /\ \A x \in Blocks \ z : Tells(f, fits, ids, x)
      /\ \A x \in z : ids[x] = 0
  BY <1>0, <1>1, <1>2 DEF Submitted, Fitted
<1>4. PICK m \in Seq(MenuChoices), ms \in Seq(Fits), s \in [Blocks -> Nat] :
        m = f.menu /\ ms = f.models /\ s = f.selectors
  BY <1>3 DEF Packed
<1>5. PICK n : n = Len(m)
  OBVIOUS
<1>6. /\ n \in 1 .. 3 /\ n \in Nat
      /\ \A i \in 1 .. n : Sound(m[i], ms) /\ m[i].entropy < 3
      /\ \A x \in Blocks : s[x] \in Nat /\ s[x] < n
      /\ Len(ms) <= 3
  BY <1>3, <1>4, <1>5 DEF Packed
<1>7. PICK bank : bank = MenuBanks(m)
  OBVIOUS
<1>8. bank \in 1 .. 3
  <2>1. PICK t \in 0 .. MaxBank : t = 3
    BY DEF MaxBank
  <2>2. PICK u \in Nat : u = 3
    OBVIOUS
  <2>3. Packed(f, u, t)
    BY <2>1, <2>2, <1>3
  <2>4. MenuBanks(f.menu) \in 1 .. t
    BY <2>3, PackedValid
  <2>. QED BY <2>1, <2>4, <1>4, <1>7
<1>9. PICK c : c = ZeroChoice(bank)
  OBVIOUS
<1>10. Serves(c, ms, bank, fits, 0)
  BY <1>8, <1>9, ZeroFacts
<1>11. ~ (n >= MaxChoices \/ bank >= FrameBanks)
  BY <1>6, <1>8 DEF MaxChoices, FrameBanks
<1>12. /\ call' = IF z = {} THEN f
                  ELSE [f EXCEPT !.menu = Append(m, c),
                                 !.selectors = [x \in Blocks |-> IF x \in z THEN n ELSE s[x]]]
       /\ pc' = "encode"
  BY <1>0, <1>1, <1>2, <1>4, <1>5, <1>7, <1>9, <1>11 DEF AppendZero
<1>13. CASE z = {}
  <2>1. Packed(f, 4, 4)
    <3>1. \A i \in 1 .. n : m[i].entropy < 4
      <4>. TAKE i \in 1 .. n
      <4>1. PICK d \in MenuChoices : d = m[i] /\ d.entropy < 3
        BY <1>5, <1>6
      <4>2. d.entropy \in Nat
        BY DEF MenuChoices
      <4>3. PICK u : u = d.entropy
        OBVIOUS
      <4>4. u < 4
        BY <4>1, <4>2, <4>3
      <4>. QED BY <4>1, <4>3, <4>4
    <3>2. n \in 1 .. 4
      BY <1>6
    <3>. QED BY <3>1, <3>2, <1>4, <1>5, <1>6 DEF Packed
  <2>2. Given(fits, ids, f)
    BY <2>1, <1>3, <1>13 DEF Given
  <2>3. Given(fits', ids', call') /\ Planned(fits', ids')
    BY <2>2, <1>0, <1>12, <1>13
  <2>. QED BY <2>3, <1>12 DEF FrameInv, FrameSteps
<1>14. CASE z # {}
  <2>1. PICK g : g = call'
    OBVIOUS
  <2>2. PICK m2 : m2 = Append(m, c)
    OBVIOUS
  <2>3. PICK s2 : s2 = [x \in Blocks |-> IF x \in z THEN n ELSE s[x]]
    OBVIOUS
  <2>4. g.models = ms /\ g.menu = m2 /\ g.selectors = s2
    BY <1>3, <1>4, <1>12, <1>14, <2>1, <2>2, <2>3
  <2>5. /\ m2 \in Seq(MenuChoices) /\ Len(m2) = n + 1
        /\ \A i \in 1 .. n : m2[i] = m[i]
        /\ m2[n + 1] = c
    BY <2>2, <1>5, <1>10 DEF Serves
  <2>6. /\ s2 \in [Blocks -> Nat]
        /\ \A x \in Blocks : s2[x] < n + 1
    BY <2>3, <1>6
  <2>7. \A i \in 1 .. n + 1 : Sound(m2[i], ms) /\ m2[i].entropy < 4
    <3>. TAKE i \in 1 .. n + 1
    <3>1. CASE i \in 1 .. n
      <4>1. PICK d \in MenuChoices : d = m2[i] /\ d.entropy < 3 /\ Sound(d, ms)
        BY <3>1, <2>5, <1>5, <1>6
      <4>2. d.entropy \in Nat
        BY DEF MenuChoices
      <4>3. PICK u : u = d.entropy
        OBVIOUS
      <4>4. u < 4
        BY <4>1, <4>2, <4>3
      <4>. QED BY <4>1, <4>3, <4>4
    <3>2. CASE i = n + 1
      BY <3>2, <2>5, <1>8, <1>10 DEF Serves
    <3>. QED BY <3>1, <3>2, <1>6
  <2>8. Packed(g, 4, 4)
    <3>1. n + 1 \in 1 .. 4
      BY <1>6
    <3>2. g.models \in Seq(Fits) /\ Len(g.models) <= 3 /\ g.menu \in Seq(MenuChoices)
      BY <2>4, <2>5, <1>6
    <3>3. Len(g.menu) = n + 1
      BY <2>4, <2>5
    <3>. QED BY <3>1, <3>2, <3>3, <2>4, <2>6, <2>7 DEF Packed
  <2>9. \A x \in Blocks : Tells(g, fits, ids, x)
    <3>. TAKE x \in Blocks
    <3>1. CASE x \in z
      <4>1. s2[x] = n /\ ids[x] = 0
        BY <3>1, <2>3, <1>3
      <4>2. Of(m2, s2, x) = c
        BY <4>1, <2>5 DEF Of
      <4>. QED BY <4>1, <4>2, <2>4, <1>10 DEF Tells, Serves
    <3>2. CASE x \notin z
      <4>1. PICK r : r = s[x]
        OBVIOUS
      <4>2. r \in Nat /\ r < n /\ s2[x] = r
        BY <3>2, <4>1, <1>6, <2>3
      <4>3. r + 1 \in 1 .. n
        BY <4>2, <1>6
      <4>4. Of(m2, s2, x) = Of(m, s, x)
        BY <4>1, <4>2, <4>3, <2>5 DEF Of
      <4>5. Tells(f, fits, ids, x)
        BY <3>2, <1>3
      <4>. QED BY <4>4, <4>5, <2>4, <1>4 DEF Tells
    <3>. QED BY <3>1, <3>2
  <2>10. Given(fits, ids, g)
    BY <2>8, <2>9 DEF Given
  <2>11. Given(fits', ids', call') /\ Planned(fits', ids')
    BY <2>1, <2>10, <1>0
  <2>. QED BY <2>11, <1>12 DEF FrameInv, FrameSteps
<1>. QED BY <1>13, <1>14

\* What the frame encoder is given it accepts and writes.
LEMMA EncodeFrame ==
    ASSUME FrameInv, Encode
    PROVE  FrameInv'
<1>0. /\ pc = "encode" /\ Planned(fits, ids) /\ Given(fits, ids, call)
      /\ UNCHANGED <<fits, ids, empty, call, menu, states, weights, chosen>>
  BY DEF FrameInv, Encode, FrameSteps
<1>1. PICK f : f = call
  OBVIOUS
<1>2. PICK t \in 0 .. MaxBank, u \in Nat : t = 4 /\ u = 4 /\ Packed(f, u, t)
  BY <1>0, <1>1 DEF Given, MaxBank
<1>3. /\ \A i \in 1 .. Len(f.menu) : Valid(f.menu[i], f.models)
      /\ \A x \in Blocks : f.selectors[x] < Len(f.menu)
      /\ MenuBanks(f.menu) \in 1 .. t
  BY <1>2, PackedValid
<1>4. PICK n \in Nat : n = Len(f.menu) /\ n \in 1 .. 4
  <2>1. PICK n : n = Len(f.menu)
    OBVIOUS
  <2>2. n \in 1 .. u
    BY <2>1, <1>2 DEF Packed
  <2>3. n \in 1 .. 4 /\ n \in Nat
    BY <2>2, <1>2
  <2>. QED BY <2>1, <2>3
<1>5. PICK l \in Nat : l = Len(f.models) /\ l <= 3
  BY <1>2 DEF Packed
<1>6. PICK tables : tables = K * MenuBanks(f.menu)
  OBVIOUS
<1>7. ~ (tables > MaxTables)
  <2>1. PICK g \in 1 .. 4 : g = MenuBanks(f.menu)
    BY <1>2, <1>3
  <2>2. tables = 16 * g
    BY <1>6, <2>1 DEF K
  <2>. QED BY <2>2 DEF MaxTables
<1>8. \A x \in Blocks : ~ (f.selectors[x] >= n)
  <2>. TAKE x \in Blocks
  <2>1. PICK r \in Nat : r = f.selectors[x]
    BY <1>2 DEF Packed
  <2>2. r < n
    BY <2>1, <1>3, <1>4
  <2>. QED BY <2>1, <2>2
<1>9. ~ ( \/ l > MaxModels \/ n \notin 1 .. MaxChoices
          \/ \E i \in 1 .. n : ~ Valid(f.menu[i], f.models)
          \/ tables > MaxTables
          \/ \E x \in Blocks : f.selectors[x] >= n )
  BY <1>3, <1>4, <1>5, <1>7, <1>8 DEF MaxModels, MaxChoices
<1>10. PICK zeros \in BOOLEAN : zeros = AllZeros(f.menu, f.selectors)
  BY DEF AllZeros
<1>11. /\ frame' = [models |-> f.models, menu |-> f.menu, selectors |-> f.selectors,
                    tables |-> IF zeros THEN 0 ELSE tables,
                    payload |-> IF zeros THEN <<>>
                                ELSE [x \in Blocks |-> FirstTable(Of(f.menu, f.selectors, x))]]
       /\ pc' = "read"
  BY <1>0, <1>1, <1>4, <1>5, <1>6, <1>9, <1>10 DEF Encode
<1>12. PICK g : g = frame'
  OBVIOUS
<1>13. /\ g.models = f.models /\ g.menu = f.menu /\ g.selectors = f.selectors
       /\ g.tables = (IF zeros THEN 0 ELSE tables)
       /\ ~ zeros => g.payload = [x \in Blocks |-> FirstTable(Of(f.menu, f.selectors, x))]
  BY <1>11, <1>12
<1>14. Given(fits, ids, g)
  BY <1>13, <1>0, <1>1 DEF Given, Packed, Tells
<1>15. Written(g)
  BY <1>13, <1>10, <1>6 DEF Written
<1>16. Given(fits', ids', frame') /\ Planned(fits', ids') /\ Written(frame')
  BY <1>12, <1>14, <1>15, <1>0
<1>. QED BY <1>16, <1>11 DEF FrameInv, FrameSteps

-----------------------------------------------------------------------------
(* What the decoder makes of it.                                           *)

LEMMA WrittenBanks ==
    ASSUME NEW f, NEW of, NEW fs, Given(fs, of, f), Written(f),
           ~ AllZeros(f.menu, f.selectors)
    PROVE  /\ DecoderBanks(f) \in 1 .. 4
           /\ f.tables = 16 * DecoderBanks(f)
           /\ f.tables % DecoderBanks(f) = 0
           /\ DecoderK(f) = 16
<1>1. PICK t \in 0 .. MaxBank, u \in Nat : t = 4 /\ u = 4 /\ Packed(f, u, t)
  BY DEF Given, MaxBank
<1>2. MenuBanks(f.menu) \in 1 .. t
  BY <1>1, PackedValid
<1>3. PICK g \in 1 .. 4 : g = DecoderBanks(f) /\ g = MenuBanks(f.menu)
  BY <1>1, <1>2 DEF DecoderBanks
<1>4. PICK n : n = f.tables
  OBVIOUS
<1>5. n = 16 * g
  BY <1>3, <1>4 DEF Written, K
<1>6. n % g = 0 /\ n \div g = 16
  <2>1. CASE g = 1
    BY <1>5, <2>1
  <2>2. CASE g = 2
    BY <1>5, <2>2
  <2>3. CASE g = 3
    BY <1>5, <2>3
  <2>4. CASE g = 4
    BY <1>5, <2>4
  <2>. QED BY <2>1, <2>2, <2>3, <2>4
<1>. QED BY <1>3, <1>4, <1>5, <1>6 DEF DecoderK

LEMMA GivenReadable ==
    ASSUME NEW f, NEW of, NEW fs, Given(fs, of, f)
    PROVE  Readable(f) /\ \A x \in Blocks : f.selectors[x] + 1 \in 1 .. Len(f.menu)
<1>1. PICK t \in 0 .. MaxBank, u \in Nat : t = 4 /\ u = 4 /\ Packed(f, u, t)
  BY DEF Given, MaxBank
<1>2. /\ \A i \in 1 .. Len(f.menu) : Valid(f.menu[i], f.models)
      /\ \A x \in Blocks : /\ f.selectors[x] + 1 \in 1 .. Len(f.menu)
                           /\ f.selectors[x] < Len(f.menu)
  BY <1>1, PackedValid
<1>. QED BY <1>2 DEF Readable

\* A frame without a block to decode.
LEMMA ReadZerosFrame ==
    ASSUME FrameInv, ReadZeros
    PROVE  FrameInv'
<1>0. /\ pc = "read" /\ Planned(fits, ids) /\ Given(fits, ids, frame) /\ Written(frame)
      /\ AllZeros(frame.menu, frame.selectors)
      /\ UNCHANGED <<fits, ids, empty, call, frame, menu, states, weights>>
      /\ chosen' = [x \in Blocks |-> [id |-> 0, bank |-> 0]]
  BY DEF FrameInv, ReadZeros, FrameSteps
<1>1. Readable(frame) /\ \A x \in Blocks : frame.selectors[x] + 1 \in 1 .. Len(frame.menu)
  BY <1>0, GivenReadable
<1>2. frame.tables = 0
  BY <1>0 DEF Written
<1>3. pc' = "done"
  BY <1>1, <1>2 DEF ReadZeros
<1>4. ASSUME NEW x \in Blocks
      PROVE  Understood(chosen[x].id)' = Coding(fits, ids[x])'
  <2>1. PICK c : c = Of(frame.menu, frame.selectors, x)
    OBVIOUS
  <2>2. c.predictor = ZeroPredictor
    BY <1>0, <2>1 DEF AllZeros
  <2>3. Sound(c, frame.models)
    BY <1>0, <1>1, <2>1 DEF Given, Packed, Of
  <2>4. Reads(c, frame.models) = [predictor |-> 0, fit |-> None, weights |-> None]
    BY <2>2, <2>3 DEF Sound, Reads, ZeroPredictor
  <2>5. Reads(c, frame.models) = Coding(fits, ids[x])
    BY <1>0, <2>1 DEF Given, Tells
  <2>6. PICK id : id = chosen'[x].id
    OBVIOUS
  <2>7. id = 0
    BY <1>0, <2>6
  <2>8. Understood(id)' = [predictor |-> 0, fit |-> None, weights |-> None]
    BY <2>7 DEF Understood
  <2>9. Coding(fits, ids[x])' = Coding(fits, ids[x])
    BY <1>0
  <2>10. Understood(chosen[x].id)' = [predictor |-> 0, fit |-> None, weights |-> None]
    BY <2>6, <2>8
  <2>. QED BY <2>4, <2>5, <2>9, <2>10
<1>5. TablesAgree'
  BY <1>0, <1>2 DEF TablesAgree
<1>6. Planned(fits', ids') /\ Given(fits', ids', frame') /\ Written(frame')
  BY <1>0
<1>. QED BY <1>3, <1>4, <1>5, <1>6 DEF FrameInv, FrameSteps

\* The decoder sets up the models that are named.
LEMMA ReadModelsFrame ==
    ASSUME FrameInv, ReadModels
    PROVE  FrameInv'
<1>0. /\ pc = "read" /\ Planned(fits, ids) /\ Given(fits, ids, frame) /\ Written(frame)
      /\ ~ AllZeros(frame.menu, frame.selectors)
      /\ UNCHANGED <<fits, ids, empty, call, frame, weights, chosen>>
      /\ menu' = Renumbered(frame) /\ states' = SetUp(frame)
  BY DEF FrameInv, ReadModels, FrameSteps
<1>1. Readable(frame)
  BY <1>0, GivenReadable
<1>2. frame.tables % DecoderBanks(frame) = 0 /\ DecoderK(frame) = 16
  BY <1>0, WrittenBanks
<1>3. DecoderK(frame) \in 2 .. 32
  BY <1>2
<1>4. pc' = "weigh"
  BY <1>1, <1>2, <1>3 DEF ReadModels
<1>5. /\ Planned(fits', ids') /\ Given(fits', ids', frame') /\ Written(frame')
      /\ menu' = Renumbered(frame') /\ states' = SetUp(frame')
      /\ ~ AllZeros(frame'.menu, frame'.selectors)
  BY <1>0
<1>. QED BY <1>4, <1>5 DEF FrameInv, FrameSteps

\* A used choice that names a model: its number is a place among the models set up,
\* which holds the model it named, and its weights follow from both.
IsRenumbered(f, i) ==
    LET c == Renumbered(f)[i]
        d == f.menu[i]
        first == SetUp(f)
    IN  /\ c.predictor = d.predictor /\ c.weights = d.weights /\ c.entropy = d.entropy
        /\ c.predictor \in 0 .. 11
        /\ c.model \in 0 .. 3 /\ c.model < Len(first)
        /\ d.model # NoModel
        /\ first[c.model + 1] = f.models[d.model + 1]
        /\ c.weights = IF c.predictor = 0 THEN None ELSE first[c.model + 1]

LEMMA NamingRenumbered ==
    ASSUME NEW f, Packed(f, 4, 4), NEW i \in Naming(f),
           \A x \in Blocks : f.selectors[x] + 1 \in 1 .. Len(f.menu)
    PROVE  /\ IsRenumbered(f, i)
           /\ i \in 1 .. Len(f.menu)
           /\ Len(SetUp(f)) \in Nat
<1> DEFINE N == Naming(f)
           of == ModelOf(f)
           L == Listed(N, of)
<1>1. PICK n \in Nat : n = Len(f.menu) /\ n \in 1 .. 4
  <2>1. PICK m \in Seq(MenuChoices) : m = f.menu /\ Len(m) \in 1 .. 4
    BY DEF Packed
  <2>2. PICK n \in Nat : n = Len(m)
    OBVIOUS
  <2>. QED BY <2>1, <2>2
<1>2. N \in SUBSET (1 .. n) /\ N \subseteq Nat
  <2>1. Used(f) \subseteq 1 .. n
    BY <1>1 DEF Used
  <2>2. N \subseteq Used(f)
    BY DEF Naming
  <2>. HIDE DEF N
  <2>. QED BY <2>1, <2>2
<1>3. IsFiniteSet(N) /\ Cardinality(N) \in Nat /\ Cardinality(N) <= 4
  <2>1. 1 \in Int /\ n \in Int /\ (IF 1 > n THEN 0 ELSE (n - 1) + 1) = n
    OBVIOUS
  <2>2. IsFiniteSet(1 .. n) /\ Cardinality(1 .. n) = n
    BY <2>1, FS_Interval
  <2>. HIDE DEF N
  <2>3. IsFiniteSet(N) /\ Cardinality(N) <= n /\ Cardinality(N) \in Nat
    BY <2>2, <1>2, FS_Subset, FS_CardinalityType
  <2>4. PICK h \in Nat : h = Cardinality(N)
    BY <2>3
  <2>5. h <= 4
    <3>1. h <= n
      BY <2>3, <2>4
    <3>2. n \in 1 .. 4
      BY <1>1
    <3>. QED BY <3>1, <3>2
  <2>. QED BY <2>3, <2>4, <2>5
<1>4. /\ Firsts(N, of) \subseteq N
      /\ L \in Seq(N) /\ Len(L) = Cardinality(Firsts(N, of))
      /\ Place(N, of, i) \in 0 .. Len(L) - 1
      /\ L[Place(N, of, i) + 1] \in N
      /\ of[L[Place(N, of, i) + 1]] = of[i]
  <2>1. IsList(N, of)
    <3>. HIDE DEF N, of
    <3>. QED BY <1>2, <1>3, ListFacts
  <2>. HIDE DEF N, of
  <2>. QED BY <2>1 DEF IsList, N
<1>5. PICK k \in Nat : k = Len(L) /\ k <= 4
  <2>. HIDE DEF N, of
  <2>1. Firsts(N, of) \in SUBSET N
    BY <1>4
  <2>2. Cardinality(Firsts(N, of)) <= Cardinality(N) /\ Cardinality(Firsts(N, of)) \in Nat
    BY <1>3, <2>1, FS_Subset, FS_CardinalityType
  <2>3. PICK c \in Nat : c = Cardinality(Firsts(N, of))
    BY <2>2
  <2>4. PICK h \in Nat : h = Cardinality(N) /\ h <= 4
    BY <1>3
  <2>5. c <= h
    BY <2>2, <2>3, <2>4
  <2>6. Len(L) = c
    BY <1>4, <2>3
  <2>. QED BY <2>4, <2>5, <2>6
<1>6. PICK r : r = Place(N, of, i)
  OBVIOUS
<1>7. r \in 0 .. k - 1 /\ L[r + 1] \in N /\ of[L[r + 1]] = of[i]
  BY <1>4, <1>5, <1>6
<1>8. PICK j \in N : j = L[r + 1] /\ of[j] = of[i]
  BY <1>7
<1>9. of[i] = f.menu[i].model /\ of[j] = of[i]
  BY <1>8 DEF ModelOf
<1>10. SetUp(f) = [g \in 1 .. k |-> f.models[of[L[g]] + 1]]
  <2>1. L # <<>>
    BY <1>5, <1>7
  <2>2. SetUp(f) = [g \in 1 .. Len(L) |-> f.models[of[L[g]] + 1]]
    BY <2>1 DEF SetUp
  <2>. QED BY <2>2, <1>5
<1>11. r + 1 \in 1 .. k /\ r \in 0 .. 3 /\ r < k
  BY <1>5, <1>7
<1>. HIDE DEF L
<1>12. Len(SetUp(f)) = k /\ SetUp(f)[r + 1] = f.models[f.menu[i].model + 1]
  BY <1>8, <1>9, <1>10, <1>11
<1>13. PICK d \in MenuChoices : d = f.menu[i] /\ Sound(d, f.models)
  BY <1>1, <1>2 DEF Packed
<1>14. d.model # NoModel
  BY <1>13 DEF Naming
<1>15. Renumbered(f)[i] = [d EXCEPT !.model = r]
  BY <1>1, <1>2, <1>6, <1>13 DEF Renumbered
<1>16. PICK c : c = [d EXCEPT !.model = r]
  OBVIOUS
<1>17. /\ c.predictor = d.predictor /\ c.weights = d.weights /\ c.entropy = d.entropy
       /\ c.model = r
  BY <1>13, <1>16 DEF MenuChoices
<1>18. /\ d.predictor \in 0 .. 11
       /\ d.weights = IF d.predictor = 0 THEN None ELSE f.models[d.model + 1]
  BY <1>13, <1>14 DEF Sound
<1>. HIDE DEF N, of
<1>19. PICK s : s = SetUp(f)
  OBVIOUS
<1>20. /\ c.predictor = d.predictor /\ c.weights = d.weights /\ c.entropy = d.entropy
       /\ c.predictor \in 0 .. 11
       /\ c.model \in 0 .. 3 /\ c.model < Len(s)
       /\ d.model # NoModel
       /\ s[c.model + 1] = f.models[d.model + 1]
       /\ c.weights = IF c.predictor = 0 THEN None ELSE s[c.model + 1]
  BY <1>11, <1>12, <1>13, <1>14, <1>17, <1>18, <1>19
<1>21. IsRenumbered(f, i)
  BY <1>13, <1>15, <1>16, <1>19, <1>20 DEF IsRenumbered
<1>. QED BY <1>1, <1>2, <1>12, <1>21 DEF N

\* A choice without a model keeps none.
LEMMA OthersRenumbered ==
    ASSUME NEW f, Packed(f, 4, 4), NEW i \in 1 .. Len(f.menu), i \notin Naming(f)
    PROVE  LET c == Renumbered(f)[i]
           IN  /\ c.predictor = f.menu[i].predictor /\ c.weights = f.menu[i].weights
               /\ c.entropy = f.menu[i].entropy /\ c.model = NoModel
<1>1. PICK d \in MenuChoices : d = f.menu[i]
  BY DEF Packed
<1>2. Renumbered(f)[i] = [d EXCEPT !.model = NoModel]
  BY <1>1 DEF Renumbered
<1>. QED BY <1>1, <1>2 DEF MenuChoices

\* The weight ids of two used choices are the same only if their weights are.
LEMMA SameWeights ==
    ASSUME NEW f, NEW i, NEW j, IsRenumbered(f, i), IsRenumbered(f, j),
           NEW c, c = Renumbered(f)[i], NEW d, d = Renumbered(f)[j],
           WeightId(c) = WeightId(d)
    PROVE  c.weights = d.weights
<1>1. PICK p, q : p = c.predictor /\ q = d.predictor
  OBVIOUS
<1>2. PICK m, n : m = c.model /\ n = d.model
  OBVIOUS
<1>3. /\ p \in 0 .. 11 /\ q \in 0 .. 11 /\ m \in 0 .. 3 /\ n \in 0 .. 3
      /\ c.weights = (IF p = 0 THEN None ELSE SetUp(f)[m + 1])
      /\ d.weights = (IF q = 0 THEN None ELSE SetUp(f)[n + 1])
  BY <1>1, <1>2 DEF IsRenumbered
<1>4. 12 * m + p = 12 * n + q
  BY <1>1, <1>2 DEF WeightId
<1>5. m = n /\ p = q
  BY <1>3, <1>4
<1>. QED BY <1>3, <1>5

\* The decoder finds one pair of weights for each predictor of a model.
LEMMA WeighFrame ==
    ASSUME FrameInv, Weigh
    PROVE  FrameInv'
<1>0. /\ pc = "weigh" /\ Planned(fits, ids) /\ Given(fits, ids, frame) /\ Written(frame)
      /\ ~ AllZeros(frame.menu, frame.selectors)
      /\ menu = Renumbered(frame) /\ states = SetUp(frame)
      /\ UNCHANGED <<fits, ids, empty, call, frame, menu, states, chosen>>
  BY DEF FrameInv, Weigh, FrameSteps
<1>1. PICK f : f = frame
  OBVIOUS
<1>2. /\ Packed(f, 4, 4)
      /\ \A x \in Blocks : f.selectors[x] + 1 \in 1 .. Len(f.menu)
  BY <1>0, <1>1, GivenReadable DEF Given
<1>3. PICK n \in Nat : n = Len(f.menu) /\ n \in 1 .. 4
  <2>1. PICK m \in Seq(MenuChoices) : m = f.menu /\ Len(m) \in 1 .. 4
    BY <1>2 DEF Packed
  <2>2. PICK n \in Nat : n = Len(m)
    OBVIOUS
  <2>. QED BY <2>1, <2>2
<1>4. menu = Renumbered(f) /\ states = SetUp(f) /\ DOMAIN menu = 1 .. n
  BY <1>0, <1>1, <1>3 DEF Renumbered
<1>5. \A i \in Naming(f) : IsRenumbered(f, i) /\ i \in 1 .. n /\ Len(SetUp(f)) \in Nat
  BY <1>2, <1>3, NamingRenumbered
<1>6. \A i \in 1 .. n : i \notin Naming(f) => menu[i].model = NoModel
  BY <1>2, <1>3, <1>4, OthersRenumbered
<1> DEFINE naming == {c \in Range(menu) : c.model # NoModel}
           named == {WeightId(c) : c \in naming}
           Own(id) == IF id \in named THEN (CHOOSE c \in naming : WeightId(c) = id).weights
                      ELSE None
           Reference(k) == LET assisted == {m \in 1 .. 11 : 12 * k + m \in named}
                           IN  12 * k + IF assisted = {} THEN 0 ELSE Min(assisted)
           conflict == \E c, d \in naming : WeightId(c) = WeightId(d) /\ c.weights # d.weights
<1>7. \A c \in naming : \E i \in Naming(f) : c = menu[i]
  <2>. TAKE c \in naming
  <2>1. PICK i \in 1 .. n : c = menu[i]
    BY <1>4 DEF Range
  <2>2. i \in Naming(f)
    BY <2>1, <1>6
  <2>. QED BY <2>1, <2>2
<1>8. \A i \in Naming(f) : menu[i] \in naming
  <2>. TAKE i \in Naming(f)
  <2>1. i \in 1 .. n /\ menu[i].model \in 0 .. 3
    BY <1>4, <1>5 DEF IsRenumbered
  <2>. QED BY <2>1, <1>4 DEF Range, NoModel
<1>9. \A c, d \in naming : WeightId(c) = WeightId(d) => c.weights = d.weights
  <2>. TAKE c, d \in naming
  <2>1. PICK i \in Naming(f), j \in Naming(f) : c = menu[i] /\ d = menu[j]
    BY <1>7
  <2>2. IsRenumbered(f, i) /\ IsRenumbered(f, j)
    BY <1>5
  <2>3. c = Renumbered(f)[i] /\ d = Renumbered(f)[j]
    BY <2>1, <1>4
  <2>. HIDE DEF naming
  <2>. QED BY <2>2, <2>3, SameWeights
<1>10. ~ conflict
  BY <1>9
<1>11. /\ weights' = [id \in 0 .. 12 * Len(states) - 1 |->
                        IF id \in named \/ id % 12 = 0 THEN Own(id)
                        ELSE Own(Reference(id \div 12))]
       /\ pc' = IF conflict THEN "refused" ELSE "rewrite"
  BY DEF Weigh
<1>12. pc' = "rewrite"
  <2>. HIDE DEF conflict
  <2>. QED BY <1>10, <1>11
<1>13. ASSUME NEW i \in Naming(f)
       PROVE  weights'[WeightId(menu[i])] = menu[i].weights
  <2>1. PICK c \in naming : c = menu[i]
    BY <1>8
  <2>2. PICK id : id = WeightId(c)
    OBVIOUS
  <2>3. id \in named
    BY <2>2
  <2>4. Own(id) = c.weights
    <3>. DEFINE g == CHOOSE d \in naming : WeightId(d) = id
    <3>. HIDE DEF naming
    <3>1. g \in naming /\ WeightId(g) = id
      BY <2>2
    <3>2. Own(id) = g.weights
      BY <2>3
    <3>. HIDE DEF g
    <3>. QED BY <3>1, <3>2, <2>2, <1>9
  <2>5. PICK l \in Nat : l = Len(states)
    BY <1>4, <1>5
  <2>6. id \in 0 .. 12 * l - 1
    <3>1. PICK m, p : m = c.model /\ p = c.predictor
      OBVIOUS
    <3>2. m \in 0 .. 3 /\ m < l /\ p \in 0 .. 11
      BY <3>1, <2>1, <2>5, <1>4, <1>5 DEF IsRenumbered
    <3>3. id = 12 * m + p
      BY <2>2, <3>1 DEF WeightId
    <3>. QED BY <3>2, <3>3
  <2>7. weights' = [w \in 0 .. 12 * l - 1 |->
                      IF w \in named \/ w % 12 = 0 THEN Own(w) ELSE Own(Reference(w \div 12))]
    BY <1>11, <2>5
  <2>. HIDE DEF Own, named, Reference, naming
  <2>8. weights'[id] = Own(id)
    BY <2>3, <2>6, <2>7
  <2>. QED BY <2>1, <2>2, <2>4, <2>8
<1>14. Weighed'
  <2>1. frame' = f /\ menu' = menu
    BY <1>0, <1>1
  <2>. QED BY <1>13, <2>1 DEF Weighed
<1>15. /\ Planned(fits', ids') /\ Given(fits', ids', frame') /\ Written(frame')
       /\ menu' = Renumbered(frame') /\ states' = SetUp(frame')
       /\ ~ AllZeros(frame'.menu, frame'.selectors)
  BY <1>0
<1>. QED BY <1>12, <1>14, <1>15 DEF FrameInv, FrameSteps

\* What the wave decoder makes of a selector is how its block was coded.
LEMMA RewriteFrame ==
    ASSUME FrameInv, Rewrite
    PROVE  FrameInv'
<1>0. /\ pc = "rewrite" /\ Planned(fits, ids) /\ Given(fits, ids, frame) /\ Written(frame)
      /\ ~ AllZeros(frame.menu, frame.selectors)
      /\ menu = Renumbered(frame) /\ states = SetUp(frame) /\ Weighed
      /\ UNCHANGED <<fits, ids, empty, call, frame, menu, states, weights>>
      /\ pc' = "done"
      /\ chosen' = [x \in Blocks |->
           [id |-> Canonical(Of(menu, frame.selectors, x)),
            bank |-> IF DecoderBanks(frame) > 1 THEN Of(menu, frame.selectors, x).entropy ELSE 0]]
  BY DEF FrameInv, Rewrite, FrameSteps
<1>1. PICK f : f = frame
  OBVIOUS
<1>2. /\ Packed(f, 4, 4)
      /\ \A x \in Blocks : f.selectors[x] + 1 \in 1 .. Len(f.menu)
  BY <1>0, <1>1, GivenReadable DEF Given
<1>3. ASSUME NEW x \in Blocks
      PROVE  /\ Of(menu, f.selectors, x).entropy = Of(f.menu, f.selectors, x).entropy
             /\ Understood(Canonical(Of(menu, f.selectors, x)))
                  = Reads(Of(f.menu, f.selectors, x), f.models)
  <2>1. PICK i \in 1 .. Len(f.menu) : i = f.selectors[x] + 1
    BY <1>2
  <2>2. PICK c, d : c = menu[i] /\ d = f.menu[i]
    OBVIOUS
  <2>3. c = Of(menu, f.selectors, x) /\ d = Of(f.menu, f.selectors, x)
    BY <2>1, <2>2 DEF Of
  <2>4. Sound(d, f.models)
    BY <1>2, <2>2 DEF Packed
  <2>5. i \in Used(f)
    BY <2>1 DEF Used
  <2>6. CASE i \in Naming(f)
    <3>1. IsRenumbered(f, i)
      BY <1>2, <2>6, NamingRenumbered
    <3>2. c = Renumbered(f)[i] /\ states = SetUp(f)
      BY <1>0, <1>1, <2>2
    <3>3. PICK m, p : m = c.model /\ p = c.predictor
      OBVIOUS
    <3>4. /\ p = d.predictor /\ c.weights = d.weights /\ c.entropy = d.entropy
          /\ p \in 0 .. 11 /\ m \in 0 .. 3
          /\ d.model # NoModel
          /\ states[m + 1] = f.models[d.model + 1]
          /\ p = 0 => d.weights = None
      BY <3>1, <3>2, <3>3, <2>2 DEF IsRenumbered
    <3>5. weights[WeightId(c)] = d.weights
      BY <1>0, <1>1, <2>6, <2>2, <3>4 DEF Weighed
    <3>6. PICK w : w = WeightId(c)
      OBVIOUS
    <3>7. w = 12 * m + p
      BY <3>3, <3>6 DEF WeightId
    <3>8. PICK id : id = Canonical(c)
      OBVIOUS
    <3>9. m # NoModel /\ p # ZeroPredictor
      BY <3>4 DEF NoModel, ZeroPredictor
    <3>10. id = 12 + w
      BY <3>3, <3>6, <3>8, <3>9 DEF Canonical
    <3>11. /\ id \in Nat /\ ~ (id < 12) /\ id - 12 = w
           /\ id \div 12 = m + 1 /\ id % 12 = p
      <4>1. PICK k \in Nat : k = m + 1
        BY <3>4
      <4>2. id = 12 * k + p
        BY <3>4, <3>7, <3>10, <4>1
      <4>3. id \div 12 = k /\ id % 12 = p
        BY <4>2, <3>4, IdOf
      <4>4. w \in Nat
        BY <3>4, <3>7
      <4>5. id \in Nat /\ ~ (id < 12) /\ id - 12 = w
        BY <4>4, <3>10
      <4>. QED BY <4>1, <4>3, <4>5
    <3>12. Understood(id) = [predictor |-> p, fit |-> states[m + 1],
                             weights |-> IF p = 0 THEN None ELSE weights[w]]
      BY <3>11 DEF Understood
    <3>13. Reads(d, f.models) = [predictor |-> p, fit |-> states[m + 1], weights |-> d.weights]
      BY <3>4 DEF Reads, ZeroPredictor
    <3>14. d.weights = IF p = 0 THEN None ELSE weights[w]
      BY <3>4, <3>5, <3>6
    <3>. QED BY <2>3, <3>4, <3>8, <3>12, <3>13, <3>14
  <2>7. CASE i \notin Naming(f)
    <3>1. /\ c.predictor = d.predictor /\ c.weights = d.weights
          /\ c.entropy = d.entropy /\ c.model = NoModel
      BY <1>0, <1>1, <1>2, <2>2, <2>7, OthersRenumbered
    <3>2. d.model = NoModel
      BY <2>2, <2>5, <2>7 DEF Naming
    <3>3. d.predictor \in 0 .. 12 /\ d.weights = None
      <4>1. PICK l \in Nat : l = Len(f.models) /\ l <= 3
        BY <1>2 DEF Packed
      <4>2. ~ (255 \in 0 .. l - 1)
        BY <4>1
      <4>. QED BY <2>4, <3>2, <4>1, <4>2 DEF Sound, NoModel
    <3>4. PICK id : id = Canonical(c)
      OBVIOUS
    <3>5. CASE d.predictor = ZeroPredictor
      <4>1. id = 0
        BY <3>1, <3>4, <3>5 DEF Canonical
      <4>2. Understood(id) = [predictor |-> 0, fit |-> None, weights |-> None]
        BY <4>1 DEF Understood
      <4>3. Reads(d, f.models) = [predictor |-> 0, fit |-> None, weights |-> None]
        BY <3>2, <3>3, <3>5 DEF Reads
      <4>. QED BY <2>3, <3>1, <3>4, <4>2, <4>3
    <3>6. CASE d.predictor # ZeroPredictor
      <4>1. id = d.predictor
        BY <3>1, <3>4, <3>6 DEF Canonical
      <4>2. id \in 0 .. 11 /\ id < 12
        BY <3>3, <3>6, <4>1 DEF ZeroPredictor
      <4>3. Understood(id) = [predictor |-> id, fit |-> None, weights |-> None]
        BY <4>2 DEF Understood
      <4>4. Reads(d, f.models) = [predictor |-> id, fit |-> None, weights |-> None]
        BY <3>2, <3>3, <3>6, <4>1 DEF Reads
      <4>. QED BY <2>3, <3>1, <3>4, <4>3, <4>4
    <3>. QED BY <3>5, <3>6
  <2>. QED BY <2>6, <2>7
<1>4. ASSUME NEW x \in Blocks
      PROVE  Understood(chosen[x].id)' = Coding(fits, ids[x])'
  <2>1. PICK id : id = chosen'[x].id
    OBVIOUS
  <2>2. id = Canonical(Of(menu, f.selectors, x))
    BY <1>0, <1>1, <2>1
  <2>3. Understood(id) = Reads(Of(f.menu, f.selectors, x), f.models)
    BY <2>2, <1>3
  <2>4. Understood(id)' = Understood(id)
    BY <1>0 DEF Understood
  <2>5. Understood(chosen[x].id)' = Understood(id)'
    BY <2>1 DEF Understood
  <2>6. Reads(Of(f.menu, f.selectors, x), f.models) = Coding(fits, ids[x])
    BY <1>0, <1>1 DEF Given, Tells
  <2>7. Coding(fits, ids[x])' = Coding(fits, ids[x])
    BY <1>0
  <2>. QED BY <2>3, <2>4, <2>5, <2>6, <2>7
<1>5. TablesAgree'
  <2>1. /\ DecoderBanks(f) \in 1 .. 4 /\ f.tables = 16 * DecoderBanks(f) /\ DecoderK(f) = 16
    BY <1>0, <1>1, WrittenBanks
  <2>2. PICK g \in 1 .. 4 : g = DecoderBanks(f)
    BY <2>1
  <2>3. ASSUME NEW x \in Blocks
        PROVE  /\ DecoderK(f) * chosen'[x].bank = f.payload[x]
               /\ f.payload[x] + K <= f.tables
    <3>1. PICK i \in 1 .. Len(f.menu) : i = f.selectors[x] + 1
      BY <1>2
    <3>2. PICK e1 : e1 = f.menu[i].entropy
      OBVIOUS
    <3>3. e1 \in Nat /\ e1 < g
      <4>1. PICK t \in 0 .. MaxBank, u \in Nat : t = 4 /\ u = 4 /\ Packed(f, u, t)
        BY <1>2 DEF MaxBank
      <4>2. \A j \in 1 .. Len(f.menu) :
              f.menu[j].entropy \in Nat /\ f.menu[j].entropy < MenuBanks(f.menu)
        BY <4>1, PackedValid
      <4>. QED BY <3>1, <3>2, <4>2, <2>2 DEF DecoderBanks
    <3>4. Of(f.menu, f.selectors, x).entropy = e1
      BY <3>1, <3>2 DEF Of
    <3>5. PICK bank : bank = chosen'[x].bank
      OBVIOUS
    <3>6. bank = IF g > 1 THEN e1 ELSE 0
      BY <1>0, <1>1, <1>3, <2>2, <3>4, <3>5
    <3>7. bank = e1
      BY <3>3, <3>6
    <3>8. f.payload[x] = 16 * e1
      BY <1>0, <1>1, <3>4 DEF Written, FirstTable, K
    <3>9. 16 * e1 + 16 <= 16 * g
      BY <3>3
    <3>. QED BY <3>5, <3>7, <3>8, <3>9, <2>1, <2>2 DEF K
  <2>4. DecoderK(frame)' = DecoderK(f) /\ frame' = f
    BY <1>0, <1>1 DEF DecoderK, DecoderBanks, MenuBanks
  <2>. QED BY <2>3, <2>4 DEF TablesAgree
<1>6. Planned(fits', ids') /\ Given(fits', ids', frame') /\ Written(frame')
  BY <1>0
<1>. QED BY <1>0, <1>4, <1>5, <1>6 DEF FrameInv, FrameSteps

\* Every policy hands over a frame of its ids.
LEMMA SearchFrame ==
    ASSUME FrameInv, Search
    PROVE  FrameInv'
<1>0. pc' = "zeros" /\ empty' \in SUBSET Blocks
  BY DEF Search
<1>1. PICK void \in SUBSET Blocks : void = empty'
  BY <1>0
<1>2. PICK fs, of, f : fs = fits' /\ of = ids' /\ f = call'
  OBVIOUS
<1>3. Submitted(fs, of, f)
  <2>1. CASE /\ empty' = Blocks
             /\ fits' = <<>> /\ ids' = FastIds(0, {}) /\ call' = AllZero
    BY <2>1, <1>2, ZeroSubmits
  <2>2. CASE empty' # Blocks /\ Fast(empty')
    <3>1. PICK p \in Plain, g \in Fits \cup {None} :
            /\ fs = IF g = None THEN <<>> ELSE <<g>>
            /\ of = FastIds(IF g = None THEN p ELSE 12 + p, void)
            /\ f = FastMenu(fs, of, void)
      BY <2>2, <1>1, <1>2 DEF Fast
    <3>2. PICK seed : seed = IF g = None THEN p ELSE 12 + p
      OBVIOUS
    <3>3. p \in 0 .. 11
      BY PlainAssumption
    <3>4. seed \in Nat /\ fs \in Seq(Fits)
      BY <3>1, <3>2, <3>3
    <3>5. \/ Len(fs) = 0 /\ seed < 12
          \/ Len(fs) = 1 /\ seed \in 12 .. 23
      BY <3>1, <3>2, <3>3
    <3>6. of = FastIds(seed, void)
      BY <3>1, <3>2
    <3>7. void # Blocks
      BY <2>2, <1>1
    <3>8. Submitted(fs, FastIds(seed, void), FastMenu(fs, FastIds(seed, void), void))
      BY <3>4, <3>5, <3>7, FastSubmits
    <3>. QED BY <3>1, <3>6, <3>8
  <2>3. CASE empty' # Blocks /\ Medium(empty')
    <3>1. PICK g \in Fits, h \in Fits, third \in Plain \ {0}, assisted \in BOOLEAN,
               sel \in [Blocks -> 0 .. 2] :
            /\ fs = IF assisted THEN <<g, h>> ELSE <<g>>
            /\ of = [x \in Blocks |-> IF x \in void THEN 0
                                      ELSE MediumIds(third, assisted)[sel[x] + 1]]
            /\ f = Fitted(fs, fs, MediumMenu(fs, third, assisted), sel, void)
      BY <2>3, <1>1, <1>2 DEF Medium
    <3>2. third \in 1 .. 11
      BY PlainAssumption
    <3>3. fs \in Seq(Fits) /\ Len(fs) = IF assisted THEN 2 ELSE 1
      BY <3>1
    <3>. QED BY <3>1, <3>2, <3>3, MediumSubmits
  <2>4. CASE empty' # Blocks /\ MediumSingle(empty')
    <3>1. PICK g \in Fits, h \in Fits, third \in Plain \ {0}, assisted \in BOOLEAN,
               singleton \in 0 .. 2 :
            /\ fs = IF assisted THEN <<g, h>> ELSE <<g>>
            /\ of = FastIds(MediumIds(third, assisted)[singleton + 1], void)
            /\ f = Fitted(fs, SingleModels(fs, singleton, assisted),
                          SingleMenu(fs, singleton, third, assisted),
                          [x \in Blocks |-> 0], void)
      BY <2>4, <1>1, <1>2 DEF MediumSingle
    <3>2. third \in 1 .. 11
      BY PlainAssumption
    <3>3. fs \in Seq(Fits) /\ Len(fs) = IF assisted THEN 2 ELSE 1
      BY <3>1
    <3>. QED BY <3>1, <3>2, <3>3, SingleSubmits
  <2>5. CASE empty' # Blocks /\ Slow(empty')
    <3>1. PICK plan \in SUBSET Candidates :
            /\ Cardinality(plan) \in 1 .. 3
            /\ fs \in SetToSeqs(plan \cap Fits)
            /\ \E sel \in [Blocks -> plan] :
                 of = [x \in Blocks |-> IF x \in void THEN 0 ELSE PlanId(fs, sel[x])]
            /\ f = SlowMenu(fs, of, void, Cardinality(plan) > 1)
      BY <2>5, <1>1, <1>2 DEF Slow
    <3>2. PICK sel \in [Blocks -> plan] :
            of = [x \in Blocks |-> IF x \in void THEN 0 ELSE PlanId(fs, sel[x])]
      BY <3>1
    <3>3. PICK many : many = (Cardinality(plan) > 1)
      OBVIOUS
    <3>4. void # Blocks
      BY <2>5, <1>1
    <3>5. Submitted(fs, of, SlowMenu(fs, of, void, many))
      BY <3>1, <3>2, <3>3, <3>4, SlowSubmits
    <3>. QED BY <3>1, <3>3, <3>5
  <2>. QED BY <2>1, <2>2, <2>3, <2>4, <2>5 DEF Search
<1>4. Submitted(fits', ids', call') /\ Planned(fits', ids')
  BY <1>2, <1>3 DEF Submitted
<1>. QED BY <1>0, <1>4 DEF FrameInv, FrameSteps

LEMMA InitFrame == FrameInit => FrameInv
BY DEF FrameInit, FrameInv, FrameSteps

LEMMA StutterFrame ==
    ASSUME FrameInv, UNCHANGED frameVars
    PROVE  FrameInv'
<1>1. /\ pc' = pc /\ fits' = fits /\ ids' = ids /\ call' = call /\ frame' = frame
      /\ menu' = menu /\ states' = states /\ weights' = weights /\ chosen' = chosen
  BY DEF frameVars
<1>2. \A x \in Blocks : Understood(chosen[x].id)' = Understood(chosen[x].id)
  BY <1>1 DEF Understood
<1>3. TablesAgree' = TablesAgree /\ Weighed' = Weighed
  BY <1>1 DEF TablesAgree, Weighed, DecoderK, DecoderBanks, MenuBanks
<1>. QED BY <1>1, <1>2, <1>3 DEF FrameInv

LEMMA NextFrame ==
    ASSUME FrameInv, [FrameNext]_frameVars
    PROVE  FrameInv'
<1>1. CASE Search
  BY <1>1, SearchFrame
<1>2. CASE AppendZero
  BY <1>2, AppendZeroFrame
<1>3. CASE Encode
  BY <1>3, EncodeFrame
<1>4. CASE ReadZeros
  BY <1>4, ReadZerosFrame
<1>5. CASE ReadModels
  BY <1>5, ReadModelsFrame
<1>6. CASE Weigh
  BY <1>6, WeighFrame
<1>7. CASE Rewrite
  BY <1>7, RewriteFrame
<1>8. CASE UNCHANGED frameVars
  BY <1>8, StutterFrame
<1>. QED BY <1>1, <1>2, <1>3, <1>4, <1>5, <1>6, <1>7, <1>8 DEF FrameNext

-----------------------------------------------------------------------------
(* The theorems.                                                           *)

\* Whatever a policy decides, every block's choice and, after decoding, its selector
\* code as its id says.
THEOREM FrameInvariant == FrameSpec => []FrameInv
<1>1. FrameInit => FrameInv
  BY InitFrame
<1>2. FrameInv /\ [FrameNext]_frameVars => FrameInv'
  BY NextFrame
<1>. QED BY <1>1, <1>2, PTL DEF FrameSpec

\* No side refuses a policy's frame: there is a bank for empty blocks, and no predictor
\* of a model has two weights.
THEOREM FrameNeverRefused == FrameSpec => []NeverRefused
<1>1. FrameInv => NeverRefused
  BY DEF FrameInv, FrameSteps, NeverRefused
<1>. QED BY <1>1, FrameInvariant, PTL

\* Both sides find a block's classes in the same tables.
THEOREM BankTablesAgree == FrameSpec => []TablesAgree
<1>1. FrameInv => TablesAgree
  BY DEF FrameInv, TablesAgree
<1>. QED BY <1>1, FrameInvariant, PTL

\* Policy, frame encoder and frame decoder together implement BlockCodec: a search
\* decides, the decoder's last step decodes, and the others show nothing.
THEOREM FrameDecodesBlocks == FrameSpec => ImplementsBlockCodec
<1>1. FrameInit => Promise!Init
  BY DEF FrameInit, Promise!Init, Coded, Decoded
<1>2. FrameInv /\ [FrameNext]_frameVars => [Promise!Next]_<<Coded, Decoded>>
  <2>. SUFFICES ASSUME FrameInv, [FrameNext]_frameVars
                PROVE  Promise!Next \/ (Coded' = Coded /\ Decoded' = Decoded)
    OBVIOUS
  <2>0. FrameInv'
    BY NextFrame
  <2>1. CASE Search
    <3>1. pc = "search" /\ pc' = "zeros"
      BY <2>1 DEF Search
    <3>2. Planned(fits', ids')
      BY <2>0, <3>1 DEF FrameInv
    <3>3. \A x \in Blocks : Coding(fits', ids'[x]) \in Codings
      BY <3>2, CodingFacts
    <3>4. /\ Coded = None /\ Coded' = [x \in Blocks |-> Coding(fits', ids'[x])]
          /\ Decoded = None /\ Decoded' = None
      BY <3>1 DEF Coded, Decoded
    <3>5. Coded' \in [Blocks -> Codings]
      BY <3>3, <3>4
    <3>. QED BY <3>4, <3>5 DEF Promise!Next, Promise!Decide
  <2>2. ASSUME fits' = fits, ids' = ids, pc # "search", pc # "done", pc' = "done"
        PROVE  Promise!Next
    <3>1. /\ Coded = [x \in Blocks |-> Coding(fits, ids[x])] /\ Coded' = Coded
          /\ Decoded = None /\ Decoded' = [x \in Blocks |-> Understood(chosen[x].id)']
      BY <2>2 DEF Coded, Decoded
    <3>2. \A x \in Blocks : Understood(chosen[x].id)' = Coding(fits, ids[x])
      BY <2>0, <2>2 DEF FrameInv
    <3>3. Decoded' = Coded
      BY <3>1, <3>2
    <3>4. Planned(fits, ids)
      BY <2>2 DEF FrameInv
    <3>5. Coded \in [Blocks -> Codings]
      BY <3>1, <3>4, CodingFacts
    <3>6. Coded # None
      BY <3>5, NoneAssumption
    <3>. QED BY <3>1, <3>3, <3>6 DEF Promise!Next, Promise!Decode
  <2>3. ASSUME fits' = fits, ids' = ids, pc # "search", pc # "done", pc' # "done",
               pc' # "search"
        PROVE  Coded' = Coded /\ Decoded' = Decoded
    BY <2>3 DEF Coded, Decoded
  <2>4. CASE AppendZero
    <3>1. /\ fits' = fits /\ ids' = ids /\ pc = "zeros" /\ pc' # "done" /\ pc' # "search"
      BY <2>4 DEF AppendZero
    <3>. QED BY <3>1, <2>3
  <2>5. CASE Encode
    <3>1. /\ fits' = fits /\ ids' = ids /\ pc = "encode" /\ pc' # "done" /\ pc' # "search"
      BY <2>5 DEF Encode
    <3>. QED BY <3>1, <2>3
  <2>6. CASE ReadZeros
    <3>1. /\ fits' = fits /\ ids' = ids /\ pc = "read" /\ pc' \in {"done", "refused"}
      BY <2>6 DEF ReadZeros
    <3>2. pc' = "done"
      BY <3>1, <2>0 DEF FrameInv, FrameSteps
    <3>. QED BY <3>1, <3>2, <2>2
  <2>7. CASE ReadModels
    <3>1. /\ fits' = fits /\ ids' = ids /\ pc = "read" /\ pc' # "done" /\ pc' # "search"
      BY <2>7 DEF ReadModels
    <3>. QED BY <3>1, <2>3
  <2>8. CASE Weigh
    <3>1. /\ fits' = fits /\ ids' = ids /\ pc = "weigh" /\ pc' \in {"rewrite", "refused"}
      BY <2>8 DEF Weigh
    <3>. QED BY <3>1, <2>3
  <2>9. CASE Rewrite
    <3>1. /\ fits' = fits /\ ids' = ids /\ pc = "rewrite" /\ pc' = "done"
      BY <2>9 DEF Rewrite
    <3>. QED BY <3>1, <2>2
  <2>10. CASE UNCHANGED frameVars
    <3>1. pc' = pc /\ fits' = fits /\ ids' = ids /\ chosen' = chosen /\ states' = states
          /\ weights' = weights
      BY <2>10 DEF frameVars
    <3>2. \A x \in Blocks : Understood(chosen[x].id)' = Understood(chosen[x].id)
      BY <3>1 DEF Understood
    <3>. QED BY <3>1, <3>2 DEF Coded, Decoded
  <2>. QED BY <2>1, <2>4, <2>5, <2>6, <2>7, <2>8, <2>9, <2>10 DEF FrameNext
<1>. QED BY <1>1, <1>2, FrameInvariant, PTL DEF FrameSpec, ImplementsBlockCodec, Promise!Spec
=============================================================================
