----------------------------- MODULE PaddedRows -----------------------------
(***************************************************************************)
(* The padded volume of ng_kernel_common.h, at the granularity at which    *)
(* it is written: rows.  A row <<z, y>> of the volume is an x-line; the    *)
(* buffer surrounds the Z x Y rows with YP pad rows above and below every  *)
(* slice and ZP pad slices before slice 0, and every row with XP pad       *)
(* voxels on its left and right.                                           *)
(*                                                                         *)
(* Voxel values are symbolic.  A cell holds, for each of its three sides   *)
(* (left pad, middle voxels, right pad), the row its bytes were copied     *)
(* from, or Flat.  A left pad owned by row o repeats the first voxel of o, *)
(* a right pad owned by o repeats the last one, a middle owned by o is o   *)
(* itself.  Two buffers that agree symbolically agree byte for byte once   *)
(* the rows they name do.                                                  *)
(***************************************************************************)
EXTENDS Integers

CONSTANTS Y,    \* rows of a slice (VCN_LC_Y)
          Z,    \* slices (VCN_LC_Z)
          YP,   \* pad rows above and below a slice (VCN_LC_YP)
          ZP,   \* pad slices before slice 0 (VCN_LC_ZP)
          Flat  \* the constant fill: 128 for voxels, 0 for errors

\* ng_geometry_valid makes Y and Z positive multiples of 32; only Y > 3, the
\* largest tap radius, and Z > 0 matter here.
ASSUME GeometryAssumption ==
    /\ Y \in Nat /\ Y >= 4
    /\ Z \in Nat /\ Z >= 1

\* No tap reaches further than 3 rows or 2 slices.
ASSUME PadAssumption ==
    /\ YP \in Nat /\ YP >= 3
    /\ ZP \in Nat /\ ZP >= 2

Rows == (0 .. Z-1) \X (0 .. Y-1)

ASSUME FlatAssumption == Flat \notin Rows

Sides == {"left", "mid", "right"}
Cells == (-ZP .. Z-1) \X (-YP .. Y+YP-1)
Owners == Rows \cup {Flat}

Whole(o) == [s \in Sides |-> o]

\* A buffer as calloc or memset leaves it.
Fresh == [c \in Cells |-> Whole(Flat)]

-----------------------------------------------------------------------------
(* The two pad routines.                                                   *)

\* Before a row is predicted: row 0 of a slice first gets its top pad rows, a
\* copy of row 0 of the slice before; then the left pad repeats the first voxel
\* of the row above.
RowBegin(b, z, y) ==
    LET top == IF z > 0 THEN b[<<z-1, 0>>] ELSE Whole(Flat)
        above == IF y = 0 THEN top["mid"] ELSE b[<<z, y-1>>]["mid"]
    IN [c \in Cells |->
          IF c[1] = z /\ y = 0 /\ c[2] < 0 THEN top
          ELSE IF c = <<z, y>> THEN [b[c] EXCEPT !["left"] = above]
          ELSE b[c]]

\* A slip: the pad rows below a slice are never written.
RowEndWithoutBottom(b, z, y) ==
    LET own == Whole(b[<<z, y>>]["mid"])
    IN [c \in Cells |->
          IF c = <<z, y>> \/ (z = 0 /\ c[1] < 0 /\ c[2] = y) THEN own ELSE b[c]]

\* After a row is known: its own pads, the bottom pad rows after the last row of
\* a slice, and the pad slices, which repeat slice 0 as far as it is known.
RowEnd(b, z, y) ==
    LET own == Whole(b[<<z, y>>]["mid"])
        first == IF y = 0 THEN -YP ELSE y
        last == IF y = Y-1 THEN Y+YP-1 ELSE y
        inSlice(q) == IF q = y \/ (y = Y-1 /\ q >= Y) THEN own ELSE b[<<z, q>>]
    IN [c \in Cells |->
          IF c[1] = z THEN inSlice(c[2])
          ELSE IF z = 0 /\ c[1] < 0 /\ c[2] \in first .. last THEN inSlice(c[2])
          ELSE b[c]]

\* The row's voxels are stored, then its pads.
Complete(b, z, y) ==
    RowEnd([b EXCEPT ![<<z, y>>]["mid"] = <<z, y>>], z, y)

-----------------------------------------------------------------------------
(* What a row reads.                                                       *)

\* Tap radii of a model: r0 for the row's own slice, r1 and r2 for the one and
\* two slices before, -1 for none.
Radii == [r0 : 1 .. 3, r1 : -1 .. 3, r2 : -1 .. 3]

SidesWithin(r) == IF r = 0 THEN {"mid"} ELSE Sides

Taps(m) ==
    {<<0, 0, "left">>}
    \cup ({0} \X (-m.r0 .. -1) \X SidesWithin(m.r0))
    \cup ({-1} \X (-m.r1 .. m.r1) \X SidesWithin(m.r1))
    \cup ({-2} \X (-m.r2 .. m.r2) \X SidesWithin(m.r2))

\* A slip: the fit for slice 0 also weighs taps into the pad slices.
UsedTapsUnrestricted(m, z) == Taps(m)

\* The fit for slice 0 is slice-only: taps into other slices keep weight 0 and
\* never enter the tap list.
UsedTaps(m, z) ==
    IF z = 0 THEN {t \in Taps(m) : t[1] = 0} ELSE Taps(m)

\* The context activity stencil over the error buffer.
ActivityTaps ==
    ({0} \X {-1} \X Sides) \cup ({-1} \X {0} \X Sides)
    \cup {<<0, -2, "mid">>, <<-1, -1, "mid">>, <<-1, 1, "mid">>, <<-2, 0, "mid">>}

\* What the taps in T of row <<z, y>> see in b.
View(b, z, y, T) == [t \in T |-> b[<<z + t[1], y + t[2]>>][t[3]]]

-----------------------------------------------------------------------------
(* The buffer as a function of the rows completed so far.                  *)

\* The row whose first voxel the left pad of <<z, y>> repeats before the row is
\* known.
Above(z, y) ==
    IF y > 0 THEN <<z, y-1>> ELSE IF z > 0 THEN <<z-1, 0>> ELSE Flat

\* The cell holding real row <<z, y>>, when the rows in done are complete and
\* those in open have begun.
RealCell(done, open, z, y) ==
    IF <<z, y>> \in done THEN Whole(<<z, y>>)
    ELSE IF <<z, y>> \in open THEN [Whole(Flat) EXCEPT !["left"] = Above(z, y)]
    ELSE Whole(Flat)

PadCell(done, open, z, q) ==
    IF q < 0
    THEN IF z > 0 /\ <<z, 0>> \in done \cup open
         THEN Whole(<<z-1, 0>>) ELSE Whole(Flat)
    ELSE IF <<z, Y-1>> \in done THEN Whole(<<z, Y-1>>) ELSE Whole(Flat)

Contents(done, open) ==
    [c \in Cells |->
        IF c[1] < 0
        THEN IF c[2] \in 0 .. Y-1 THEN RealCell(done, {}, 0, c[2])
             ELSE PadCell(done, {}, 0, c[2])
        ELSE IF c[2] \in 0 .. Y-1 THEN RealCell(done, open, c[1], c[2])
        ELSE PadCell(done, open, c[1], c[2])]

\* The rows before <<z, y>> in raster order.
Before(z, y) == {r \in Rows : r[1] < z \/ (r[1] = z /\ r[2] < y)}

\* What row <<z, y>> reads when the volume is coded in raster order: the promise
\* every other traversal has to keep.
RasterView(z, y, T) == View(Contents(Before(z, y), {<<z, y>>}), z, y, T)
=============================================================================
