----------------------------- MODULE RasterPass -----------------------------
(***************************************************************************)
(* The encoder's passes over the padded volume: vcn_lc_encode_ex and       *)
(* ng_bank_symbols_impl.  Both go in raster order.  The first pass fills   *)
(* the volume for the fit; the second predicts every row from it, on a     *)
(* cleared buffer or, within a fit session, on the buffer the fit left     *)
(* behind; the third classifies every row from the error buffer.           *)
(***************************************************************************)
EXTENDS PaddedRows

CONSTANTS Models  \* the tap radii a run may use

ASSUME ModelsAssumption == Models \subseteq Radii

VARIABLES model,     \* the model being fitted
          session,   \* the caller keeps a fit session (cf->fit_session)
          pass,      \* "pad", "predict", "symbols" or "done"
          row,       \* the row the pass is at
          b,         \* padded voxels
          e,         \* padded error magnitudes
          readB,     \* what each row's prediction read from b
          readE      \* what each row's class read from e

vars == <<model, session, pass, row, b, e, readB, readE>>

Unread == [t \in {} |-> Flat]

\* memset(b, 128): the padding pass starts on a flat buffer.
Init ==
    /\ model \in Models
    /\ session \in BOOLEAN
    /\ pass = "pad"
    /\ row = <<0, 0>>
    /\ b = Fresh
    /\ e = Fresh
    /\ readB = [r \in Rows |-> Unread]
    /\ readE = [r \in Rows |-> Unread]

LastRow == <<Z-1, Y-1>>

NextRow == IF row[2] < Y-1 THEN <<row[1], row[2]+1>> ELSE <<row[1]+1, 0>>

\* The row loops: the next row of this pass, or the first of the next.
Advance(following) ==
    IF row = LastRow
    THEN pass' = following /\ row' = <<0, 0>>
    ELSE pass' = pass /\ row' = NextRow

\* Outside a session the volume is cleared again after the fit.
FitVolume(filled) ==
    IF row = LastRow /\ ~session THEN Fresh ELSE filled

\* The padded volume in its final state, for the fit.
PadRow ==
    LET z == row[1]  y == row[2] IN
    /\ pass = "pad"
    /\ b' = FitVolume(Complete(RowBegin(b, z, y), z, y))
    /\ Advance("predict")
    /\ UNCHANGED <<model, session, e, readB, readE>>

\* A slip: within a session the row's own pads are not put back.
PredictedVolumeLeftOpen(begun, z, y) ==
    IF session THEN begun ELSE Complete(begun, z, y)

\* Outside a session the row is copied in; within one it is there already.
PredictedVolume(begun, z, y) ==
    IF session THEN RowEnd(begun, z, y) ELSE Complete(begun, z, y)

\* A slip: the symbol pass goes on with the errors of the prediction pass.
ErrorsLeft(errors) == errors

\* After the last row the error buffer is cleared for the symbol pass.
ErrorsFor(errors) == IF row = LastRow THEN Fresh ELSE errors

\* One row of the prediction pass.
PredictRow ==
    LET z == row[1]  y == row[2]  begun == RowBegin(b, z, y) IN
    /\ pass = "predict"
    /\ readB' = [readB EXCEPT ![row] = View(begun, z, y, UsedTaps(model, z))]
    /\ b' = PredictedVolume(begun, z, y)
    /\ e' = ErrorsFor(Complete(RowBegin(e, z, y), z, y))
    /\ Advance("symbols")
    /\ UNCHANGED <<model, session, readE>>

\* One row of the symbol pass: the class from the errors of earlier rows.
SymbolRow ==
    LET z == row[1]  y == row[2]
        begun == RowBegin(e, z, y)
    IN
    /\ pass = "symbols"
    /\ readE' = [readE EXCEPT ![row] = View(begun, z, y, ActivityTaps)]
    /\ e' = Complete(begun, z, y)
    /\ Advance("done")
    /\ UNCHANGED <<model, session, b, readB>>

\* The next candidate of a session, with the same source and configuration: the
\* volume is ready (padded_ready) and the pad pass is skipped.
NextCandidate ==
    /\ pass = "done" /\ session
    /\ pass' = "predict"
    /\ e' = Fresh
    /\ UNCHANGED <<model, session, row, b, readB, readE>>

Next == PadRow \/ PredictRow \/ SymbolRow \/ NextCandidate

Spec == Init /\ [][Next]_vars

-----------------------------------------------------------------------------
\* Every prediction reads the rows a plain raster traversal of a fresh buffer
\* would give it, also within a fit session, where the buffer already holds the
\* whole volume: no tap reaches a row the decoder could not have yet.
PredictionsAreCausal ==
    \A r \in Rows : readB[r] # Unread =>
        readB[r] = RasterView(r[1], r[2], UsedTaps(model, r[1]))

\* The same of the class contexts: the symbol pass starts from cleared errors, so
\* what the prediction pass left in the buffer never reaches a class.
ClassesAreCausal ==
    \A r \in Rows : readE[r] # Unread =>
        readE[r] = RasterView(r[1], r[2], ActivityTaps)

\* Every later pass within a session leaves the shared volume as the fit left it,
\* so the next candidate of the session fits the same data.
SessionKeepsVolume ==
    [][session /\ pass # "pad" => b' = b]_vars
=============================================================================
