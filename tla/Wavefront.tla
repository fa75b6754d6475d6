----------------------------- MODULE Wavefront ------------------------------
(***************************************************************************)
(* The decoder's traversal, ng_bank_reconstruct_core.  The encoder codes   *)
(* rows in raster order (RasterPass); the decoder runs row <<z, y>> at     *)
(* step y + dl z, in groups of up to NL rows of one step, because such     *)
(* rows are independent.  Each group goes through phases, each a loop over *)
(* its rows: begin (pads, prediction and class of every row), errors (the  *)
(* symbols become error magnitudes), base (neighbouring voxels), publish   *)
(* (the voxels become history).  The rows of a group are consecutive       *)
(* slices, so a group is known by its step and its first slice.            *)
(***************************************************************************)
EXTENDS PaddedRows

CONSTANTS NL,        \* rows rebuilt together (VCN_LC_NL)
          ModelSets  \* the sets of used models a run may decode

ASSUME LanesAssumption == NL \in Nat /\ NL >= 1
ASSUME ModelSetsAssumption == ModelSets \subseteq SUBSET Radii

VARIABLES
    models,    \* radii of the models some block uses
    path,      \* where base prediction finds its neighbours: see Paths
    dl,        \* the wavefront's slope
    pc,        \* the phase
    t,         \* the step
    lo,        \* the first slice of the group
    at,        \* the slice the phase is at
    b,         \* padded voxels (h->b)
    e,         \* padded error magnitudes (h->e)
    out,       \* state of each row of the output volume
    ring,      \* the wave history, plane by plane
    readB,     \* what each row's prediction read from b
    readE,     \* what each row's class read from e
    readBase   \* what each row's base prediction found for its neighbours

vars == <<models, path, dl, pc, t, lo, at, b, e, out, ring,
          readB, readE, readBase>>

\* "delta": no block needs a wavefront history and voxels are restored after the
\* last group; otherwise neighbours come from the output volume ("out"), from the
\* padded volume ("padded" with one model, "bank" with several: AVX2) or from the
\* wave history ("ring": AVX-512, one model).
Paths == {"delta", "out", "padded", "bank", "ring"}

Larger(m, n) == IF m > n THEN m ELSE n
Reach(m) == Larger(m.r1, m.r2)

\* A slip: rows one slice back run only just ahead.
DeltaWithoutMargin(m) == Larger(Reach(m), 1)

\* vcn_lc_delta
Delta(m) == Larger(Reach(m), 1) + 1

\* A slip: models are compared by their reach into one slice only.
EntropyModelByR1(ms) ==
    IF \E m \in ms : Reach(m) > -1
    THEN CHOOSE m \in ms : \A n \in ms : n.r1 <= m.r1
    ELSE [r0 |-> 1, r1 |-> 0, r2 |-> 0]

\* The model whose taps the encoder serializes for its entropy traversal: a used
\* one of largest reach, or the empty model when none reaches another slice.
EntropyModel(ms) ==
    IF \E m \in ms : Reach(m) > -1
    THEN CHOOSE m \in ms : \A n \in ms : Reach(n) <= Reach(m)
    ELSE [r0 |-> 1, r1 |-> 0, r2 |-> 0]

\* The slope the decoder takes from the models themselves.
DecoderDelta(ms) ==
    LET slopes == {2} \cup {Delta(m) : m \in ms}
    IN CHOOSE d \in slopes : \A c \in slopes : c <= d

-----------------------------------------------------------------------------
(* Steps and groups.                                                       *)

Step(r) == r[2] + dl * r[1]

\* A slip: the rows still missing from the last slice are forgotten.
LastStepEarly == dl * (Z - 1)
LastStep == Y - 1 + dl * (Z - 1)
SlicesOf(s) == {z \in 0 .. Z-1 : s - dl * z \in 0 .. Y-1}

FirstSlice(s) == CHOOSE z \in SlicesOf(s) : \A w \in SlicesOf(s) : z <= w

Row(z) == <<z, t - dl * z>>
LastOfStep(z) == z + 1 \notin SlicesOf(t)
LastOfGroup(z) == z = lo + NL - 1 \/ LastOfStep(z)

\* The loop over a group's rows: the phase goes on, or the following one starts
\* at the group's first row.
Loop(following) ==
    /\ IF LastOfGroup(at)
       THEN pc' = following /\ at' = lo
       ELSE pc' = pc /\ at' = at + 1
    /\ UNCHANGED <<t, lo>>

\* The loop of a group's last phase: after its last row comes the next group of
\* the step, the first group of the next step, or what follows the last step.
LoopGroups(first, after) ==
    IF ~LastOfGroup(at)
    THEN at' = at + 1 /\ UNCHANGED <<pc, t, lo>>
    ELSE IF ~LastOfStep(at)
    THEN pc' = first /\ lo' = at + 1 /\ at' = at + 1 /\ UNCHANGED t
    ELSE IF t < LastStep
    THEN /\ pc' = first /\ t' = t + 1
         /\ lo' = FirstSlice(t + 1) /\ at' = FirstSlice(t + 1)
    ELSE pc' = after /\ t' = 0 /\ lo' = 0 /\ at' = 0

-----------------------------------------------------------------------------
(* The wave history: a ring of planes, one per recent step, one lane per   *)
(* slice after a dummy lane.                                               *)

\* A slip: the plane of step t - dl - 1 is given away too early.
DepthShort == dl + 1
Depth == dl + 2

\* A slip: no room after the last slice for a full vector.
StrideTight == ((Z + 2 * NL - 1) \div (2 * NL)) * (2 * NL)
Stride == ((Z + 3 * NL - 1) \div (2 * NL)) * (2 * NL)
Lanes == 0 .. Stride - 1
Plane(s) == s % Depth

\* What a lane holds that no row of the volume was stored to.
Dead == <<-1, -1>>

\* A vector store writes NL lanes; those past the group hold leftovers.
PublishedLane(l) ==
    IF l - 1 \in SlicesOf(t) THEN Row(l - 1) ELSE Dead

StoreWave ==
    [ring EXCEPT ![Plane(t)] =
        [l \in Lanes |-> IF l \in lo + 1 .. lo + NL
                         THEN PublishedLane(l) ELSE @[l]]]

-----------------------------------------------------------------------------
Unread == [tap \in {} |-> Flat]

Init ==
    /\ models \in ModelSets
    /\ path \in Paths
    /\ path = "delta" => models = {}
    /\ path \in {"padded", "ring"} => \A m, n \in models : m = n
    /\ dl = DecoderDelta(models)
    /\ pc = "start"
    /\ t = 0 /\ lo = 0 /\ at = 0
    /\ b = Fresh
    /\ e = Fresh
    /\ out = [r \in Rows |-> "blank"]
    /\ ring = [p \in 0 .. Depth - 1 |-> [l \in Lanes |-> Dead]]
    /\ readB = [r \in Rows |-> Unread]
    /\ readE = [r \in Rows |-> Unread]
    /\ readBase = [r \in Rows |-> Unread]

\* The entropy header's taps must give the slope the models give.
Start ==
    /\ pc = "start"
    /\ pc' = IF Delta(EntropyModel(models)) = dl THEN "begin" ELSE "rejected"
    /\ UNCHANGED <<models, path, dl, t, lo, at, b, e, out, ring,
                   readB, readE, readBase>>

\* Taps of the models some block uses; without one nothing reads b.
DecoderTaps(z) == UNION {UsedTaps(m, z) : m \in models}

\* Pads, prediction and class of one row.
BeginRow ==
    LET z == at  y == t - dl * at
        begunB == IF path = "delta" THEN b ELSE RowBegin(b, z, y)
        begunE == RowBegin(e, z, y)
    IN
    /\ pc = "begin"
    /\ b' = begunB
    /\ e' = begunE
    /\ readB' = [readB EXCEPT ![<<z, y>>] = View(begunB, z, y, DecoderTaps(z))]
    /\ readE' = [readE EXCEPT ![<<z, y>>] = View(begunE, z, y, ActivityTaps)]
    /\ Loop("errors")
    /\ UNCHANGED <<models, path, dl, out, ring, readBase>>

\* The group's symbols are read; one row's residuals and error magnitudes.  With
\* one model on AVX2 the residuals stay beside the output.
ErrorRow ==
    LET z == at  y == t - dl * at IN
    /\ pc = "errors"
    /\ e' = Complete(e, z, y)
    /\ out' = IF path \in {"delta", "out", "bank"}
              THEN [out EXCEPT ![<<z, y>>] = "residual"] ELSE out
    /\ IF path = "delta" THEN LoopGroups("begin", "restore") ELSE Loop("base")
    /\ UNCHANGED <<models, path, dl, b, ring, readB, readE, readBase>>

\* The rows a base prediction looks at: above, behind, above behind.
Neighbours(z, y) ==
    {n \in {<<z, y-1>>, <<z-1, y>>, <<z-1, y-1>>} : n[1] >= 0 /\ n[2] >= 0}

InOutput(n) == IF out[n] = "value" THEN n ELSE Dead

\* The planes of steps t-1, t-dl and t-dl-1, each read from the group's lanes.
InRing(n) == ring[Plane(Step(n) + Depth)][n[1] + 1]

FoundAt(n) ==
    IF path = "ring" THEN InRing(n)
    ELSE IF path \in {"padded", "bank"} THEN b[n]["mid"]
    ELSE InOutput(n)

BaseRow ==
    LET z == at  y == t - dl * at IN
    /\ pc = "base"
    /\ readBase' = [readBase EXCEPT ![<<z, y>>] =
                        [n \in Neighbours(z, y) |-> FoundAt(n)]]
    /\ Loop("publish")
    /\ UNCHANGED <<models, path, dl, b, e, out, ring, readB, readE>>

\* ng_bank_publish_wave: the wave goes to the ring, then row by row to the padded
\* volume and the output.
PublishRow ==
    LET z == at  y == t - dl * at IN
    /\ pc = "publish"
    /\ ring' = IF path = "ring" /\ at = lo THEN StoreWave ELSE ring
    /\ b' = Complete(b, z, y)
    /\ out' = [out EXCEPT ![<<z, y>>] = "value"]
    /\ LoopGroups("begin", "done")
    /\ UNCHANGED <<models, path, dl, e, readB, readE, readBase>>

\* ng_bank_delta_reconstruct: row y = lo of slice z = at, in raster order.
RestoreRow ==
    LET z == at  y == lo IN
    /\ pc = "restore"
    /\ readBase' = [readBase EXCEPT ![<<z, y>>] =
                        [n \in Neighbours(z, y) |-> InOutput(n)]]
    /\ out' = [out EXCEPT ![<<z, y>>] = "value"]
    /\ IF y < Y-1 THEN lo' = lo + 1 /\ UNCHANGED <<at, pc>>
       ELSE IF z < Z-1 THEN lo' = 0 /\ at' = at + 1 /\ UNCHANGED pc
       ELSE pc' = "done" /\ UNCHANGED <<at, lo>>
    /\ UNCHANGED <<models, path, dl, t, b, e, ring, readB, readE>>

Next == Start \/ BeginRow \/ ErrorRow \/ BaseRow \/ PublishRow \/ RestoreRow

Spec == Init /\ [][Next]_vars

-----------------------------------------------------------------------------
\* The slope the encoder's entropy traversal used, taken from one model, is the
\* one the decoder takes from all used models: no valid stream is rejected.
SlopesAgree == pc # "rejected"

\* Whatever the taps of the used models, the prediction of every row reads
\* exactly what the encoder's raster pass read: rows it depends on are complete
\* with their pads, and rows raster order has not reached do not show, not even
\* through the pad slices and pad rows that are copied from them.
PredictionReadsAgree ==
    \A r \in Rows : readB[r] # Unread =>
        readB[r] = RasterView(r[1], r[2], DecoderTaps(r[1]))

\* The same of the class contexts read from the error history.
ClassReadsAgree ==
    \A r \in Rows : readE[r] # Unread =>
        readE[r] = RasterView(r[1], r[2], ActivityTaps)

\* A base prediction finds each neighbour's final voxels: never a residual still
\* waiting in the output, nor a lane of the ring that a later wave or the tail
\* of a vector store overwrote.
BaseReadsAgree ==
    \A r \in Rows : readBase[r] # Unread =>
        readBase[r] = [n \in Neighbours(r[1], r[2]) |-> n]

\* The full-width store of a group ends inside its plane of the ring.
StoreInsidePlane ==
    pc = "publish" /\ path = "ring" => lo + NL <= Stride - 1

\* At the end every row was restored, and every class read.
EveryRowRestored ==
    pc = "done" => \A r \in Rows : out[r] = "value" /\ readE[r] # Unread
=============================================================================
