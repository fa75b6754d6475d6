----------------------------- MODULE CallScope ------------------------------
(***************************************************************************)
(* One thread calling the encoder's policies and the leaf decoder, one     *)
(* after the other.  The kernels take the shape of their buffers from      *)
(* thread-local variables (the geometry, the edge of a block and a weight  *)
(* of the fit); policies change them on the way, because they screen a     *)
(* small sample of a volume first, and put them back.  Every step may      *)
(* fail, for want of memory or otherwise.  The values in the buffers and   *)
(* the scores are left out; a buffer is its shape.                         *)
(***************************************************************************)
EXTENDS Integers, Sequences

CONSTANTS Dims,    \* edges of the cubes that are encoded
          Edges,   \* block edges a decoded frame may have
          None     \* no buffer

Sample == 32       \* edge of the screened sample

ASSUME DimsAssumption == Dims \subseteq {n \in Nat : n >= Sample}
ASSUME EdgesAssumption == Edges \subseteq {2, 4, 8, 16, 32}

Policies == {"fast", "medium", "slow"}

VARIABLES
    pc,
    policy,
    d,        \* edge of the volume
    zeros,    \* empty blocks in the volume: "none" or "some"
    masked,   \* empty blocks in the sample
    learned,  \* the search has settled on a fitted model
    plans,    \* menus still to be tried
    scope,    \* the thread-local variables
    saved,    \* what the calls in progress will put back, outermost first
    outer,    \* the thread-local variables of the caller
    data,     \* the shape of each buffer
    kernel    \* the last call of a kernel: geometry, shapes and whether it accepts

vars == <<pc, policy, d, zeros, masked, learned, plans, scope, saved, outer, data, kernel>>

Buffers == {"sample",     \* the screened part of the volume
            "fixed",      \* residuals of the predictor in question
            "zero",       \* residuals of predictor 0
            "fit",        \* symbols of the fitted model in question
            "base",       \* its predictions, to be combined with classes
            "symbols"}    \* the symbols to be encoded
NoBuffers == [b \in Buffers |-> None]
Quiet == [geometry |-> Sample, shapes |-> {}, accepts |-> TRUE]

\* A kernel, or a copy of a whole volume, looks at buffers of these shapes through
\* the geometry in force.
Run(shapes, accepts) ==
    [geometry |-> scope.geometry, shapes |-> shapes, accepts |-> accepts]

\* What ng_prepare accepts: a session only with a predictor, without a mask and
\* without activity; activity only with a predictor and without a mask.
Accepts(feature, mask, session, activity) ==
    /\ session => feature /\ ~mask /\ ~activity
    /\ activity => feature /\ ~mask

\* vc_ng_fit_input: symbols and, unless activity is asked for, predictions.
Fitted(n, activity) ==
    [data EXCEPT !["fit"] = n, !["base"] = IF activity THEN None ELSE n]

-----------------------------------------------------------------------------
(* Entering and leaving. *)

\* vc_ng_preset_encode: the slow presets weigh the intercept.
Preset(p) ==
    /\ pc = "idle"
    /\ policy' = p
    /\ d' \in Dims
    /\ saved' = <<scope>>
    /\ scope' = [scope EXCEPT !.intercept = IF p = "slow" THEN 100 ELSE 0]
    /\ pc' = "enter"
    /\ UNCHANGED <<zeros, masked, learned, plans, outer, data, kernel>>

Enter ==
    /\ pc = "enter"
    /\ saved' = Append(saved, scope)
    /\ scope' = [scope EXCEPT !.geometry = d, !.edge = 4]
    /\ data' = NoBuffers /\ learned' = FALSE
    /\ plans' = CASE policy = "fast" -> 1 [] policy = "medium" -> 2 [] OTHER -> 3
    /\ pc' = "scan"
    /\ UNCHANGED <<policy, d, zeros, masked, outer, kernel>>

\* A volume of zeros needs no search.
Scan ==
    /\ pc = "scan"
    /\ \/ pc' = "write" /\ UNCHANGED <<zeros, masked>>
       \/ /\ zeros' \in {"none", "some"}
          /\ masked' \in IF zeros' = "none" THEN {FALSE}
                         ELSE IF d = Sample THEN {TRUE} ELSE BOOLEAN
          /\ pc' = "screen"
    /\ UNCHANGED <<policy, d, learned, plans, scope, saved, outer, data, kernel>>

Put(geometry, edge) == [scope EXCEPT !.geometry = geometry, !.edge = edge]

\* A slip: a failing call leaves the block edge as it is.
BackWithoutEdge == Put(saved[Len(saved)].geometry, scope.edge)

Back == Put(saved[Len(saved)].geometry, saved[Len(saved)].edge)

\* A slip: the screen's entry is kept.
SavedKept == saved

SavedLeft == SubSeq(saved, 1, Len(saved) - 1)

\* Every policy and the decoder end here, failing or not.
Leave ==
    /\ pc = "done"
    /\ scope' = Back
    /\ saved' = SavedLeft
    /\ pc' = IF policy = "decode" THEN "idle" ELSE "return"
    /\ UNCHANGED <<policy, d, zeros, masked, learned, plans, outer, data, kernel>>

Return ==
    /\ pc = "return"
    /\ scope' = [scope EXCEPT !.intercept = saved[1].intercept]
    /\ saved' = <<>>
    /\ pc' = "idle"
    /\ UNCHANGED <<policy, d, zeros, masked, learned, plans, outer, data, kernel>>

\* The frame is too large for the caller, or copied out.
Write ==
    /\ pc = "write"
    /\ pc' = "done"
    /\ UNCHANGED <<policy, d, zeros, masked, learned, plans, scope, saved, outer, data, kernel>>

-----------------------------------------------------------------------------
(* The screen: all predictors and some models, on the sample. *)

\* The fast policy screens in place, the others in a call that puts the geometry back.
Screen ==
    /\ pc = "screen"
    /\ saved' = IF policy = "fast" THEN saved ELSE Append(saved, scope)
    /\ scope' = Put(Sample, scope.edge)
    /\ data' = [data EXCEPT !["sample"] = Sample, !["fixed"] = Sample, !["zero"] = Sample]
    /\ pc' = "rank"
    /\ UNCHANGED <<policy, d, zeros, masked, learned, plans, outer, kernel>>

Rank ==
    /\ pc = "rank"
    /\ kernel' = Run({data["fixed"]}, TRUE)
    /\ pc' = "trial"
    /\ UNCHANGED <<policy, d, zeros, masked, learned, plans, scope, saved, outer, data>>

\* Fits of one sample share a session, if no voxel of it is masked.
Trial ==
    /\ pc = "trial"
    /\ kernel' = Run({data["sample"], data["fixed"]},
                     Accepts(TRUE, masked, policy # "medium" /\ ~masked, FALSE))
    /\ data' = Fitted(scope.geometry, FALSE)
    /\ learned' \in BOOLEAN
    /\ pc' = IF policy = "fast" THEN "full" ELSE "screened"
    /\ UNCHANGED <<policy, d, zeros, masked, plans, scope, saved, outer>>

EndScreen ==
    /\ pc \in {"screened", "abandoned"}
    /\ scope' = Put(saved[Len(saved)].geometry, scope.edge)
    /\ saved' = SavedLeft
    /\ pc' = IF pc = "screened" THEN "full" ELSE "done"
    /\ UNCHANGED <<policy, d, zeros, masked, learned, plans, outer, data, kernel>>

-----------------------------------------------------------------------------
(* The whole volume. *)

\* A slip: the fast policy goes on with the geometry of its screen.
StillScreened == scope

Widened == Put(d, scope.edge)

Materialized(withZero) ==
    [data EXCEPT !["fixed"] = d, !["zero"] = IF withZero THEN d ELSE None]

\* Residuals of the whole volume replace those of the sample.  A volume that is
\* no larger than the sample keeps them, except under the medium policy.
Full ==
    /\ pc = "full"
    /\ \/ /\ policy = "fast" /\ d > Sample
          /\ scope' = Widened
          /\ data' = Materialized(zeros = "some")
          /\ pc' = "refit"
       \/ /\ policy = "medium" \/ (policy = "slow" /\ d > Sample)
          /\ data' = Materialized(policy = "medium")
          /\ pc' = "refit"
          /\ UNCHANGED scope
       \/ /\ policy # "medium" /\ d <= Sample
          /\ pc' = IF policy = "fast" THEN "symbols" ELSE "plan"
          /\ UNCHANGED <<scope, data>>
    /\ UNCHANGED <<policy, d, zeros, masked, learned, plans, saved, outer, kernel>>

\* The fast policy has activity computed along the way unless voxels are masked.
WithActivity == policy = "fast" /\ zeros = "none"

\* Models chosen on the sample are fitted again to the volume.  The medium policy
\* has a model without a predictor in any case.
Refit ==
    /\ pc = "refit"
    /\ IF learned \/ policy = "medium"
       THEN /\ kernel' = Run({d} \cup (IF learned THEN {data["fixed"]} ELSE {}),
                             Accepts(learned, zeros = "some", FALSE, WithActivity))
            /\ data' = Fitted(scope.geometry, WithActivity)
       ELSE UNCHANGED <<kernel, data>>
    /\ pc' = CASE policy = "fast" -> "symbols"
               [] policy = "medium" -> "select"
               [] OTHER -> "plan"
    /\ UNCHANGED <<policy, d, zeros, masked, learned, plans, scope, saved, outer>>

\* The fast policy: one predictor or model for the whole volume.
Symbols ==
    /\ pc = "symbols"
    /\ data' = [data EXCEPT !["symbols"] = IF learned THEN data["fit"] ELSE data["fixed"]]
    /\ kernel' = Run({data'["symbols"]}, TRUE)
    /\ pc' = IF zeros = "some" THEN "select" ELSE "encode"
    /\ UNCHANGED <<policy, d, zeros, masked, learned, plans, scope, saved, outer>>

\* What ng_bank_symbols reads: the volume, the predictions of models and the
\* residuals of every id a block has; empty blocks have id 0.
Bank(models, fixed, zero) ==
    {d} \cup (IF models THEN {data["fit"], data["base"]} ELSE {})
        \cup (IF fixed THEN {data["fixed"]} ELSE {})
        \cup (IF zero THEN {data["zero"]} ELSE {})

Select ==
    /\ pc = "select"
    /\ kernel' = Run(IF policy = "fast" THEN Bank(learned, ~learned, learned)
                     ELSE Bank(TRUE, ~learned, TRUE), TRUE)
    /\ data' = [data EXCEPT !["symbols"] = d]
    /\ pc' = "encode"
    /\ UNCHANGED <<policy, d, zeros, masked, learned, plans, scope, saved, outer>>

\* A menu of the slow policy, with or without models.
Plan ==
    /\ pc = "plan"
    /\ data' = [data EXCEPT !["fixed"] = d, !["symbols"] = d,
                            !["zero"] = IF zeros = "some" THEN d ELSE None]
    /\ \E models \in {FALSE, learned}, fixed \in BOOLEAN :
          kernel' = Run({d} \cup (IF models THEN {data["fit"], data["base"]} ELSE {})
                          \cup (IF fixed THEN {data'["fixed"]} ELSE {})
                          \cup (IF zeros = "some" THEN {data'["zero"]} ELSE {}), TRUE)
    /\ pc' = "encode"
    /\ UNCHANGED <<policy, d, zeros, masked, learned, plans, scope, saved, outer>>

\* The frame encoder has the wave coder run with the frame's own shape.
Encode ==
    /\ pc = "encode"
    /\ kernel' = [Run({data["symbols"]}, TRUE) EXCEPT !.geometry = d]
    /\ plans' = plans - 1
    /\ pc' = CASE plans = 1 -> "write"
               [] plans > 1 /\ policy = "medium" -> "select"
               [] OTHER -> "plan"
    /\ UNCHANGED <<policy, d, zeros, masked, learned, scope, saved, outer, data>>

-----------------------------------------------------------------------------
(* The leaf decoder. *)

Decode ==
    /\ pc = "idle"
    /\ policy' = "decode"
    /\ d' \in Dims
    /\ saved' = <<scope>>
    /\ pc' = "header"
    /\ UNCHANGED <<zeros, masked, learned, plans, scope, outer, data, kernel>>

Header ==
    /\ pc = "header"
    /\ \E edge \in Edges : scope' = Put(d, edge)
    /\ pc' = "reconstruct"
    /\ UNCHANGED <<policy, d, zeros, masked, learned, plans, saved, outer, data, kernel>>

Reconstruct ==
    /\ pc = "reconstruct"
    /\ kernel' = Run({d}, TRUE)
    /\ pc' = "done"
    /\ UNCHANGED <<policy, d, zeros, masked, learned, plans, scope, saved, outer, data>>

-----------------------------------------------------------------------------
InScreen == policy # "fast" /\ pc \in {"rank", "trial"}

\* Any step may fail; a screen then ends before its policy does.
Fail ==
    /\ pc \notin {"idle", "done", "return", "screened", "abandoned"}
    /\ pc' = CASE pc = "enter" -> "return" [] InScreen -> "abandoned" [] OTHER -> "done"
    /\ UNCHANGED <<policy, d, zeros, masked, learned, plans, scope, saved, outer, data, kernel>>

\* The caller's, and those during calls.
Scopes == [geometry : Dims, edge : Edges, intercept : {0, 100}]
Inside == [geometry : Dims \cup {Sample}, edge : Edges \cup {4}, intercept : {0, 100}]
Shapes == Dims \cup {Sample, None}

Init ==
    /\ pc = "idle" /\ policy = "fast" /\ d \in Dims /\ zeros = "none" /\ masked = FALSE
    /\ learned = FALSE /\ plans = 0
    /\ outer \in Scopes /\ scope = outer
    /\ saved = <<>> /\ data = NoBuffers /\ kernel = Quiet

Next ==
    \/ \E p \in Policies : Preset(p)
    \/ Enter \/ Scan \/ Screen \/ Rank \/ Trial \/ EndScreen \/ Full \/ Refit \/ Symbols
    \/ Select \/ Plan \/ Encode \/ Write \/ Leave \/ Return
    \/ Decode \/ Header \/ Reconstruct \/ Fail

Spec == Init /\ [][Next]_vars

-----------------------------------------------------------------------------
(* Properties. *)

\* Between calls the thread-local variables are the caller's, whatever failed and
\* where: "save/restore it on every path" (ng_geometry.h:9, ng_presets.c:1).
ScopeRestored == pc = "idle" => scope = outer

\* A kernel only meets buffers of the geometry in force, no missing one among
\* them, and arguments it accepts; after the screen the fast policy has to widen
\* the geometry, and models have to be fitted anew (ng_fast.c:136, ng_slow.c:308).
KernelsMatch == kernel.shapes \subseteq {kernel.geometry} /\ kernel.accepts

Depth == CASE pc = "idle" -> 0
           [] pc \in {"enter", "return", "header", "reconstruct"} -> 1
           [] pc = "done" -> IF policy = "decode" THEN 1 ELSE 2
           [] InScreen \/ pc \in {"screened", "abandoned"} -> 3
           [] OTHER -> 2

\* The types of the variables; each call in progress has one entry in saved.
TypeOK ==
    /\ policy \in Policies \cup {"decode"} /\ d \in Dims /\ zeros \in {"none", "some"}
    /\ masked \in BOOLEAN /\ learned \in BOOLEAN /\ plans \in 0 .. 3
    /\ outer \in Scopes
    /\ scope \in Inside
    /\ data \in [Buffers -> Shapes]
    /\ saved \in Seq(Inside) /\ Len(saved) = Depth
=============================================================================
