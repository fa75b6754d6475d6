# A TLA+ model of vc-delta3d

vc-delta3d is a lossless codec for three-dimensional byte volumes, in C, with C++
and Python adapters.  Its modern presets ("NG") predict every voxel from
neighbours with fitted integer weights, classify the residuals by the errors
around them, and code them with an interleaved range coder.  Encoder and decoder
never exchange anything but the frame: each recomputes predictions and classes
from what it has, and they have to agree bit by bit although they visit the
volume in different orders.  Larger or odd volumes are cut into leaves by the
indexed container.  The library starts no thread and stores nothing; what makes
it hard is order, reuse of buffers, and arithmetic at its limits.

Paths below are relative to the repository's own `src/` directory.

## Inventory

| part | files | state | operations | how it meets the others | what has to be true |
|---|---|---|---|---|---|
| Padded volume | `ng/ng_kernel_common.h` | voxels and error magnitudes with pads around every row, slice and the volume | begin a row (top and left pads), end a row (side and bottom pads, pad slices) | written row by row by both sides, read through taps | what a row reads does not depend on the order of traversal |
| Encoder passes | `ng/ng_kernel_encode.h`, `ng/ng_kernel_fit.h`, `ng/ng_native_encode.c`, `ng/ng_bank_symbols.h` | padded volume, fit session, symbols, classes, weights | pad, fit, predict, classify, next candidate of a session | called by the search policies, once per candidate | nothing is read a decoder does not have; a session's buffer stays intact |
| Decoder wavefront | `ng/ng_bank_reconstruct.h`, `ng/residual_bridge.h` | padded volumes, output, wave history, decoder states | per group: begin, errors, base, publish; delta-only restore | driven by the wavefront table, fed by the range decoder | reads what the encoder read; all rows restored |
| Wavefront table | `ng/ng_kernel_common.h` (`vcn_lc_mksched`) | two arrays | the loops that fill them | the encoder walks it backwards, the decoder forwards | every row once, groups independent, arrays large enough |
| Wave entropy coding | `ng/ng_kernel_encode.h`, `ng/ng_kernel_decode.h`, `ng/ng_entropy_step.inc` | 32 lanes, tables per class and bank | normalize, push, pull | coded along the wavefront table; the classes come from the decoded errors | every class is known when it is needed, symbols come back, the stream is used up |
| Range coder | `rans.c` | 8 lanes, one word stream | normalize, encode, decode | bulk coder of legacy frames, headers, selectors | the decoder retraces the encoder; space suffices |
| Leaf frame | `ng/ng_frame_encode.c`, `ng/ng_frame_decode.c`, `ng/ng_native_common.c`, `ng/ng_geometry.h` | menu, models, selectors, thread-local geometry | encode, decode | composes header, selectors, wavefront | what is written can be read; scoped state is restored |
| Header | `ng/header.c`, `ng/ng_stream.c` | schema walk, numeric pool | encode, decode (two walks) | part of a leaf frame | the walks meet the same records; every frame's header has a compact form; half a header gives nothing |
| Selectors | `ng/selector.c` | contexts, LZ history, recent distances | encode, decode | part of a leaf frame | the map comes back |
| Indexed container | `indexed_internal.h`, `indexed_encode.c`, `indexed_decode.c` | template, expansion stack, leaves, header, payloads | plan, expand, encode, read, decode | every leaf is a leaf frame | leaves divide the volume; accepted plans are readable; expansion is bounded |
| Delta filter | `delta_filter.c` | the caller's buffer, in place | filter, unfilter, quantize, choose mask | legacy frames | unfilter undoes filter |
| Legacy frames, dispatch | `legacy.c`, `api.c` | frame, channel table | encode, probe, decode, inspect | public entry points | each frame goes to its reader, each element to its place |
| Buffers, readers | `buffer.h`, `reader.h` | capacity, cursor | grow, append, take, varints | everywhere | no overflow, no read past the end |
| Search policies | `ng/ng_fast.c`, `ng/ng_medium.c`, `ng/ng_slow.c` and the fitting and scoring they use | candidates, costs | search | decide what the frame holds | any outcome decodes |

Behaviours that are hard here: the decoder's traversal differs from the encoder's;
pads are copies whose sources change while the volume fills; buffers are shared
between passes, between candidates, and between residuals and voxels; vector
stores write more than is meant; the range coder stores before it checks; one
tree is expanded by two programs with different limits; a decoder learns which table
to read with from what it has read; one header is walked by two programs three times; four
forms of frame share the public calls; thread-local settings are saved and restored
around nested calls.  `PROJECT.json` lists these hazards
at their lines, each with the properties that would catch it.

## Modules

| module | models | checked by |
|---|---|---|
| `PaddedRows` | the padded volume as operators: pads, taps, stencil; `Contents` and `RasterView`, the promise | through the next two |
| `PaddedRowsProofs` | lemmas about `PaddedRows`: what beginning and ending a row does to `Contents`, when a view is `RasterView` | the prover |
| `RasterPass` | the encoder's passes and the fit session | `MCRasterPass` |
| `LeafProofs` | theorems about `RasterPass` and `LeafFrame` | the prover |
| `Wavefront` | the decoder's traversal, on all reconstruction paths | `MCWavefront` |
| `WavefrontProofs` | theorems about `Wavefront` | the prover |
| `Schedule` | the construction of the wavefront table | `MCSchedule` |
| `IndexDomains` | domains, nodes and how a node divides a domain | through the next |
| `IndexFile` | the container from plan to decoded volume | `MCIndexFile` |
| `IndexFileProofs` | theorems about `IndexFile`, and lemmas about sums over sequences and mixed radix | the prover |
| `LaneRans` | the interleaved range coder and the table of a message | `MCLaneRans` |
| `LaneRansProofs` | theorems about `LaneRans`, and the arithmetic under them | the prover |
| `WaveRans` | coding the symbols of a volume along the wavefront | `MCWaveRans` |
| `BlockCodec` | what a frame promises: a block is decoded as planned | as a property of the next |
| `LeafFrame` | a frame from a policy's choice of models to the wave decoder | `MCLeafFrame` |
| `CallScope` | calls on one thread: policies and decoder, thread-local geometry, buffers, failures | `MCCallScope` |
| `CallProofs` | theorems about `Schedule` and `CallScope` | the prover |
| `Selector` | the three codes of a map of choices, both ways | `MCSelector` |
| `SelectorProofs` | theorems about `Selector` | the prover |
| `DeltaFilter` | a field of a legacy frame: rounding, differences in place, and back | `MCDeltaFilter` |
| `HeaderPool` | the compact header of a leaf frame, both ways | `MCHeaderPool` |
| `Frames` | the public calls: forms of frames, channels, growing buffers | `MCFrames` |
| `FramesProofs` | theorems about `Frames` and `DeltaFilter` | the prover |

Definitions named as slips (`...Late`, `...Left`, `DepthShort`, ...) are not part of
any specification.  Each is a plausible mistake in the definition that follows
it, and each property is violated when its slip takes that definition's place;
`PROJECT.json` pairs them under "mutants".

### PaddedRows, RasterPass, Wavefront

Everything in the code's padded buffers is written a row at a time, and pads are
copies of whole rows or repeat a row's first or last voxel.  So a cell of the
model is a row `<<z, y>>`, with three sides (left pad, voxels, right pad), and
holds the name of the row its bytes came from.  Two buffers that agree on these
names agree on bytes once the named rows do; hence agreement of what encoder and
decoder read, row after row, gives equal predictions and classes by induction
over the coding order.  Weights, rounding and the values themselves drop out.

`Contents(done, open)` is a closed form of the buffer when rows `done` are complete
and rows `open` have begun; `RasterView` is what a row reads when all rows before it in
raster order are done.  It is the abstract promise: both traversals are compared
with it, the encoder's because a fit session or a shared error buffer could leak
rows from the future, the decoder's because it is not in raster order at all.

`RasterPass` has one action per row of each pass (`PadRow`, `PredictRow`, `SymbolRow`) and
`NextCandidate` for a session.  A tap can reach future rows of the buffer only in slice
0, through the pad slices; the fit excludes just these taps for slice 0
(`UsedTaps`), and the properties depend on it.

`Wavefront` goes row by row through the loops of `ng_bank_reconstruct_core`; `pc` is the loop
and `at` the row.  `path` is how neighbours for the base prediction are found: the
output volume, the padded volume, the padded volume with residuals waiting in
the output, or the ring of recent waves; `"delta"` is the mode without any wavefront
history.  `Start` is the check of the entropy header: the encoder writes the taps of
the used model of largest reach, the decoder computes the slope from all.

A row is one step.  Inside a row the code goes from voxel to voxel, and reads of
the row itself and its left pad are ordered by x alone, alike on both sides.

### Schedule

The two nested loops, one action per way through the body: `PlaceRow`, `SkipSlice` (the
`continue`) and `EndStep` (the `break` or the bound, with the code that follows).  `row` and
`n` are the arrays.  An entry of `n` the code has not written is 0 in the model;
nothing reads it before it is written.  Its definitions are named `TableInit`, `TableNext`, `TableTypeOK` and so on,
because `CallProofs` extends `CallScope` too.

### IndexDomains, IndexFile

One action is one iteration of a loop: a node planned, a job expanded, a leaf
encoded, a node read.  Leaves carry only a length and their place: the leaf codec
is taken to give back what it was given for a leaf of the same shape.  `Place` is
the gather and the scatter; the output records for every voxel which input voxel
it came from.  `DamageFile` changes a stored length or value between writer and
reader.  It is there because the reader's bound matters when the template and
the lengths disagree, and no claim of detection is made.  Not modelled: running
out of memory, a failing leaf codec, and the rejections of magic, layout and
values beyond 32 bits.

### LaneRans

Symbols, lanes, words and the reciprocal table as in the code, with exponents
scaled down in proportion (M = 2^3 for 2^12, words of 8 bits for 32, arithmetic of
16 for 64).  The fast block path and the tail path of the decoder are separate
actions.  The two stores per word (one speculative) are one step; the space
property counts the speculative one.  `Starts` are the running sums of the frequencies and `Two` the
powers of two, both as recursive functions, so that they can be reasoned about.

A run begins with a table that is given, as a frame may carry any, or with the one
`vc_rans_normalize` makes of the message: `Rounded` is its first loop (a symbol's share
rounded down, but never 0), `Raise` and `Lower` are iterations of the second, which moves what is
missing or too much to or from the most frequent symbol.

### WaveRans

`WaveRans` puts three parts of the system together: the order of rows (`Step`, `Order` and `GroupOf` say
in closed form what `Schedule` computes), the error history (`PaddedRows`, as in `Wavefront`), and a range
coder.  The encoder classifies in raster order (`RasterClasses`), normalizes a table for every class of every
bank (`RoundTable`, `Raise`, `Lower`, `NextTable`: `vcn_lc_norm` rounds to the nearest share, unlike `rans.c`, and gives up
when no frequency can be lowered), and pushes rows backwards, `NS` voxels a step (`PushBlock`).  The
decoder begins rows in order, classifies from what it has decoded (`BeginRow`), reads (`Read`)
and enters errors into the history (`FinishRow`).  `mode` is the order within a group: each row
is begun and read in turn, or all are begun and then all are read.

One step is a block of `NS` voxels, one in every lane, since the vector code works
that way and the scalar code in the same order of words.  Here values matter, so volumes
hold symbols and `Seen` looks a magnitude up by the row a padded cell came from.  The
bank of a voxel is that of its block's choice (`BankOf`), fixed here.  Left out: the encoder's error for a full buffer (callers
set aside 3 bytes a voxel and 131072, more than the stream can take), and reading past the end, which
is counted (`over`) and refused as in the code.

### BlockCodec, LeafFrame

`BlockCodec` is the promise: a plan gives every block a coding (predictor, fitted
model, weights of the two combined), and decoding yields the plan.  `LeafFrame`
implements it on the way the code takes: `Search` is what any policy can hand to the frame,
with scores left open (`Fast`, `Medium`, `MediumSingle`, `Slow`, or a volume of zeros);
`AppendZero` and `Encode` are the frame encoder with all its refusals; `ReadZeros`, `ReadModels`,
`Weigh` and `Rewrite` are the decoder's renumbering of models, its weights by slot, and the selectors made
anew.  The refinement mapping takes the plan from the ids the policy computed its
symbols with, and the decoded plan from what the wave decoder makes of the
rewritten selectors (`Understood`); `Coded` and `Decoded` are its two expressions.

The code lists ids, models and choices in the order in which a loop over blocks meets them.  In the model
a thing's number is how many were met before it for the first time (`Firsts`, `Rank`, `Place`), and the list is the inverse
(`Nth`, `Listed`), so that facts about numbers follow from facts about ranks.  `Fits` is finite, as any search is.

### CallScope

A buffer is its shape and a kernel call is the shapes it meets, the geometry in
force and whether its arguments are accepted.  `Fail` may happen at every step
and goes where the code's cleanup begins.  `saved` is the stack of what the calls in progress will
put back.  What a slow plan uses of predictors and models is left open (`Plan`).

### Selector

`Pick` packs the map, `Literal` and `Match` are one iteration of the parse, `Keep` chooses between the
two codes, in either way, since their lengths depend on entropy streams that are
not modelled here.  The decoder takes one choice (`ReadContext`) or one pair of run and match
(`ReadSequence`) a step, with every check the code makes; a failed check leads to
`"refused"`.  `Candidate` walks the chains as the code does, uninitialized entries included.
`Inserted` gives hash table and chains after a run of positions was put in, in closed form: a position is chained to the
latest one before it with its hash (`Latest`), which is what inserting them one by one comes to.  `DigitsOf` and `NumbersOf` are
the bit layout, from numbers to bits and back.

### DeltaFilter

One element is one step, in the order of the code's loops, since the passes work in
place: `passes` are the axes still to go along, `todo` the elements the present pass has still to change, and a step
takes the one that comes first in `FilterOrder` or `UnfilterOrder`.  The vector form of the prefix sum is taken as its scalar one.  `Mixed` is the
expression by which the mask is chosen, and the reference the passes are compared
with.

### HeaderPool

The native header is what the frame encoder writes; the compact one holds the
control values, then all arrays of words as one pool.  `Volume`, `Model`, `Choice`, `Flag`, `Entropy`, `Table` are
the items of the one schema, used in three modes as in the code: `"encode"` records arrays,
`"shapes"` records how long they must be, `"contents"` puts them back.  `PutRecord`, `PutEnd` and `Code` are the
pool's encoder, `ReadPool`, `TakeRecord` and `TakeEnd` its decoder.  Words, labels, low bits, bytes filled from bits, the zeros
cut off, and differences of pairs of labels are all there, with bytes of `ByteBits`.  A number of
the header is one element, so control fields and varints have no width; `shape` stands for
the fields before the counts and `weight` for those after a choice's bank.  The stream coder is taken
to give back what it was given, if asked in the same way.  `Others` are headers
the frame encoder would not write (one value changed, too short, too long): they may be refused, but what passes
must come back.  `Cut` shortens a file before it is read.

### Frames

An element is the position it had in the input with the width it was rounded to, so
the frames of all forms can be compared with what was asked for.  `Compress` checks the options and chooses
the form (`Route`); `EncodeField`, `EncodeChannel`, `EndIndex`, `EncodeLeaf` write it, `Inspect` and
`Decompress` with `DecodeChannel` read it.  `Rename` gives a legacy frame the magic of another program,
for which `vc_decompress_with_magic` exists.  `store` is the buffer that grows: the frame of channels by
its own rule (`Grown`), the lists of an index by `vc_reserve` (`Reserved`), with the size in
bytes computed modulo 2^w as the call of `realloc` would.  The insides of leaves,
indexes and fields are in `LeafFrame`, `IndexFile` and `DeltaFilter`.

## Runs

| run | instance | distinct states, about | shows |
|---|---|---|---|
| `raster_pass` | 4 slices of 5 rows, radii r1, r2 in -1..3 with r0 of 1 and 3, with and without session | 8 000 | `PredictionsAreCausal`, `ClassesAreCausal`, `SessionKeepsVolume` |
| `wavefront` | 4 slices of 6 rows, groups of 2, no model, each r1, r2, pairs of unequal models, all paths | 11 000 | `SlopesAgree`, `PredictionReadsAgree`, `ClassReadsAgree`, `BaseReadsAgree`, `StoreInsidePlane`, `EveryRowRestored` |
| `schedule` | 5 slices of 6 rows, groups of 2, slopes 2, 3, 4 | 240 | `EveryRowOnce`, `GroupsAreWaves`, `NeedsComeFirst`, `WritesInBounds`, `Completes` |
| `index_file` | five roots up to 3 units or 3 channels, every plan of up to 5 nodes and the automatic one | 160 000 | `ExpansionPartitions`, `ExpansionBounded`, `PlannedIsReadable`, `OutputIsInput` |
| `lane_rans` | two lanes; tables (1,1,6), (2,3,3), (1,7,0), (1,0,7), (8,0,0), each with every message of the lengths named in `MCLaneRans` (0 to 11) over its symbols; messages of up to 42 symbols out of 8 with tables of their own | 73 000 | `DecoderRetraces`, `DecodesMessage`, `SpaceSuffices`, `Completes` |
| `wave_rans` | 3 slices of 5 rows of 4 voxels, 2 lanes, groups of 2, slope 2, two classes in two banks; some 150 volumes of four symbols, flat to rough | 24 000 | `DecoderRetraces`, `DecodesVolume`, `Completes` |
| `leaf_frame` | 3 blocks; predictors 0, 1, 11; a plain fit and fits for 1 and 11; every menu of every policy | 12 000 | `ImplementsBlockCodec` (refinement), `NeverRefused`, `TablesAgree` |
| `call_scope` | cubes of 32 and 64, block edges 4 and 16, calls in any order, a failure at any step | 73 000 | `TypeOK`, `ScopeRestored`, `KernelsMatch` |
| `selector` | every map of 8 choices out of 3 and of 11 out of 2; bytes of 2 bits, matches from 2 bytes, distances up to 5, two candidates, three hashes that collide | 200 000 | `DecodesIds`, `ChainReadsWritten` |
| `delta_filter` | every shape of up to 8 elements (0 to 7) and up to 3 along an axis; widths 1, 2, 3, 5; all masks | 220 000 | `FieldRestored`, `FilteredAsSampled`, `RoundingStable` |
| `header_pool` | bytes of 3 bits, words of 6; up to 2 models, 2 choices, 6 tables of 3 words; every way of coding, every cut | 340 000 | `FramesAccepted`, `HeaderRestored` |
| `frames` | six shapes, 0 to 3 channels, both layouts and elements, three widths, three presets; sizes up to 127 | 24 000 | `FrameRestored`, `StoresInside` |

Why these are enough.  No tap reaches further than two slices back or three rows
away, and pads are 3 rows and 2 slices deep at least (`PadAssumption`); four slices hold a slice with two real
ones before it and one after, and six rows hold an interior row, a top and a
bottom clamp for the largest radius.  The code's shapes are multiples of 32, so
larger; smaller ones make the clamps meet more often, not less.  Groups of 2
instead of 32 make steps with several groups and partial groups occur at every
slope.  `Stride` scales the code's rounding with the group size: (Z + 95) & ~63 is Z + 3 NL - 1
rounded down to 2 NL for NL = 32.  In `index_file` the narrow fields hold values up to 2 instead of 256 and
lengths up to 5 instead of 2^32 - 1, and a narrow header 40 bytes
instead of 65535, so that every one of the four reasons for the wide header
occurs; the constraint `OneLong` lets at most one leaf be long.  `MaxNodes` bounds the
caller's plans; the automatic plan is not bounded.  `LeafFrame` keeps the code's own
limits (12 predictors, 4 models, 60 choices, 128 tables, 4 and 16 banks, 16 classes); three
blocks suffice for menus of three choices in every order, with and without empty
blocks and unused choices.  `CallScope` needs two sizes, the screened sample and one larger,
and two edges, the policies' own and another.  In `selector`, sizes are scaled so that runs that
overlap themselves, recent distances of every rank, new distances of two and more
open bits, distances past the window and candidates that only share a hash all
occur.  In `delta_filter`, fields of more than 3 elements have at most two that are not 0:
the passes are linear, and two elements show every order of reading and writing.
In `wave_rans` the widest step has three rows, so one full group and one that is not; words
of 6 bits make lanes give up words at nearly every block; rows of two blocks show blocks within and
across rows.  `Y`, `Z` and the slope are such that pads at the top, the bottom and before slice 0 are all read.
In `header_pool` words below 2^`SmallBits` are labels, the others have 1 to 5 low bits: bits of a
word cross bytes, and a byte mostly holds bits of several arrays.  `MaxRecords` is what the largest
frame needs (a model each, the thresholds and all tables), as in the code.  In `frames` a `size_t` holds up to
`SizeMax`, so a third channel of 60 bytes overflows it, one of 60 is also too long for an
entry of the table (`EntryMax`), and a list of `ListElement` bytes an entry grows to the last entry that can be counted (25).
`Grid` is 2 for 32 and `MaxCube` 2 for 256.

Deadlock is checked in `call_scope`, which goes on with the next call, and not in the others: each of
those programs stops.

Fairness is assumed in `schedule`, `lane_rans` and `wave_rans`: `WF_vars(Next)`, since these are
sequential programs that nothing blocks.  `Completes` then says that the loops of the table end
with the whole volume in it; that normalization, which is a loop without a counter,
ends with a table for every message, and coding and decoding with it too; and that every
volume is decoded to its last row.

## Proofs

`CallProofs` proves, for every number of rows and slices, every group size
and the three slopes the code can compute:

* `TableTypeCorrect`, `BoundsCorrect`, `OnceCorrect`, `WavesCorrect`, `NeedsCorrect`:
  the type invariant `TableTypeOK` (`MCSchedule` does not list it) and the run's invariants `WritesInBounds`,
  `EveryRowOnce`, `GroupsAreWaves`, `NeedsComeFirst`;
* `EndCorrect`: when the loops have ended the table holds the whole volume
  (the safety half of `Completes`).

They follow from `TableInv` (theorem `TableInductive`), whose parts are:

* `GroupsCounted`: no more groups than rows passed.  Bounds need it: the arrays are sized
  by rows, and what keeps the group index below is that no group is empty.
* `ListsPassed` and `Sorted`: entries are exactly the rows passed, in the order the loops pass
  them.  Uniqueness is a consequence, and so is the order of needs: a row needed
  has a smaller step, so it is passed, and its group cannot be the same one
  because `GroupsAreWaves` puts rows of one step in a group.
* `OpenGroup`: the open group ends with the slice just passed.  Without it
  `GroupsAreWaves` is not inductive.

Assumptions: `GeometryAssumption` (positive sizes), `SlopesAssumption` (slopes 2 to 4, from
`vcn_lc_delta`), `NoRowAssumption`.

It proves of `CallScope`, for all sizes of volumes and blocks, every sequence of calls and every
failure, `TypeCorrect` (types, and one saved entry per call in progress), `ScopeCorrect`
(`ScopeRestored`) and `KernelsCorrect` (`KernelsMatch`).  Their invariant `IInv` adds to the types what the entries are: the outermost is the
caller's scope, the next differs from it only in the intercept (`CallersFirst`), and the decoder
leaves the intercept alone, which is why it need not restore it (`Untouched`, `DecoderAlone`).  Without
the entries' contents the steps that put scopes back cannot be shown to put back the right ones.
`KernelsCorrect` proves `KernelsMatch` by a second invariant on top of it, `ShapeInv`: who comes to which step
(`Routes`), that the sample is screened with its own geometry and the outer one waits in the third entry
(`Screening`), and that from the refit on every buffer that will be read has the shape of the volume, the
fit's base only if activity was not asked for (`Whole`).  The case without a refit needs
`DimsAssumption`: a volume that is not larger than the sample is exactly as large.  No other
assumption is used.

`PaddedRowsProofs` holds what the next two need of the padded buffers, for every number of rows and
slices and every radius within the pads: a fresh buffer is `Contents({}, {})`, beginning row r adds it to the open rows,
ending it moves it to the finished ones, and doing either again changes nothing (a fit session
does).  A cell is `Settled` for a row when it shows finished rows exactly where it would in raster
order; a row whose taps are all settled sees `RasterView` (`SettledView`), whatever else is in the buffer.  This is
the argument for both traversals: what differs between them is which rows are done, and the lemma says that
it does not matter.

`LeafProofs` proves `PredictionsCausal`, `ClassesCausal` and `SessionKept` from `PassInv`: voxels and errors are
`Contents` of the rows before the current one, or of all rows once a session's buffer is complete
(`Voxels`, `Errors`).  A bare statement about what was read is not inductive, since
nothing says what the next row will find.

It proves all three properties of `LeafFrame`, for any number of blocks and of fits: `FrameNeverRefused`, `BankTablesAgree`, and
`FrameDecodesBlocks`, the refinement of `BlockCodec`.  What makes it inductive is a reading that survives every change of names: in
`FrameInv` the choice of a block, with the models it refers to, codes as the block's canonical id (`Tells`), from the policy's
menu (`Submitted`) over the one with a choice for empty blocks (`Given`) to the decoder's.  Each policy is
a lemma of its own (`FastSubmits`, `MediumSubmits`, `SingleSubmits`, `SlowSubmits`, `ZeroSubmits`).  They also bound
models, choices and banks (`Packed`): a policy uses three banks at most, so the fourth is there for empty blocks.
`SlowSubmits` shows that dropping unused models and renumbering the others names the same fits (`LiveNames`), `NamingRenumbered` the
same for the decoder's renumbering.  That weights never conflict is `SameWeights`: the weights of a choice follow from what it codes, so two
choices with one predictor and one model have the same.

`WavefrontProofs` proves all six invariants of the run `wavefront`: `SlopesAlwaysAgree`, `PredictionReadsAlwaysAgree`,
`ClassReadsAlwaysAgree`, `BaseReadsAlwaysAgree`, `StoresStayInPlane`, `AllRowsRestored`.  `WaveInv` says phase by phase which
rows the buffers hold, in terms of three sets: `Passed` (earlier groups), `Group`, and `Reached` (the part of the
group the phase has been at).  `Position` ties loop variables to a group of the current step, `Voxels` and `Errors` are the two
buffers, `Output` the restored rows and the residuals that wait there, `History` the ring: the waves
back to `dl` + 1 steps are still there, because the ring is that deep and no plane overlaps another.  That
every neighbour is in `Passed` is a fact about the slope alone (`TapsWithinSlope`), and
the slope of the code is large enough for each model (`ModelSlope`, `SlopeIsLargest`).

`FramesProofs` proves `StoresStayInside` from `StoreInv`: neither way of growing leaves less room than is in
use, where the multiplication wraps at the width of `size_t` (`GrownHolds`, `ReservedHolds`); and `FramesAlwaysRestored` from
`FrameInv`, which says for each of the four forms what has been written so far (`Encoded`), what the
finished frame holds (`Filed`), and what has been restored from it (`Restored`).

It also proves the three invariants of `DeltaFilter` for fields of any shape and elements of any range: `FieldAlwaysRestored`,
`FilteredAlwaysAsSampled`, `RoundingAlwaysStable`.  `FilterInv` names the fields between the passes (`Stage0` to `Stage3`) and
says that within a pass the buffer is a `Mixture`: elements still to do are of one stage, the others of the next.  A
filter pass also needs that what comes later is still to do, or a step would subtract a value already changed; in the
inverse a predecessor is already restored because it comes first.  The stages then undo each other modulo `Top` + 1, and
`FilteredAsSampled` is arithmetic about them: a cell's predecessors along one axis have the same coordinates along the others,
so the three passes unfold into the alternating sum of `Mixed`.

`IndexFileProofs` proves `ExpansionAlwaysPartitions`, `ExpansionStaysBounded`, `OutputAlwaysInput` and `PlansAlwaysReadable`, for trees
of any size and domains of any extent.
`IndexInv` has the parts `TreesTyped`, `PlanKnown` (a finished plan is a whole tree),
`ReaderFresh`, `FileKnown` (what is in the file is numbers, damaged or not), `SubtreesNeeded` (the nodes still to read are
the subtrees still needed, as a `Chain`) and `Dividing`: the template is a whole tree, the jobs on the stack are within it,
and leaves listed and domains pending together partition the root and fit the limit.  One expansion replaces a
domain by its parts (`PartitionReplaced`), which divide it whether a node cuts or repeats (`PartsFacts`).

`OutputIsInput` relates the two ends of the chain, and needs what holds in between.  Each part is an invariant of
its own, proved from `IndexInv` and the parts before it:

* `PlanExact`: the value of a node is a positive multiple of what the wire counts it in;
* `FileTells` and `TreeRetold`: so the width the encoder chose wraps no field (`StoredBack`), and the reader has the
  root, the layout and, node by node, the tree of the writer;
* `Retraced`: expansion is deterministic, so from the same root and tree the reader's stack and leaves are somewhere on the writer's
  `Trace`, and at its end the leaves are the same in the same order;
* `Covered`: each point of the root is in a leaf or in a pending domain, since parts hold every point of what they divide
  (`PartsHold`);
* `Written`: what the leaves decoded so far put into the output is right, whatever order they came in.

What is left there is arithmetic: every place of the output is the address of a point (`AddressReached`), and the leaf that holds the
point puts a voxel there (`PlaceReached`, for the branch of a whole channel as well as the others).

`PlannedIsReadable` says that several limits are never met, each for a reason of its own:

* `PlanTraced`: node by node, the plan has a history of the domains still to plan.  A subtree ends where the domains
  that waited behind it come next (`EndsTold`), so a finished plan is a whole tree, and the first domain of the history before
  a node is the one the node was planned for;
* `JobsSized`: along an expansion every job has the size its node was planned for, so it divides as it did in the plan
  (`PlannedExpands`).  The second child of a node that repeats is the reason to speak of sizes only: its other parts are expanded with the same nodes,
  at places that were never planned;
* `PartsAligned`, `PartitionFits`: parts of an aligned domain are aligned, so they have a unit cube at least, and a
  partition of the root has no more members than the root has unit cubes.  Since leaves and jobs together
  never become fewer (`GrowsToLast`), the reader's limit, the number of leaves in the header, is not met either (`ReaderFits`);
* `HeaderHolds`: the header counts what follows it, a byte at least for each node and length (`NodeIsThere`,
  `LengthsAreThere`), and the width the encoder chose wraps none of it (`WriteHeaderHolds`);
* `AutoPlannable`: halving the longest axis of an aligned domain larger than a leaf makes aligned parts, so
  the encoder's own plan is never refused.

`LaneRansProofs` proves `DecoderAlwaysRetraces`, `MessagesComeBack` and `SpaceAlwaysSuffices` for every message, every table that sums to M,
every number of lanes and all widths with M*M <= B and B*B <= `Wide` (the code has 2^24 <= 2^32 and 2^64 <= 2^64).
The steps of the argument:

* `QuotientExact`: multiplying by the reciprocal `ransBuildEncTable` rounds up is exact division for every state below B * L;
* `KeptFacts`, `IntoFacts`: encoding a symbol keeps a lane in `States`, and the decoder's `Decoded` and `Advanced` undo it,
  with a word exactly when one was given up;
* `History(A, W, c)`: lanes A[h] and words W[h] for each symbol h from c on, every step of which can be undone.
  The encoder extends it at the front (`HistoryGrows`); the decoder walks along it, a symbol at a
  time or a block (`BlockLane`), and `RansInv` says that it is always on it.  `DecodesMessage` alone is not inductive: that the next
  symbol is right depends on the state of its lane, not on what has been put out;
* `Sparing`: twice the words plus the lanes that are `High` is at most the number of symbols done.  The bound of a word for
  two symbols is not inductive without the lanes, since a high lane may give up a word at once.

The frequencies a message gets are covered too: `Rounded`, `Lower` and `Raise` leave every symbol that occurs a
frequency above 0 (`LowerRans`, `RaiseRans`), so each table that `StartEncode` accepts can code the message.  That the
loop ends is liveness, and checked only.

`SelectorProofs` proves `MapsRestored` (`DecodesIds`) and `ChainsWritten` (`ChainReadsWritten`), for every map of bytes, number of
bits in a byte, shortest match, window, number of candidates, three recent distances and hash.  What the entropy streams below are given
is taken to come back, as in the model.  Both follow from `Inv` (theorem `Inductive`), which says at each step of the program:

* while parsing, `Table`: `head` and the chains of all positions passed lead to earlier positions that can be hashed, or end.  `ChainReadsWritten` needs
  it for positions inside of matches, which no step of the parse visits;
* while parsing, `Written`: there are marks, one for each match so far, each saying how far the decoder is in the bytes, the literals
  and the bits after that match and which recent distances it then has; each run, length and distance coded *leads* from
  one mark to the next (`Tape`, `Leads`).  That the streams decode to what was packed is not a fact about the last
  match alone, since the decoder's recent distances depend on all of them;
* when a file was kept, `Told`: it is a constant, groups by context, or a tape that ends at the last byte (`Tells`);
* while decoding sequences, `Reading`: the decoder stands at a mark, so that no check can fail and the next step
  leads to the next mark (`ReadTells`), overlapping copies included;
* while decoding contexts, `Counting`: each group is used up as far as its choice has occurred in what is restored.

Its lemmas say that packing and unpacking are inverse for every width (bits past the last number are 0), that a magnitude and
its open bits give back the number, and that a match copied byte by byte repeats what the encoder compared.

No theorem rests on anything but named assumptions of the modules: sizes, pads and models (`GeometryAssumption`, `PadAssumption`,
`FlatAssumption`, `ModelsAssumption`, `ModelSetsAssumption`, `LanesAssumption`), limits and options (`LimitAssumption`, `OptionsAssumption`), containers
(`RootsAssumption`, `PlanAssumption`, `NarrowAssumption`, `UnitAssumption`, `LeafAssumption`), widths, tables and messages
(`WidthAssumption`, `SizeAssumption`, `InputsAssumption`, `MessagesAssumption`), blocks and fits (`BlocksAssumption`,
`PlainAssumption`, `FitsAssumption`, `NoneAssumption`), fields (`TopAssumption`, `WidthsAssumption`, `FieldsAssumption`),
maps (`SizesAssumption`, `HashAssumption`, `MarksAssumption`).  Each is
evaluated by a run.

Sums, powers, running totals and sequences of any length are reasoned about by induction.  The library's induction theorems take an operator as
a parameter, which the provers cannot supply; `LeastNumber` and `NumberInduction` state induction for a set of numbers
instead, from the well-foundedness of < on `Nat`, and a recursive function is shown to exist by the same means
(`AddsExists`, `RecursionExists`).

Only model-checked:

* liveness (`Completes` of three runs), which is beyond the prover;
* `DecoderRetraces` and `DecodesVolume` of `WaveRans`;
* `FramesAccepted` and `HeaderRestored` of `HeaderPool`.

Neither of the latter two is out of reach in principle; `HeaderPool` needs an invariant about two programs that
parse each other's output, `WaveRans` one as in `LaneRansProofs` with the table of classes on top.

## Not modelled, and why

* Fitting, scoring and thresholds: floating point, and they decide what is encoded
  rather than whether it decodes.  Every outcome they can have is possible in
  `LeafFrame` and `CallScope`.
* Predictor arithmetic and the vector kernels: the same integer functions on both
  sides.  What they read is modelled.
* The sample columns a fit session keeps (`ng/ng_fit_cache.h`): they feed the fit only.
* The stream coder of headers and selectors (`ng/ng_stream.c`): a thin cover of the coder in `LaneRans`.
* The bytes of fields, varints and tables of frequencies, and the rejection of frames no
  encoder wrote, except where a property is about it (`DamageFile`, `Cut`, `Others`).
* Memory exhaustion, except where it decides a path (`CallScope`, `vc_reserve`).
* Bindings, benchmarks, examples.

## Plan

Every component whose control decides whether a frame decodes is modelled, and the traversals, the container's
expansion, leaf frames, the public frames, the calls, the delta filter, the selectors and the range coder are proved.
What is left, in this order:

1. `DecoderRetraces` and `DecodesVolume` of `WaveRans`, with the lemmas of `LaneRansProofs` on one lane.
2. `FramesAccepted` and `HeaderRestored` of `HeaderPool`, with marks in the pool as `SelectorProofs` has them in its streams.
