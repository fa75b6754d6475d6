----------------------------- MODULE HeaderPool -----------------------------
(***************************************************************************)
(* The compact header of a frame (header.c).  One walk of the schema       *)
(* divides a native header into control values and arrays of words; the    *)
(* words go into one pool of labels and bits behind the controls.  The     *)
(* decoder walks the controls twice: first for the lengths of the arrays,  *)
(* then, with the pool taken apart, to put the native header together.     *)
(*                                                                         *)
(* A header is a sequence of numbers: a field, a constant byte, a word or, *)
(* in the compact form, a varint or a byte of bits is one number each.     *)
(***************************************************************************)
EXTENDS Integers, Sequences, FiniteSets, SequencesExt

CONSTANTS
    ByteBits,     \* bits of a byte
    WordBits,     \* bits of a word of an array
    SmallBits,    \* words below 2^SmallBits are labels themselves
    TableWords,   \* words of a frequency table
    TableSum,     \* what they add up to
    MaxModels,    \* models of a frame
    MaxChoices,   \* choices of a menu
    MaxBanks,     \* numbers of banks a choice may name
    MaxClasses,   \* classes of a bank
    MaxTables,    \* tables of a frame
    MaxRecords,   \* arrays of a header
    Frames,       \* what the frame encoder asks to be stored
    Others        \* native headers it would not write

Version == 3
NoModel == 255
Small == 2 ^ SmallBits
ByteSet == 0 .. 2 ^ ByteBits - 1
MaxLabel == Small - SmallBits + WordBits - 1

ASSUME SizeAssumption ==
    /\ SmallBits \in Nat \ {0} /\ WordBits > SmallBits /\ MaxLabel \in ByteSet
    /\ MaxModels + 1 + MaxTables <= MaxRecords

Sum(q) == FoldSeq(+, 0, q)
Zeros(n) == [i \in 1 .. n |-> 0]
Most(S) == CHOOSE v \in S : \A u \in S : u <= v

-----------------------------------------------------------------------------
(* What the frame encoder puts together: metadata, and the header of the   *)
(* entropy section.                                                        *)

Coefficients(r) == 2 * (r + 1)
ModelWords(r, K) == Coefficients(r) + 2 * K - 1
SizeValid(K) == K \in 2 .. MaxTables

Native(f) ==
    LET Model(q) == <<Version, q.r, q.K>> \o q.words
        Choice(c) == <<c.model, c.bank, 0, c.weight>>
        banks == Most({1} \cup {c.bank + 1 : c \in Range(f.choices)})
        K == banks * f.classes
    IN <<f.shape, Len(f.models), Len(f.choices)>>
       \o FlattenSeq([k \in DOMAIN f.models |-> Model(f.models[k])])
       \o FlattenSeq([k \in DOMAIN f.choices |-> Choice(f.choices[k])])
       \o (IF f.empty THEN <<>>
           ELSE <<Version, f.r, K>> \o Zeros(Coefficients(f.r)) \o f.thresholds
                \o Zeros(2 * K - 1 - Len(f.thresholds))
                \o FlattenSeq([k \in 1 .. K |-> f.table]))

VARIABLES
    native,   \* the native header to encode
    phase,    \* "walk", "put", "code", "read", "take", "done"; "refused" by the
              \* encoder, "lost" by the decoder
    w,        \* the walk
    at,       \* where the schema is, and its local variables
    pool,     \* the pool being put together or taken apart
    file,     \* the compact header
    coder,    \* what the stream coder was given
    cut       \* the file was shortened

vars == <<native, phase, w, at, pool, file, coder, cut>>

Walk(mode, input, arrays) ==
    [mode |-> mode, input |-> input, pos |-> 0, output |-> <<>>,
     arrays |-> arrays, record |-> 0, ok |-> TRUE]
Start == [item |-> "volume", k |-> 0, nm |-> 0, nc |-> 0, banks |-> 1, K |-> 0]
EmptyPool ==
    [k |-> 0, counts |-> <<>>, labels |-> <<>>, bits |-> <<>>, acc |-> <<>>,
     delta |-> FALSE, pos |-> 0]

Init ==
    /\ native \in {Native(f) : f \in Frames} \cup Others
    /\ phase = "walk"
    /\ w = Walk("encode", native, <<>>) /\ at = Start
    /\ pool = EmptyPool /\ file = <<>> /\ coder = <<>> /\ cut = FALSE

-----------------------------------------------------------------------------
(* The parts of a walk, on either side.                                    *)

Left(v) == Len(v.input) - v.pos
Ahead(v, n) == SubSeq(v.input, v.pos + 1, v.pos + n)
Value(v, n) == IF n <= Left(v) THEN v.input[v.pos + n] ELSE 0
Failed(v) == [v EXCEPT !.ok = FALSE]

\* The next n values are control fields: they are in both headers.
Fields(v, n) ==
    IF Left(v) < n THEN Failed(v)
    ELSE [v EXCEPT !.pos = @ + n, !.output = @ \o Ahead(v, n)]

\* Values that never differ are in the native header only.
Fixed(v, values) ==
    LET n == Len(values) IN
    IF v.mode # "encode" THEN [v EXCEPT !.output = @ \o values]
    ELSE IF Left(v) >= n /\ Ahead(v, n) = values THEN [v EXCEPT !.pos = @ + n]
    ELSE Failed(v)

Recorded(v, words) ==
    IF Len(v.arrays) >= MaxRecords THEN Failed(v)
    ELSE [v EXCEPT !.arrays = Append(@, words)]

\* The next n words are an array: recorded from the native header, recorded with
\* its length alone, or taken from what is recorded.
Numbers(v, n) ==
    CASE v.mode = "encode" ->
            IF Left(v) < n THEN Failed(v)
            ELSE [Recorded(v, Ahead(v, n)) EXCEPT !.pos = @ + n]
      [] v.mode = "shapes" -> Recorded(v, Zeros(n))
      [] v.mode = "contents" ->
            IF v.record >= Len(v.arrays) \/ Len(v.arrays[v.record + 1]) # n
            THEN Failed(v)
            ELSE [v EXCEPT !.record = @ + 1,
                           !.output = @ \o v.arrays[v.record + 1]]

-----------------------------------------------------------------------------
(* The schema, one action per item.                                        *)

Refusal == IF w.mode = "encode" THEN "refused" ELSE "lost"

\* The walk goes on at place next if it came to v and what it read is valid.
Goes(v, valid, next) ==
    /\ IF v.ok /\ valid THEN w' = v /\ at' = next /\ UNCHANGED phase
       ELSE phase' = Refusal /\ UNCHANGED <<w, at>>
    /\ UNCHANGED <<native, pool, file, coder, cut>>

At(item) == phase = "walk" /\ at.item = item
After(item, k, n, following) ==
    [at EXCEPT !.item = IF k < n THEN item ELSE following,
               !.k = IF k < n THEN k ELSE 0]

Volume ==
    LET nm == Value(w, 2)  nc == Value(w, 3) IN
    /\ At("volume")
    /\ Goes(Fields(w, 3), nm \in 0 .. MaxModels /\ nc \in 1 .. MaxChoices,
            [After("model", 0, nm, "choice") EXCEPT !.nm = nm, !.nc = nc])

Model ==
    LET head == Fields(Fixed(w, <<Version>>), 2)
        r == Value(head, -1)
        K == Value(head, 0)
        valid == head.ok /\ SizeValid(K)
    IN
    /\ At("model")
    /\ Goes(IF valid THEN Numbers(head, ModelWords(r, K)) ELSE head, valid,
            After("model", at.k + 1, at.nm, "choice"))

Choice ==
    LET m == Value(w, 1)  b == Value(w, 2) IN
    /\ At("choice")
    /\ Goes(Fields(Fixed(Fields(w, 2), <<0>>), 1),
            (m = NoModel \/ m < at.nm) /\ b < MaxBanks,
            [After("choice", at.k + 1, at.nc, "flag")
                EXCEPT !.banks = Most({at.banks, b + 1})])

\* Whether an entropy section follows: the native header just goes on or ends.
Flag ==
    LET flag == IF w.mode # "encode" THEN Value(w, 1)
                ELSE IF Left(w) > 0 THEN 1 ELSE 0
    IN
    /\ At("flag")
    /\ Goes(IF w.mode = "encode" THEN [w EXCEPT !.output = Append(@, flag)]
            ELSE IF Left(w) < 1 THEN Failed(w)
            ELSE [w EXCEPT !.pos = @ + 1],
            flag \in {0, 1},
            [at EXCEPT !.item = IF flag = 1 THEN "entropy" ELSE "end"])

\* Of the parameters only thresholds of one bank are not zero.
Entropy ==
    LET head == Fields(Fixed(w, <<Version>>), 2)
        r == Value(head, -1)
        K == Value(head, 0)
        valid == /\ head.ok /\ SizeValid(K)
                 /\ K % at.banks = 0 /\ K \div at.banks \in 2 .. MaxClasses
        thresholds == K \div at.banks - 1
        suffix == 2 * K - 1 - thresholds
    IN
    /\ At("entropy")
    /\ Goes(IF valid
            THEN Fixed(Numbers(Fixed(head, Zeros(Coefficients(r))), thresholds),
                       Zeros(suffix))
            ELSE head,
            valid, [at EXCEPT !.item = "table", !.k = 0, !.K = K])

Table ==
    LET v == Numbers(w, TableWords)
        words == IF w.mode = "encode" THEN Ahead(w, TableWords)
                 ELSE w.arrays[w.record + 1]
    IN
    /\ At("table")
    /\ Goes(v, v.ok => w.mode = "shapes" \/ Sum(words) = TableSum,
            After("table", at.k + 1, at.K, "end"))

\* The native header must be used up; then its arrays are pooled.
EndEncode ==
    /\ At("end") /\ w.mode = "encode"
    /\ phase' = IF Left(w) = 0 THEN "put" ELSE "refused"
    /\ UNCHANGED <<native, w, at, pool, file, coder, cut>>

EndShapes ==
    /\ At("end") /\ w.mode = "shapes"
    /\ phase' = "read"
    /\ UNCHANGED <<native, w, at, pool, file, coder, cut>>

\* Both walks must have met the same controls and as many arrays.
EndContents ==
    /\ At("end") /\ w.mode = "contents"
    /\ phase' = IF Left(w) = 0 /\ w.record = Len(w.arrays) THEN "done" ELSE "lost"
    /\ UNCHANGED <<native, w, at, pool, file, coder, cut>>

-----------------------------------------------------------------------------
(* The pool: labels, and the low bits of words from Small on.              *)

Trimmed(words) ==
    SubSeq(words, 1, Most({0} \cup {i \in DOMAIN words : words[i] # 0}))

\* Bits below the highest one of a word.
LowBits(v) == IF v < Small THEN 0
              ELSE CHOOSE nb \in SmallBits .. WordBits - 1 : v \in 2^nb .. 2^(nb+1) - 1
Label(v) == IF v < Small THEN v ELSE Small - SmallBits + LowBits(v)
BitsOf(label) == IF label < Small THEN 0 ELSE label - (Small - SmallBits)

\* Bits, lowest first, and back.
ToBits(v, n) == [h \in 1 .. n |-> (v \div 2^(h-1)) % 2]
FromBits(q) == Sum([h \in DOMAIN q |-> q[h] * 2^(h-1)])

\* The whole bytes of a sequence of bits.
Bytes(q) ==
    [h \in 1 .. Len(q) \div ByteBits |->
        FromBits(SubSeq(q, ByteBits * (h-1) + 1, ByteBits * h))]
Unfilled(q) == SubSeq(q, ByteBits * (Len(q) \div ByteBits) + 1, Len(q))

\* Pairs of labels are words; each becomes its difference from the one before, or
\* back again.  An odd last label stays.
Pair(q, h) == q[2*h-1] + q[2*h] * 2^ByteBits
Unpaired(q, words) ==
    [i \in DOMAIN q |->
        IF (i + 1) \div 2 > Len(words) THEN q[i]
        ELSE IF i % 2 = 1 THEN words[(i + 1) \div 2] % 2^ByteBits
        ELSE words[i \div 2] \div 2^ByteBits]
Delta(q) ==
    Unpaired(q, [h \in 1 .. Len(q) \div 2 |->
        (Pair(q, h) - (IF h = 1 THEN 0 ELSE Pair(q, h-1))) % 4^ByteBits])
Undelta(q) ==
    Unpaired(q, [h \in 1 .. Len(q) \div 2 |->
        Sum([g \in 1 .. h |-> Pair(q, g)]) % 4^ByteBits])

\* One array, its zeros at the end left out.
PutRecord ==
    LET words == Trimmed(w.arrays[pool.k + 1])
        bits == pool.acc \o
                FlattenSeq([i \in DOMAIN words |-> ToBits(words[i], LowBits(words[i]))])
    IN
    /\ phase = "put" /\ pool.k < Len(w.arrays)
    /\ pool' = [pool EXCEPT
                   !.k = @ + 1,
                   !.counts = Append(@, Len(words)),
                   !.labels = Append(@, [i \in DOMAIN words |-> Label(words[i])]),
                   !.bits = @ \o Bytes(bits), !.acc = Unfilled(bits)]
    /\ UNCHANGED <<native, phase, w, at, file, coder, cut>>

\* A slip: bits of a byte that is not full stay behind.
LastByteForgotten == <<>>
LastByte == IF pool.acc = <<>> THEN <<>> ELSE <<FromBits(pool.acc)>>

PutEnd ==
    /\ phase = "put" /\ pool.k = Len(w.arrays)
    /\ phase' = "code"
    /\ pool' = [pool EXCEPT !.bits = @ \o LastByte, !.acc = <<>>]
    /\ UNCHANGED <<native, w, at, file, coder, cut>>

\* A slip: no table knows of more than labels, but differences wrap.
CoveredLabels(table) == 0 .. MaxLabel
\* Bytes each of the two fixed tables can code: all of them.
Covered(table) == ByteSet

Plain == FlattenSeq(pool.labels)
Differences == FlattenSeq([k \in DOMAIN pool.labels |-> Delta(pool.labels[k])])

\* The encoder tries labels and differences, coded with a fixed table, and keeps
\* the shortest form, raw or coded; which one that is is left open.  A table of
\* the stream's own (way 2) is a form the decoder knows and the encoder never
\* chooses.  The coder, external, gives back what it was given.
Code ==
    /\ phase = "code"
    /\ IF ~(Range(Plain) \subseteq Covered(0) /\ Range(Differences) \subseteq Covered(1))
       THEN phase' = "refused" /\ UNCHANGED <<w, at, pool, file, coder>>
       ELSE \E delta \in BOOLEAN, way \in 0 .. 2 :
            LET labels == IF delta THEN Differences ELSE Plain
                z == IF way = 0 THEN labels ELSE <<0>>
            IN
            /\ way > 0 => Len(z) < Len(labels)
            /\ coder' = [way |-> way, table |-> delta, labels |-> labels]
            /\ file' = w.output \o pool.counts
                       \o <<(IF delta THEN 4 ELSE 0) + way, Len(z)>> \o z \o pool.bits
            /\ w' = Walk("shapes", file', <<>>) /\ at' = Start
            /\ pool' = EmptyPool /\ phase' = "walk"
    /\ UNCHANGED <<native, cut>>

\* The file loses its end before it is read.
Cut ==
    /\ phase = "walk" /\ w.mode = "shapes" /\ w.pos = 0 /\ ~cut
    /\ \E n \in 0 .. Len(file) - 1 : file' = SubSeq(file, 1, n)
    /\ w' = [w EXCEPT !.input = file'] /\ cut' = TRUE
    /\ UNCHANGED <<native, phase, at, pool, coder>>

-----------------------------------------------------------------------------
(* The pool taken apart.                                                   *)

\* Lengths, tag, size and the labels, in whatever form.
ReadPool ==
    LET n == Len(w.arrays)
        counts == Ahead(w, n)
        total == Sum(counts)
        tag == Value(w, n + 1)
        size == Value(w, n + 2)
        way == tag % 4
        z == SubSeq(w.input, w.pos + n + 3, w.pos + n + 2 + size)
        known == /\ Left(w) >= n + 2 + size
                 /\ \A k \in 1 .. n : counts[k] <= Len(w.arrays[k])
                 /\ tag <= 6 /\ way # 3
                 /\ IF way = 0 THEN size = total
                    ELSE /\ total > 0 /\ way = coder.way /\ Len(coder.labels) = total
                         /\ way = 1 => coder.table = (tag >= 4)
        labels == IF way = 0 THEN z ELSE coder.labels
        From(k) == Sum(SubSeq(counts, 1, k - 1))
    IN
    /\ phase = "read"
    /\ IF Left(w) < n + 2 \/ ~known THEN phase' = "lost" /\ UNCHANGED pool
       ELSE /\ phase' = "take"
            /\ pool' = [EmptyPool EXCEPT
                  !.counts = counts, !.delta = (tag >= 4),
                  !.labels = [k \in 1 .. n |->
                                 SubSeq(labels, From(k) + 1, From(k) + counts[k])],
                  !.pos = w.pos + n + 2 + size]
    /\ UNCHANGED <<native, w, at, file, coder, cut>>

\* One array: its words from labels and bits, then zeros.
TakeRecord ==
    LET k == pool.k + 1
        labels == IF pool.delta THEN Undelta(pool.labels[k]) ELSE pool.labels[k]
        Need(i) == Sum([h \in 1 .. i |-> BitsOf(labels[h])])
        missing == Need(Len(labels)) - Len(pool.acc)
        fetched == IF missing <= 0 THEN 0 ELSE (missing + ByteBits - 1) \div ByteBits
        bits == pool.acc \o
                FlattenSeq([h \in 1 .. fetched |-> ToBits(w.input[pool.pos + h], ByteBits)])
        Word(i) == IF labels[i] < Small THEN labels[i]
                   ELSE 2^BitsOf(labels[i]) + FromBits(SubSeq(bits, Need(i-1) + 1, Need(i)))
    IN
    /\ phase = "take" /\ pool.k < Len(w.arrays)
    /\ IF (\E i \in DOMAIN labels : labels[i] > MaxLabel)
          \/ pool.pos + fetched > Len(w.input)
       THEN phase' = "lost" /\ UNCHANGED <<w, pool>>
       ELSE /\ w' = [w EXCEPT !.arrays[k] =
                        [i \in DOMAIN @ |-> IF i <= Len(labels) THEN Word(i) ELSE 0]]
            /\ pool' = [pool EXCEPT !.k = k, !.pos = @ + fetched,
                           !.acc = SubSeq(bits, Need(Len(labels)) + 1, Len(bits))]
            /\ UNCHANGED phase
    /\ UNCHANGED <<native, at, file, coder, cut>>

\* The header must be used up, but for bits that are 0; the second walk follows.
TakeEnd ==
    /\ phase = "take" /\ pool.k = Len(w.arrays)
    /\ IF pool.pos = Len(w.input) /\ FromBits(pool.acc) = 0
       THEN /\ phase' = "walk" /\ at' = Start
            /\ w' = Walk("contents", SubSeq(w.input, 1, w.pos), w.arrays)
       ELSE phase' = "lost" /\ UNCHANGED <<w, at>>
    /\ UNCHANGED <<native, pool, file, coder, cut>>

Next ==
    \/ Volume \/ Model \/ Choice \/ Flag \/ Entropy \/ Table
    \/ EndEncode \/ EndShapes \/ EndContents
    \/ PutRecord \/ PutEnd \/ Code \/ Cut
    \/ ReadPool \/ TakeRecord \/ TakeEnd

Spec == Init /\ [][Next]_vars

-----------------------------------------------------------------------------
\* Every header the frame encoder can ask for is accepted: there is room for all of
\* its arrays, and labels and their differences can be coded with the fixed tables.
FramesAccepted == native \notin Others => phase # "refused"

\* A compact header gives back the native one, down to what is not stored; of a
\* header that lost its end nothing is decoded.
HeaderRestored ==
    /\ phase = "lost" => cut
    /\ phase = "done" => ~cut /\ w.output = native
=============================================================================
