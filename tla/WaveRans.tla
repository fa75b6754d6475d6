------------------------------ MODULE WaveRans -------------------------------
(***************************************************************************)
(* Entropy coding along the wavefront.  The symbols of a volume are coded  *)
(* in the order of the wavefront table (Schedule): the encoder pushes the  *)
(* rows backwards, voxel x in lane x mod NS, and the decoder pulls them    *)
(* forwards, group by group.  The frequency table of a voxel depends on    *)
(* the errors of earlier rows, so the decoder knows which table to read    *)
(* the next row with only when the groups before have been read with the   *)
(* right ones: one wrong class and everything after it is lost.            *)
(*                                                                         *)
(* The error history is PaddedRows.  Widths are scaled: the code has words *)
(* of 16 bits, states from 2^15 up in 32 bits, and M = 2^10 .. 2^12.       *)
(***************************************************************************)
EXTENDS PaddedRows, Sequences, SequencesExt

CONSTANTS
    D,           \* voxels of a row (VCN_LC_D)
    NS,          \* lanes (VCN_LC_NS)
    NL,          \* rows of a group at most (VCN_LC_NL)
    Slope,       \* of the wavefront
    Symbols,     \* 0 .. n-1
    MBits,       \* tb
    WordBits,    \* bits of a stream word
    Thresholds,  \* of the activity, ascending
    Banks,       \* sets of tables
    BankOf,      \* the bank of each voxel's block
    Volumes      \* the symbol volumes to code

M == 2 ^ MBits
B == 2 ^ WordBits
L == 2 ^ (WordBits - 1)
Wide == 2 ^ (2 * WordBits)

Lanes == 0 .. NS - 1
Xs == 0 .. D - 1
Classes == Len(Thresholds) + 1
Tables == 0 .. Banks * Classes - 1

ASSUME RowAssumption == NS \in Nat \ {0} /\ D \in Nat \ {0} /\ D % NS = 0
ASSUME TableAssumption == MBits < WordBits /\ Banks \in Nat \ {0}
ASSUME BankAssumption == BankOf \in [Rows -> [Xs -> 0 .. Banks - 1]]
ASSUME VolumeAssumption == Volumes \subseteq [Rows -> [Xs -> Symbols]]

VARIABLES
    sym,     \* the symbol volume
    cls,     \* its classes, banks included, as the encoder found them
    phase,   \* see Next
    k,       \* the table being normalized
    freq,    \* the tables
    lanes,   \* the encoder's lanes
    before,  \* the encoder's lanes before each block was pushed, by position
    words,   \* the words pushed, the last one first
    mode,    \* "row": rows are read as they begin; "group": once all have begun
    e,       \* the decoder's error history
    pos,     \* the position of the row in hand
    x,       \* the first voxel of the block in hand
    states,  \* the decoder's lanes
    rest,    \* words not yet read
    over,    \* words missing
    dcls,    \* classes of the rows begun, by position
    dsym,    \* symbols of the rows read, by position
    out      \* error magnitudes by way of their symbols, of the rows finished

encoding == <<sym, cls, k, freq, lanes, before, words>>
decoding == <<mode, e, pos, x, states, rest, over, dcls, dsym, out>>
vars == <<phase, encoding, decoding>>

-----------------------------------------------------------------------------
(* The order of the rows.                                                  *)

Step(r) == r[2] + Slope * r[1]
Ahead(r, s) == Step(r) < Step(s) \/ (Step(r) = Step(s) /\ r[1] < s[1])
Positions == 1 .. Y * Z
Order == [p \in Positions |->
             CHOOSE r \in Rows : Cardinality({s \in Rows : Ahead(s, r)}) = p - 1]

\* The groups: up to NL rows of one step.
FirstSlice(r) == CHOOSE z \in 0 .. Z-1 :
    /\ Step(r) - Slope * z \in 0 .. Y-1
    /\ \A w \in 0 .. z-1 : Step(r) - Slope * w \notin 0 .. Y-1
GroupOf(r) == <<Step(r), (r[1] - FirstSlice(r)) \div NL>>
SameGroup(p) == {q \in Positions : GroupOf(Order[q]) = GroupOf(Order[p])}
FirstOf(p) == CHOOSE q \in SameGroup(p) : \A h \in SameGroup(p) : q <= h
LastOf(p) == CHOOSE q \in SameGroup(p) : \A h \in SameGroup(p) : h <= q

-----------------------------------------------------------------------------
(* Classes.                                                                *)

\* The error magnitude a symbol stands for.
Magnitude(s) == (s + 1) \div 2

\* The magnitude a view shows at voxel v of the row dz, dy away.
Seen(view, volume, dz, dy, v) ==
    LET side == IF v < 0 THEN "left" ELSE IF v >= D THEN "right" ELSE "mid"
        owner == view[<<dz, dy, side>>]
        at == IF v < 0 THEN 0 ELSE IF v >= D THEN D - 1 ELSE v
    IN IF owner = Flat THEN 0 ELSE Magnitude(volume[owner][at])

Activity(view, volume, v) ==
    LET n(d) == Seen(view, volume, 0, -1, v + d)
        u(d) == Seen(view, volume, -1, 0, v + d)
    IN 2 * n(0) + 2 * u(0) + n(-1) + n(1) + u(-1) + u(1)
       + Seen(view, volume, -1, -1, v) + Seen(view, volume, -1, 1, v)
       + Seen(view, volume, 0, -2, v) + Seen(view, volume, -2, 0, v)

Class(a) == Cardinality({h \in DOMAIN Thresholds : a > Thresholds[h]})

\* A slip: the rows of the decoder forget their banks.
BankedWithoutBank(r, v, c) == c
Banked(r, v, c) == c + Classes * BankOf[r][v]

\* The classes of row r, when view is what its stencil sees of the volume.
RowClasses(r, view, volume) ==
    [v \in Xs |-> Banked(r, v, Class(Activity(view, volume, v)))]

\* The symbol pass of the encoder is in raster order.
RasterClasses(volume) ==
    [r \in Rows |-> LET view == RasterView(r[1], r[2], ActivityTaps)
                    IN [v \in Xs |-> Class(Activity(view, volume, v))
                                       + Classes * BankOf[r][v]]]

-----------------------------------------------------------------------------
Init ==
    /\ sym \in Volumes
    /\ cls = RasterClasses(sym)
    /\ phase = "round"
    /\ k = 0
    /\ freq = [c \in Tables |-> [s \in Symbols |-> 0]]
    /\ lanes = [l \in Lanes |-> L]
    /\ before = [p \in {} |-> lanes]
    /\ words = <<>>
    /\ mode = "row"
    /\ e = Fresh
    /\ pos = Y * Z
    /\ x = D - NS
    /\ states = [l \in Lanes |-> L]
    /\ rest = <<>> /\ over = 0
    /\ dcls = [p \in {} |-> <<>>] /\ dsym = [p \in {} |-> <<>>]
    /\ out = [r \in {} |-> <<>>]

-----------------------------------------------------------------------------
(* Tables: vcn_lc_norm.                                                    *)

Count(c, s) == Cardinality({v \in Rows \X Xs : cls[v[1]][v[2]] = c /\ sym[v[1]][v[2]] = s})
Total(c) == Cardinality({v \in Rows \X Xs : cls[v[1]][v[2]] = c})
Most(f) == CHOOSE s \in Symbols :
    \A h \in Symbols : f[h] < f[s] \/ (f[h] = f[s] /\ s <= h)
MostFrequent(c) == Most([s \in Symbols |-> Count(c, s)])
Sum(f) == SumFunction(f)

\* A slip: a symbol too rare for a share of its own gets none.
ShareOrNone(c, s) == (Count(c, s) * M + Total(c) \div 2) \div Total(c)
Share(c, s) ==
    LET f == (Count(c, s) * M + Total(c) \div 2) \div Total(c)
    IN IF Count(c, s) > 0 /\ f < 1 THEN 1 ELSE f

RoundTable ==
    /\ phase = "round"
    /\ freq' = [freq EXCEPT ![k] =
           IF Total(k) = 0 THEN [s \in Symbols |-> IF s = 0 THEN M ELSE 0]
           ELSE [s \in Symbols |-> Share(k, s)]]
    /\ phase' = "settle"
    /\ UNCHANGED <<sym, cls, k, lanes, before, words, decoding>>

\* What is missing goes to the most frequent symbol.
Raise ==
    /\ phase = "settle" /\ Sum(freq[k]) < M
    /\ freq' = [freq EXCEPT ![k][MostFrequent(k)] = @ + M - Sum(freq[k])]
    /\ UNCHANGED <<phase, sym, cls, k, lanes, before, words, decoding>>

\* What the largest frequency can spare of what is too much.
Spare(f) == LET room == f[Most(f)] - 1  extra == Sum(f) - M
            IN IF extra < room THEN extra ELSE room

Lower ==
    /\ phase = "settle" /\ Sum(freq[k]) > M /\ Spare(freq[k]) >= 1
    /\ freq' = [freq EXCEPT ![k][Most(freq[k])] = @ - Spare(freq[k])]
    /\ UNCHANGED <<phase, sym, cls, k, lanes, before, words, decoding>>

\* The table is settled, or nothing can be spared.
NextTable ==
    /\ phase = "settle"
    /\ Sum(freq[k]) = M \/ (Sum(freq[k]) > M /\ Spare(freq[k]) < 1)
    /\ IF k + 1 \in Tables THEN k' = k + 1 /\ phase' = "round"
                           ELSE k' = k /\ phase' = "push"
    /\ UNCHANGED <<sym, cls, freq, lanes, before, words, decoding>>

-----------------------------------------------------------------------------
(* Encoding: vcn_lc_init_esym, vcn_lc_put_esym and the loop over the rows. *)

Cum(c, s) == SumFunctionOnSet(freq[c], {h \in Symbols : h < s})

CeilLog2(f) == CHOOSE h \in 0 .. MBits : 2^h >= f /\ \A i \in 0 .. h-1 : 2^i < f

\* Division by f as a multiplication.
Quotient(v, f) ==
    IF f < 2 THEN (v * (Wide - 1)) \div Wide
    ELSE LET rcp == (2 ^ (CeilLog2(f) + 2 * WordBits - 1) + f - 1) \div f
         IN (v * rcp) \div (2 ^ (CeilLog2(f) - 1) * Wide)

Bias(c, s) == IF freq[c][s] < 2 THEN Cum(c, s) + M - 1 ELSE Cum(c, s)

XMax(f) == (L \div M) * B * f

\* A slip: lanes are dealt out in the order of encoding.
EncodeLaneFromEnd(v) == (D - 1 - v) % NS
EncodeLane(v) == v % NS

Freq(r, v) == freq[cls[r][v]][sym[r][v]]
Full(r, v) == lanes[EncodeLane(v)] >= XMax(Freq(r, v))

\* The voxels of the block whose lanes give up a word, in the order the words are
\* read back: they are pushed from the last voxel of the row to the first.
Flushed(r) == SelectSeq([h \in 1 .. NS |-> x + h - 1], LAMBDA v : Full(r, v))
BlockVoxel(l) == CHOOSE v \in x .. x + NS - 1 : EncodeLane(v) = l

\* The NS voxels from x on of the row at pos: back to front, one lane each.
PushBlock ==
    LET r == Order[pos]
        voxels == Flushed(r)
    IN
    /\ phase = "push" /\ pos > 0
    /\ lanes' = [l \in Lanes |->
           LET v == BlockVoxel(l)
               f == Freq(r, v)
               w == IF Full(r, v) THEN lanes[l] \div B ELSE lanes[l]
           IN (w + Bias(cls[r][v], sym[r][v]) + Quotient(w, f) * (M - f)) % Wide]
    /\ words' = [h \in DOMAIN voxels |-> lanes[EncodeLane(voxels[h])] % B] \o words
    /\ before' = [p \in DOMAIN before \cup {<<pos, x>>} |->
                     IF p = <<pos, x>> THEN lanes ELSE before[p]]
    /\ IF x > 0 THEN x' = x - NS /\ pos' = pos
                ELSE x' = D - NS /\ pos' = pos - 1
    /\ UNCHANGED <<phase, sym, cls, k, freq,
                   mode, e, states, rest, over, dcls, dsym, out>>

\* Lanes, then words, go into the frame; the decoder checks the tables' sums and
\* starts from the lanes.
Hand ==
    /\ phase = "push" /\ pos = 0
    /\ phase' = IF \A c \in Tables : Sum(freq[c]) = M THEN "begin" ELSE "refused"
    /\ mode' \in {"row", "group"}
    /\ states' = lanes /\ rest' = words
    /\ pos' = 1 /\ x' = 0
    /\ UNCHANGED <<encoding, e, over, dcls, dsym, out>>

-----------------------------------------------------------------------------
(* Decoding: vcn_lc_read_tables, vcn_lc_syms and the loop over the groups. *)

SymbolAt(c, slot) == CHOOSE s \in Symbols : slot \in Cum(c, s) .. Cum(c, s) + freq[c][s] - 1

Lane(v) == v % NS

Pulled(v, c) ==
    LET s == SymbolAt(c, v % M) IN freq[c][s] * (v \div M) + (v % M) - Cum(c, s)

\* Words the lanes before l of the block take.
Taken(row, l) == Cardinality({h \in 0 .. l-1 : Pulled(states[h], row[x+h]) < L})

\* The NS voxels from x on of the row at pos, a lane each; the lanes that run low
\* take their words in order, as far as there are any.
ReadBlock(row) ==
    /\ dsym' = [p \in DOMAIN dsym \cup {pos} |->
           [v \in (IF p = pos THEN 0 .. x + NS - 1 ELSE Xs) |->
               IF p = pos /\ v >= x THEN SymbolAt(row[v], states[Lane(v)] % M)
               ELSE dsym[p][v]]]
    /\ states' = [l \in Lanes |->
           LET w == Pulled(states[l], row[x+l])  h == Taken(row, l) + 1 IN
           IF w >= L THEN w
           ELSE ((w * B) % Wide) + IF h <= Len(rest) THEN rest[h] ELSE 0]
    /\ LET wanted == Taken(row, NS)
           missing == IF wanted > Len(rest) THEN wanted - Len(rest) ELSE 0
       IN /\ rest' = SubSeq(rest, wanted - missing + 1, Len(rest))
          /\ over' = over + missing

\* Pads and classes of the row at pos; with one model its symbols come next.
BeginRow ==
    LET r == Order[pos]
        begun == RowBegin(e, r[1], r[2])
        classes == RowClasses(r, View(begun, r[1], r[2], ActivityTaps), out)
        last == pos = LastOf(pos)
    IN
    /\ phase = "begin"
    /\ e' = begun
    /\ dcls' = [p \in DOMAIN dcls \cup {pos} |-> IF p = pos THEN classes ELSE dcls[p]]
    /\ phase' = IF mode = "row" \/ last THEN "read" ELSE "begin"
    /\ pos' = IF mode = "row" THEN pos ELSE IF last THEN FirstOf(pos) ELSE pos + 1
    /\ UNCHANGED <<encoding, mode, x, states, rest, over, dsym, out>>

\* ng_bank_read_symbols, one block: the whole row, or every row of the group.
\* Missing words are noticed when all have been read.
Read ==
    LET last == pos = LastOf(pos)
        rowEnds == x + NS = D
    IN
    /\ phase = "read"
    /\ ReadBlock(dcls[pos])
    /\ x' = IF rowEnds THEN 0 ELSE x + NS
    /\ phase' = IF rowEnds /\ (mode = "row" \/ last) /\ over' > 0 THEN "refused"
                ELSE IF ~rowEnds THEN "read"
                ELSE IF last THEN "finish"
                ELSE IF mode = "row" THEN "begin" ELSE "read"
    /\ pos' = IF ~rowEnds THEN pos ELSE IF last THEN FirstOf(pos) ELSE pos + 1
    /\ UNCHANGED <<encoding, mode, e, dcls, out>>

\* The stream must be used up and every lane back where encoding started.
Ended == rest = <<>> /\ \A l \in Lanes : states[l] = L

\* The errors of the row at pos become history.
FinishRow ==
    LET r == Order[pos] IN
    /\ phase = "finish"
    /\ out' = [h \in DOMAIN out \cup {r} |-> IF h = r THEN dsym[pos] ELSE out[h]]
    /\ e' = Complete(e, r[1], r[2])
    /\ IF pos = Y * Z THEN phase' = (IF Ended THEN "done" ELSE "refused") /\ pos' = pos
       ELSE phase' = (IF pos = LastOf(pos) THEN "begin" ELSE "finish") /\ pos' = pos + 1
    /\ UNCHANGED <<encoding, mode, x, states, rest, over, dcls, dsym>>

Next == RoundTable \/ Raise \/ Lower \/ NextTable \/ PushBlock \/ Hand
        \/ BeginRow \/ Read \/ FinishRow

Spec == Init /\ [][Next]_vars

\* Plain sequential code: whatever can run does.
FairSpec == Spec /\ WF_vars(Next)

-----------------------------------------------------------------------------
\* Before every block it reads, in either mode, the decoder's lanes are the ones
\* the encoder had when it had pushed that block: classes, tables, order and words
\* all agree up to there.
DecoderRetraces ==
    phase = "read" =>
        states = (IF pos = 1 /\ x = 0 THEN lanes
                  ELSE IF x > 0 THEN before[<<pos, x - NS>>]
                  ELSE before[<<pos - 1, D - NS>>])

\* No stream of the encoder is refused, and it gives back the volume it was made
\* from.
DecodesVolume ==
    /\ phase # "refused"
    /\ phase = "done" => out = sym

\* Every table is settled after finitely many moves and every volume is decoded to
\* its last row.
Completes == <>(phase = "done")
=============================================================================
