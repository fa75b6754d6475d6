------------------------------ MODULE LaneRans ------------------------------
(***************************************************************************)
(* The interleaved range coder of rans.c: symbol i belongs to lane i mod   *)
(* Lanes, every lane is a state of its own, and all lanes share one stream *)
(* of words.  The encoder walks the symbols backwards and stores words     *)
(* backwards, so that the decoder reads both forwards.                     *)
(*                                                                         *)
(* Widths are scaled.  The code has M = 2^12, words of 32 bits, L = 2^31   *)
(* and 64-bit arithmetic; the model keeps the ratios of the exponents.     *)
(***************************************************************************)
EXTENDS Integers, Sequences, FiniteSets, FiniteSetsExt

CONSTANTS
    Size,      \* how many symbols there are (256)
    Lanes,     \* kRansLanes
    MBits,     \* kRansScaleBits
    WordBits,  \* bits of a stream word
    WideBits,  \* bits of the encoder's arithmetic
    Messages,  \* messages to code with a table of their own
    Inputs     \* [freq, message] pairs to code with a table that is given

Symbols == 0 .. Size - 1

\* The powers of two, as far as any exponent goes.
Two[k \in 0 .. MBits + WideBits] == IF k = 0 THEN 1 ELSE 2 * Two[k - 1]

M == Two[MBits]
B == Two[WordBits]
L == Two[WordBits - 1]
Wide == Two[WideBits]

\* Where the slots of each symbol start; the last start is the number of all slots.
Starts(f) ==
    LET start[s \in 0 .. Size] == IF s = 0 THEN 0 ELSE start[s - 1] + f[s - 1]
    IN start

Total(f) == Starts(f)[Size]

\* The frequencies vc_rans_encode_frequencies accepts for a message.
Table(f) == Total(f) = M
Covers(f, m) == \A i \in DOMAIN m : f[m[i]] > 0

ASSUME WidthAssumption ==
    /\ MBits \in Nat /\ WordBits \in Nat /\ WideBits \in Nat
    /\ MBits >= 1 /\ 2 * MBits <= WordBits /\ 2 * WordBits <= WideBits
ASSUME LanesAssumption == Lanes \in Nat /\ Lanes >= 1
ASSUME SizeAssumption == Size \in Nat /\ 1 <= Size /\ Size <= M
ASSUME InputsAssumption ==
    \A in \in Inputs :
        /\ in.freq \in [Symbols -> Nat] /\ in.message \in Seq(Symbols)
        /\ Table(in.freq) /\ Covers(in.freq, in.message)
ASSUME MessagesAssumption == Messages \subseteq Seq(Symbols)

VARIABLES
    freq,     \* the frequency table
    msg,      \* the message, in[0 .. n-1]
    phase,    \* "table", "encode", "decode", "decoded" or "rejected"
    j,        \* symbols still to encode
    x,        \* the encoder's lanes
    before,   \* the lanes as symbol i found them before it was encoded
    stream,   \* words of the frame, the last one stored first
    i,        \* symbols decoded
    y,        \* the decoder's lanes
    rest,     \* words not yet read
    output    \* symbols decoded so far

vars == <<freq, msg, phase, j, x, before, stream, i, y, rest, output>>

Lane(k) == k % Lanes
AllLanes == 0 .. Lanes - 1

\* A symbol that takes the whole table costs nothing and is not coded.
Constant == \E s \in Symbols : freq[s] = M

Cum(s) == Starts(freq)[s]

-----------------------------------------------------------------------------
(* A table of a message's own: vc_rans_normalize.                          *)

Count(m, s) == Cardinality({k \in DOMAIN m : m[k] = s})

\* A symbol's share of M, rounded down, but never none.
Share(m, s) ==
    IF Count(m, s) = 0 THEN 0 ELSE Max({1, (Count(m, s) * M) \div Len(m)})

Rounded(m) ==
    [s \in Symbols |-> IF m = <<>> THEN (IF s = 0 THEN M ELSE 0) ELSE Share(m, s)]

\* A slip: the search for the maximum never moves on from the first symbol.
Foremost == CHOOSE s \in Symbols : freq[s] > 0 /\ \A t \in Symbols : freq[t] > 0 => s <= t
\* The first of the most frequent symbols: it settles what rounding left.
MostFrequent ==
    CHOOSE s \in Symbols :
        /\ \A t \in Symbols : freq[t] <= freq[s]
        /\ \A t \in Symbols : freq[t] = freq[s] => s <= t

Init ==
    /\ \/ \E in \in Inputs : freq = in.freq /\ msg = in.message
       \/ \E m \in Messages : freq = Rounded(m) /\ msg = m
    /\ phase = "table"
    /\ j = 0
    /\ x = [k \in AllLanes |-> L]
    /\ before = [s \in {} |-> x]
    /\ stream = <<>>
    /\ i = 0
    /\ y = [k \in AllLanes |-> L] /\ rest = <<>> /\ output = <<>>

\* Too much was assigned: the most frequent symbol gives up what it can.
Lower ==
    LET excess == Total(freq) - M
        s == MostFrequent
    IN
    /\ phase = "table" /\ excess > 0
    /\ freq' = [freq EXCEPT ![s] = @ - Min({@ - 1, excess})]
    /\ UNCHANGED <<msg, phase, j, x, before, stream, i, y, rest, output>>

\* Too little was assigned: it gets the rest.
Raise ==
    /\ phase = "table" /\ Total(freq) < M
    /\ freq' = [freq EXCEPT ![MostFrequent] = @ + M - Total(freq)]
    /\ UNCHANGED <<msg, phase, j, x, before, stream, i, y, rest, output>>

StartEncode ==
    /\ phase = "table" /\ Total(freq) = M
    /\ phase' = "encode"
    /\ j' = IF Constant THEN 0 ELSE Len(msg)
    /\ UNCHANGED <<freq, msg, x, before, stream, i, y, rest, output>>

-----------------------------------------------------------------------------
(* ransBuildEncTable: division by the frequency as a multiplication.       *)

CeilLog2(f) == CHOOSE k \in 1 .. MBits : Two[k] >= f /\ \A h \in 1 .. k-1 : Two[h] < f

\* A slip: the reciprocal is rounded down.
RcpFloor(f) ==
    IF f = 1 THEN Wide - 1 ELSE Two[CeilLog2(f) + WideBits - 1] \div f

Rcp(f) ==
    IF f = 1 THEN Wide - 1
    ELSE (Two[CeilLog2(f) + WideBits - 1] + f - 1) \div f

Shift(f) == IF f = 1 THEN 0 ELSE CeilLog2(f) - 1
Bias(s) == IF freq[s] = 1 THEN Cum(s) + M - 1 ELSE Cum(s)
MulHi(a, b) == (a * b) \div Wide
Quotient(s, f) == MulHi(s, Rcp(f)) \div Two[Shift(f)]

\* From this state on a word is moved to the stream first.
XMax(f) == (L \div M) * B * f

-----------------------------------------------------------------------------
(* Encoding: ransEncodeFrequencies.                                        *)

LowWord(v) == v % B

\* A slip: lanes are counted from the end, in the order of encoding.
EncodeLaneFromEnd(k) == Lane(Len(msg) - 1 - k)
EncodeLane(k) == Lane(k)

\* A slip: room for the final states only.
StreamCapStates == 8 * Lanes

\* Bytes set aside for words and states: two per symbol, the states, and as much
\* again for stores that turn out not to be needed.
StreamCap == (IF Constant THEN 0 ELSE 2 * Len(msg)) + 8 * Lanes + 8 * Lanes

\* Symbol j-1 goes into its lane.
EncodeSymbol ==
    LET s == msg[j]
        k == EncodeLane(j - 1)
        full == x[k] >= XMax(freq[s])
        v == IF full THEN x[k] \div B ELSE x[k]
    IN
    /\ phase = "encode" /\ j > 0
    /\ before' = [h \in DOMAIN before \cup {j - 1} |->
                     IF h = j - 1 THEN x ELSE before[h]]
    /\ stream' = IF full THEN <<LowWord(x[k])>> \o stream ELSE stream
    /\ x' = [x EXCEPT ![k] =
                (v + Bias(s) + Quotient(v, freq[s]) * (M - freq[s])) % Wide]
    /\ j' = j - 1
    /\ UNCHANGED <<freq, msg, phase, i, y, rest, output>>

\* The lanes are stored before the words; the decoder starts from them.
FinishEncode ==
    /\ phase = "encode" /\ j = 0
    /\ phase' = "decode"
    /\ y' = x /\ rest' = stream
    /\ UNCHANGED <<freq, msg, j, x, before, stream, i, output>>

-----------------------------------------------------------------------------
(* Decoding: vc_rans_decode_frequencies.                                   *)

SymbolAt(slot) == CHOOSE s \in Symbols : slot \in Cum(s) .. Cum(s) + freq[s] - 1

Decoded(v) == SymbolAt(v % M)
Advanced(v) ==
    LET s == Decoded(v) IN freq[s] * (v \div M) + (v % M) - Cum(s)

\* Words the lanes before k of a block take.
Taken(k) == Cardinality({h \in 0 .. k-1 : Advanced(y[h]) < L})

\* A whole block is left, and a word for every lane.
BlockFits == i + Lanes <= Len(msg) /\ Len(rest) >= Lanes

DecodeBlock ==
    /\ phase = "decode" /\ BlockFits
    /\ output' = output \o [k \in 1 .. Lanes |-> Decoded(y[k-1])]
    /\ y' = [k \in AllLanes |->
                IF Advanced(y[k]) < L
                THEN ((Advanced(y[k]) * B) % Wide) + rest[Taken(k) + 1]
                ELSE Advanced(y[k])]
    /\ rest' = SubSeq(rest, Taken(Lanes) + 1, Len(rest))
    /\ i' = i + Lanes
    /\ UNCHANGED <<freq, msg, phase, j, x, before, stream>>

\* Once a block no longer fits, symbol by symbol.
DecodeSymbol ==
    LET k == Lane(i)  v == Advanced(y[k]) IN
    /\ phase = "decode" /\ ~BlockFits /\ i < Len(msg)
    /\ IF v < L /\ rest = <<>>
       THEN phase' = "rejected" /\ UNCHANGED <<i, y, rest, output>>
       ELSE /\ output' = Append(output, Decoded(y[k]))
            /\ y' = [y EXCEPT ![k] =
                        IF v < L THEN ((v * B) % Wide) + Head(rest) ELSE v]
            /\ rest' = IF v < L THEN Tail(rest) ELSE rest
            /\ i' = i + 1
            /\ UNCHANGED phase
    /\ UNCHANGED <<freq, msg, j, x, before, stream>>

\* The stream must be used up and every lane back where encoding started.
FinishDecode ==
    /\ phase = "decode" /\ i = Len(msg)
    /\ phase' = IF rest = <<>> /\ \A k \in AllLanes : y[k] = L
                THEN "decoded" ELSE "rejected"
    /\ UNCHANGED <<freq, msg, j, x, before, stream, i, y, rest, output>>

Next ==
    \/ Lower \/ Raise \/ StartEncode
    \/ EncodeSymbol \/ FinishEncode
    \/ DecodeBlock \/ DecodeSymbol \/ FinishDecode

Spec == Init /\ [][Next]_vars
FairSpec == Spec /\ WF_vars(Next)

-----------------------------------------------------------------------------
\* The decoder, block by block or symbol by symbol, goes back through the very
\* states the encoder's lanes went through.
DecoderRetraces ==
    phase = "decode" /\ ~Constant =>
        y = (IF i = 0 THEN x ELSE before[i-1])

\* No frame the encoder writes is rejected, and decoding gives the message.
DecodesMessage ==
    /\ phase # "rejected"
    /\ phase = "decoded" => output = msg

\* Words, then states, fit what was set aside, stores ahead of need included: the
\* encoder checks no bound while it stores.
SpaceSuffices ==
    phase = "encode" => 4 * (Len(stream) + 1) + 8 * Lanes <= StreamCap

\* Whatever the counts, shifting frequency ends with a table that sums to M, and
\* the message is coded and decoded with it.
Completes == <>(phase = "decoded")
=============================================================================
