------------------------------ MODULE Selector ------------------------------
(***************************************************************************)
(* The choice of every block, coded without loss.  A map of one choice is  *)
(* a constant; others are coded twice and the shorter code is kept: choices*)
(* grouped by the choice before them, or packed to bytes and parsed into   *)
(* literals and matches (LZ), whose distances may name one of three recent *)
(* ones.  The streams below, of one shared entropy coder, are taken to     *)
(* give back the symbols they were given if asked for as many; which code  *)
(* is shorter is left open.                                                *)
(***************************************************************************)
EXTENDS Integers, Sequences, FiniteSets, FiniteSetsExt

CONSTANTS
    Inputs,       \* maps to be coded
    ByteBits,     \* bits of a byte (8)
    MinMatch,     \* shortest match (4)
    Window,       \* largest distance (65536)
    MaxTrials,    \* candidates looked at for a match (256)
    FirstRecent,  \* the recent distances at the start (1, 4, 8)
    Hash(_),      \* of the MinMatch bytes at a position
    Hashes,       \* its values
    None,         \* the end of a chain
    Unwritten     \* memory as malloc leaves it

Two[k \in Nat] == IF k = 0 THEN 1 ELSE 2 * Two[k - 1]
Byte == 0 .. Two[ByteBits] - 1

ASSUME SizesAssumption ==
    /\ ByteBits \in Nat \ {0} /\ MinMatch \in Nat \ {0}
    /\ Window \in Nat /\ MaxTrials \in Nat
    /\ FirstRecent \in [1 .. 3 -> Nat \ {0}]
ASSUME InputsAssumption == \A m \in Inputs : m \in Seq(Byte) /\ m # <<>>
ASSUME HashAssumption == \A bs \in [1 .. MinMatch -> Byte] : Hash(bs) \in Hashes
ASSUME MarksAssumption == None \notin Nat /\ Unwritten \notin Nat /\ None # Unwritten

VARIABLES
    pc,
    ids,       \* the map
    bytes,     \* the map, packed
    i,         \* the position of the parse
    head,      \* the last position with a hash
    chain,     \* the position before with the same hash
    recent,    \* the encoder's recent distances
    pending,   \* literals since the last match
    codes,     \* literal runs, match lengths and distances, by magnitude
    bits,      \* what the magnitudes leave open
    literals,
    file,      \* the code kept
    out,       \* what the decoder has restored
    taken,     \* what it has taken from each context
    read,      \* what it has taken of the sequences, literals and bits
    known      \* the decoder's recent distances

encoder == <<ids, bytes, i, head, chain, recent, pending, codes, bits, literals>>
decoder == <<out, taken, read, known>>
vars == <<pc, encoder, file, decoder>>

-----------------------------------------------------------------------------
(* Bits. *)

Bit(v, j) == (v \div Two[j]) % 2
Binary(v, w) == [j \in 1 .. w |-> Bit(v, j - 1)]
Number(bs) ==
    LET n[j \in 0 .. Len(bs)] == IF j = 0 THEN 0 ELSE n[j - 1] + bs[j] * Two[j - 1]
    IN  n[Len(bs)]

\* The bits of an id, for ids up to m.
Width(m) == Min({w \in 0 .. m : Two[w] > m})

Bytes(n) == (n + ByteBits - 1) \div ByteBits

\* The digits of numbers of w bits each, one after the other; 0 past the last.
DigitsOf(ns, w, n) ==
    [k \in 1 .. n |-> IF k <= w * Len(ns) THEN Bit(ns[(k - 1) \div w + 1], (k - 1) % w) ELSE 0]
NumbersOf(bs, w, n) == [j \in 1 .. n |-> Number([k \in 1 .. w |-> bs[w * (j - 1) + k]])]

\* A slip: what the bit writer holds at the end is left there.
FlushForgotten(bs) == SubSeq(bs, 1, ByteBits * (Len(bs) \div ByteBits))
\* What the bit writer holds at the end goes out as a byte.
Flush(bs) == bs \o [k \in 1 .. ByteBits * Bytes(Len(bs)) - Len(bs) |-> 0]

BitsOf(bs) == DigitsOf(bs, ByteBits, ByteBits * Len(bs))
Pack(m, w) ==
    LET n == Bytes(w * Len(m))
    IN  NumbersOf(DigitsOf(m, w, ByteBits * n), ByteBits, n)
Unpack(bs, w, n) == NumbersOf(BitsOf(bs), w, n)

\* A number is coded as the magnitude of its successor and the bits below.
Log2(x) == CHOOSE k \in 0 .. x : Two[k] <= x /\ x < Two[k + 1]
Magnitude(v) == Log2(v + 1)
Below(v) == Binary(v + 1 - Two[Magnitude(v)], Magnitude(v))
Valued(code, bs) == Two[code] - 1 + Number(bs)

\* recent_update
Update(r, distance) ==
    IF r[1] = distance THEN r ELSE <<distance, r[1], IF r[2] # distance THEN r[2] ELSE r[3]>>

-----------------------------------------------------------------------------
(* Contexts. *)

Before(m, j) == IF j = 1 THEN 0 ELSE m[j - 1]
Alphabet(m) == 1 + Max({0} \cup Range(m))

\* How many of the choices before j follow an s.
Uses(m, s, j) == Cardinality({k \in 1 .. j - 1 : Before(m, k) = s})
Followers(m, s) ==
    [p \in 1 .. Uses(m, s, Len(m) + 1) |->
        m[CHOOSE j \in DOMAIN m : Before(m, j) = s /\ Uses(m, s, j) = p - 1]]

ContextFile(m) ==
    [tag |-> 1, alphabet |-> Alphabet(m),
     groups |-> [s \in {s \in 0 .. Alphabet(m) - 1 : Followers(m, s) # <<>>} |-> Followers(m, s)]]

-----------------------------------------------------------------------------
(* The encoder. *)

Pick ==
    /\ pc = "map"
    /\ ids' \in Inputs
    /\ IF \A j \in DOMAIN ids' : ids'[j] = ids'[1]
       THEN /\ file' = [tag |-> 0, value |-> ids'[1]]
            /\ pc' = "read"
            /\ UNCHANGED <<bytes, chain>>
       ELSE /\ bytes' = Pack(ids', Width(Max(Range(ids'))))
            /\ chain' = [j \in DOMAIN bytes' |-> Unwritten]
            /\ pc' = "parse"
            /\ UNCHANGED file
    /\ UNCHANGED <<i, head, recent, pending, codes, bits, literals, decoder>>

Left(j) == Len(bytes) - j + 1
HashAt(j) == Hash(SubSeq(bytes, j, j + MinMatch - 1))

\* The candidates for a match at i, newest first.
Far(j) == i - j > Window
Candidate[t \in 0 .. MaxTrials] ==
    IF t = 0 THEN head[HashAt(i)]
    ELSE LET last == Candidate[t - 1]
         IN  IF last \in {None, Unwritten} \/ Far(last) THEN None ELSE chain[last]

Matching(j) == Max({n \in 0 .. Left(i) : \A k \in 0 .. n - 1 : bytes[i + k] = bytes[j + k]})

Matches == IF Left(i) < MinMatch THEN {}
           ELSE {j \in {Candidate[t] : t \in 0 .. MaxTrials - 1} \ {None, Unwritten} :
                    ~Far(j) /\ Matching(j) >= MinMatch}

\* The last position with hash h once first to last are in the table.
Latest(h, first, last) ==
    LET same == {j \in first .. last : HashAt(j) = h}
    IN  IF same = {} THEN head[h] ELSE Max(same)

\* A slip: positions within a match become heads without being chained.
InsertedHeads(first, last) ==
    [head |-> [h \in DOMAIN head |-> Latest(h, first, last)],
     chain |-> [j \in DOMAIN chain |->
                   IF j \in first .. last /\ j = first THEN head[HashAt(j)] ELSE chain[j]]]

\* The table with positions first to last, each chained to the last with its hash.
Inserted(first, last) ==
    [head |-> [h \in DOMAIN head |-> Latest(h, first, last)],
     chain |-> [j \in DOMAIN chain |->
                   IF j \in first .. last THEN Latest(HashAt(j), first, j - 1) ELSE chain[j]]]

\* Positions too close to the end are left out.
LastInserted(j) == Min({j, Len(bytes) - MinMatch + 1})

Literal ==
    /\ pc = "parse" /\ i <= Len(bytes) /\ Matches = {}
    /\ literals' = Append(literals, bytes[i])
    /\ pending' = pending + 1
    /\ head' = Inserted(i, LastInserted(i)).head
    /\ chain' = Inserted(i, LastInserted(i)).chain
    /\ i' = i + 1
    /\ UNCHANGED <<pc, ids, bytes, recent, codes, bits, file, decoder>>

\* The longest match; the nearest of these.
Match ==
    LET longest == Max({Matching(j) : j \in Matches})
        distance == i - Max({j \in Matches : Matching(j) = longest})
        code == IF distance \in Range(recent)
                THEN Min({r \in 1 .. 3 : recent[r] = distance}) - 1
                ELSE 3 + Log2(distance)
        new == Inserted(i, LastInserted(i + longest - 1))
    IN  /\ pc = "parse" /\ i <= Len(bytes) /\ Matches # {}
        /\ codes' = <<Append(codes[1], Magnitude(pending)),
                      Append(codes[2], Magnitude(longest - MinMatch)),
                      Append(codes[3], code)>>
        /\ bits' = bits \o Below(pending) \o Below(longest - MinMatch)
                        \o (IF code < 3 THEN <<>> ELSE Below(distance - 1))
        /\ recent' = Update(recent, distance)
        /\ pending' = 0
        /\ head' = new.head /\ chain' = new.chain
        /\ i' = i + longest
        /\ UNCHANGED <<pc, ids, bytes, literals, file, decoder>>

LZFile == [tag |-> 2, width |-> Width(Max(Range(ids))), matches |-> Len(codes[2]),
           codes |-> <<Append(codes[1], Magnitude(pending)), codes[2], codes[3]>>,
           bits |-> Flush(bits \o Below(pending)), literals |-> literals]

\* Which code is shorter depends on the streams.
Keep ==
    /\ pc = "parse" /\ i > Len(bytes)
    /\ file' \in {LZFile, ContextFile(ids)}
    /\ pc' = "read"
    /\ UNCHANGED <<encoder, decoder>>

-----------------------------------------------------------------------------
(* The decoder, which knows how many choices the map has. *)

Refuse == pc' = "refused" /\ UNCHANGED <<encoder, file, decoder>>
Finish(m) == out' = m /\ pc' = "done" /\ UNCHANGED <<encoder, file, taken, read, known>>

ReadConstant == pc = "read" /\ file.tag = 0 /\ Finish([j \in 1 .. Len(ids) |-> file.value])

Group(s) == IF s \in DOMAIN file.groups THEN file.groups[s] ELSE <<>>
Total ==
    LET n[s \in 0 .. file.alphabet] == IF s = 0 THEN 0 ELSE n[s - 1] + Len(Group(s - 1))
    IN  n[file.alphabet]

OpenContexts ==
    /\ pc = "read" /\ file.tag = 1
    /\ IF DOMAIN file.groups \subseteq 0 .. file.alphabet - 1 /\ Total = Len(ids)
       THEN /\ taken' = [s \in 0 .. file.alphabet - 1 |-> 0]
            /\ pc' = "contexts"
            /\ UNCHANGED <<encoder, file, out, read, known>>
       ELSE Refuse

\* One choice, by the choice before it.
ReadContext ==
    LET last == Before(Append(out, 0), Len(out) + 1)
        at == taken[last] + 1
    IN  /\ pc = "contexts" /\ Len(out) < Len(ids)
        /\ IF at <= Len(Group(last)) /\ Group(last)[at] < file.alphabet
           THEN /\ out' = Append(out, Group(last)[at])
                /\ taken' = [taken EXCEPT ![last] = at]
                /\ UNCHANGED <<pc, encoder, file, read, known>>
           ELSE Refuse

\* Every group must be used up.
CloseContexts ==
    /\ pc = "contexts" /\ Len(out) = Len(ids)
    /\ IF \A s \in DOMAIN taken : taken[s] = Len(Group(s)) THEN Finish(out) ELSE Refuse

PackedBytes == Bytes(Len(ids) * file.width)

OpenSequences ==
    /\ pc = "read" /\ file.tag = 2
    /\ IF /\ file.width \in 1 .. ByteBits
          /\ file.matches <= PackedBytes \div MinMatch
          /\ Len(file.literals) <= PackedBytes
       THEN pc' = "sequences" /\ UNCHANGED <<encoder, file, decoder>>
       ELSE Refuse

\* The number of magnitude code whose open bits follow the first at of bits bs.
Coded(bs, code, at) == Valued(code, SubSeq(bs, at + 1, at + code))

Run(k) == Coded(file.bits, file.codes[1][k], read.bits)
AfterRun(k) == read.bits + file.codes[1][k]
WithRun(k) == out \o SubSeq(file.literals, read.literals + 1, read.literals + Run(k))
RunFits(k) ==
    /\ AfterRun(k) <= Len(file.bits)
    /\ Run(k) <= Len(file.literals) - read.literals
    /\ Run(k) <= PackedBytes - Len(out)

\* Bytes are copied one by one: a match may overlap what it makes.
Copied(bs, distance, length) ==
    LET o[p \in 1 .. Len(bs) + length] == IF p <= Len(bs) THEN bs[p] ELSE o[p - distance]
    IN  o

ReadSequence ==
    LET k == read.sequences + 1
        length == Coded(file.bits, file.codes[2][k], AfterRun(k)) + MinMatch
        afterLength == AfterRun(k) + file.codes[2][k]
        code == file.codes[3][k]
        distance == IF code < 3 THEN known[code + 1] ELSE Coded(file.bits, code - 3, afterLength) + 1
        end == afterLength + (IF code < 3 THEN 0 ELSE code - 3)
    IN  /\ pc = "sequences" /\ k <= file.matches
        /\ IF /\ RunFits(k)
              /\ end <= Len(file.bits)
              /\ distance <= Window /\ distance <= Len(WithRun(k))
              /\ length <= PackedBytes - Len(WithRun(k))
           THEN /\ out' = Copied(WithRun(k), distance, length)
                /\ read' = [sequences |-> k, literals |-> read.literals + Run(k), bits |-> end]
                /\ known' = Update(known, distance)
                /\ UNCHANGED <<pc, encoder, file, taken>>
           ELSE Refuse

\* The last literals; then nothing may be left over but bits of 0.
CloseSequences ==
    LET k == file.matches + 1
        packed == BitsOf(WithRun(k))
        n == Len(ids) * file.width
    IN  /\ pc = "sequences" /\ read.sequences = file.matches
        /\ IF /\ RunFits(k)
              /\ Len(WithRun(k)) = PackedBytes
              /\ read.literals + Run(k) = Len(file.literals)
              /\ Bytes(AfterRun(k)) = Bytes(Len(file.bits))
              /\ \A j \in AfterRun(k) + 1 .. Len(file.bits) : file.bits[j] = 0
              /\ \A j \in n + 1 .. Len(packed) : packed[j] = 0
           THEN Finish(Unpack(WithRun(k), file.width, Len(ids)))
           ELSE Refuse

Init ==
    /\ pc = "map" /\ ids = <<>> /\ bytes = <<>> /\ i = 1
    /\ head = [h \in Hashes |-> None] /\ chain = <<>>
    /\ recent = FirstRecent /\ pending = 0
    /\ codes = <<<<>>, <<>>, <<>>>> /\ bits = <<>> /\ literals = <<>>
    /\ file = None
    /\ out = <<>> /\ taken = <<>> /\ known = FirstRecent
    /\ read = [sequences |-> 0, literals |-> 0, bits |-> 0]

Next ==
    \/ Pick \/ Literal \/ Match \/ Keep
    \/ ReadConstant \/ OpenContexts \/ ReadContext \/ CloseContexts
    \/ OpenSequences \/ ReadSequence \/ CloseSequences

Spec == Init /\ [][Next]_vars

-----------------------------------------------------------------------------
\* Whatever code was kept, the decoder never refuses what the encoder wrote
\* and restores every choice (vc_selector_decode undoes vc_selector_encode).
DecodesIds == pc # "refused" /\ (pc = "done" => out = ids)

\* The encoder never follows a chain into memory nothing was written to:
\* positions passed over inside a match are chained too (lz_encode, chain).
ChainReadsWritten ==
    pc = "parse" /\ Left(i) >= MinMatch => \A t \in 0 .. MaxTrials : Candidate[t] # Unwritten

=============================================================================
