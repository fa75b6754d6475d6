----------------------------- MODULE MCLaneRans -----------------------------
(* LaneRans with every width at a quarter of the code's, on every message of  *)
(* a few lengths with a given table, and on messages with all sorts of counts *)
(* with their own.                                                            *)
EXTENDS LaneRans, SequencesExt

\* The frequencies of symbols 0, 1 and 2; the others have none.
Freq(a, b, c) == [s \in Symbols |-> CASE s = 0 -> a [] s = 1 -> b [] s = 2 -> c [] OTHER -> 0]

With(f, alphabet, n) == {[freq |-> f, message |-> m] : m \in [1 .. n -> alphabet]}

\* A message with so many of each symbol, in runs.
Runs(counts) ==
    FlattenSeq([s \in 1 .. Len(counts) |-> [k \in 1 .. counts[s] |-> s - 1]])

MCInputs ==
    UNION {With(Freq(1, 1, 6), 0 .. 2, n) : n \in {0, 1, 5}}
    \cup With(Freq(2, 3, 3), 0 .. 2, 6)
    \cup With(Freq(1, 7, 0), 0 .. 1, 11)
    \cup With(Freq(1, 0, 7), {0, 2}, 8)
    \cup With(Freq(8, 0, 0), {0}, 5)
MCMessages ==
    [1 .. 3 -> {0, 1, 7}]
    \cup {Runs(c) : c \in
            {<<>>, <<0, 5>>, <<2, 2, 3>>, <<1, 1, 15>>, <<12, 1, 1, 1, 1>>,
             <<9, 1, 9, 1, 1, 1, 9, 1>>, <<1, 0, 20, 1, 0, 20>>}}
=============================================================================
