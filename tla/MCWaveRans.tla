----------------------------- MODULE MCWaveRans ------------------------------
(* WaveRans on a volume whose widest step takes more than one group, with     *)
(* two classes in two banks, and words of 6 bits.                             *)
EXTENDS WaveRans

MCThresholds == <<3>>

MCBankOf == [r \in Rows |-> [v \in Xs |-> IF r[2] < 2 /\ v < 2 THEN 1 ELSE 0]]

\* Volumes from flat to rough; three values in seven are coded as other than 0.
Rough(v, a, b, c) == (a * v[1] + b * v[2] + c * v[3] + v[1] * v[2] + v[2] * v[3]) % 7
Symbol(n) == CASE n < 4 -> 0 [] n = 4 -> 1 [] n = 5 -> 2 [] OTHER -> 3

MCVolumes ==
    {[r \in Rows |-> [v \in Xs |-> Symbol(Rough(<<r[1], r[2], v>>, a, b, c))]] :
        a \in 0 .. 6, b \in {0, 2, 5}, c \in 0 .. 6}
    \cup {[r \in Rows |-> [v \in Xs |-> s]] : s \in Symbols}
=============================================================================
