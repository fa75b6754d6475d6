---------------------------- MODULE MCWavefront -----------------------------
(* Wavefront on a small volume: no model, each single model by its reach into *)
(* the slices before, and pairs of models of unequal reach.                   *)
EXTENDS Wavefront

Single == {[r0 |-> 3, r1 |-> r1, r2 |-> r2] : r1 \in -1 .. 3, r2 \in -1 .. 3}

MCModelSets ==
    {{}} \cup {{m} : m \in Single}
    \cup {{[r0 |-> 1, r1 |-> 0, r2 |-> -1], [r0 |-> 2, r1 |-> r1, r2 |-> 2]} :
             r1 \in {-1, 3}}
=============================================================================
