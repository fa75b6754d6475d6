--------------------------- MODULE MCDeltaFilter ----------------------------
(* Small fields of every shape of up to 8 elements of 3 bits: all fields of   *)
(* up to two elements, larger ones with elements at either end of the range.  *)
EXTENDS DeltaFilter

Shape(z, y, x) == [z |-> z, y |-> y, x |-> x]
Shapes == {s \in {Shape(z, y, x) : z \in 1 .. 3, y \in 1 .. 3, x \in 1 .. 3} :
              s.z * s.y * s.x <= 8}

Values(n) == IF n <= 2 THEN 0 .. Top ELSE {0, 1, Top}
Sparse(n) == {g \in [0 .. n - 1 -> Values(n)] :
                 n > 3 => Cardinality({c \in 0 .. n - 1 : g[c] # 0}) <= 2}

MCFields == UNION {{[z |-> s.z, y |-> s.y, x |-> s.x, wide |-> wide, data |-> g] :
                       g \in Sparse(s.z * s.y * s.x), wide \in BOOLEAN} : s \in Shapes}
=============================================================================
