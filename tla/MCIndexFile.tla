---------------------------- MODULE MCIndexFile -----------------------------
(* IndexFile on boxes of up to two by two units and three channels, every     *)
(* caller's plan of a few nodes, and limits small enough to be met.           *)
EXTENDS IndexFile

Box(z, y, x, c) ==
    [at |-> [a \in Axes |-> 0],
     size |-> [a \in Axes |-> CASE a = 0 -> z [] a = 1 -> y [] a = 2 -> x
                                [] OTHER -> c]]

MCRoots == {Box(4, 4, 4, 1), Box(2, 2, 2, 3), Box(4, 2, 2, 2), Box(2, 6, 2, 1),
            Box(6, 6, 6, 1)}

MCPlanNodes == [tag : 0 .. 7, value : 1 .. 3] \cup {LeafNode, [tag |-> LeafTag, value |-> 1]}
=============================================================================
