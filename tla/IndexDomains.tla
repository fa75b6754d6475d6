---------------------------- MODULE IndexDomains ----------------------------
(***************************************************************************)
(* The domains of the indexed container: boxes of voxels by channels, and  *)
(* how one tree node divides one (children in indexed_internal.h).         *)
(*                                                                         *)
(* A domain is [at, size], functions on the four axes: 0, 1, 2 are Z, Y, X *)
(* and 3 is the channels.                                                  *)
(***************************************************************************)
EXTENDS Integers, Sequences

CONSTANTS Unit,      \* the alignment of spatial extents (32)
          LeafX,     \* the largest extent of a leaf along X (1024)
          LeafArea   \* the largest Z times Y of a leaf (65536)

ASSUME UnitAssumption == Unit \in Nat /\ Unit >= 1
ASSUME LeafAssumption ==
    /\ LeafX \in Nat /\ LeafX >= Unit
    /\ LeafArea \in Nat /\ LeafArea >= Unit * Unit

Axes == 0 .. 3
Grain(a) == IF a = 3 THEN 1 ELSE Unit

\* Tags of the template: 0..3 cut an axis in two, 4..7 repeat, 8 is a leaf.
LeafTag == 8
Cuts(node) == node.tag < 4
AxisOf(node) == node.tag % 4

Cube(d) == d.size[0] = d.size[1] /\ d.size[1] = d.size[2]
LeafShape(d) == d.size[2] <= LeafX /\ d.size[0] * d.size[1] <= LeafArea

-----------------------------------------------------------------------------
\* A slip: a repeat takes a count that does not divide the axis, and drops the
\* rest.
DividesWithRest(d, node) ==
    LET a == AxisOf(node)  v == node.value  extent == d.size[a] IN
    IF Cuts(node)
    THEN v > 0 /\ v < extent /\ v % Grain(a) = 0
    ELSE v >= 2 /\ extent \div v > 0 /\ (extent \div v) % Grain(a) = 0

\* A node divides a domain into aligned parts that are not empty.
Divides(d, node) ==
    LET a == AxisOf(node)  v == node.value  extent == d.size[a] IN
    IF Cuts(node)
    THEN v > 0 /\ v < extent /\ v % Grain(a) = 0
    ELSE /\ v >= 2 /\ extent % v = 0
         /\ extent \div v > 0 /\ (extent \div v) % Grain(a) = 0

Slice(d, a, from, extent) ==
    [at |-> [d.at EXCEPT ![a] = @ + from], size |-> [d.size EXCEPT ![a] = extent]]

\* The parts, in the order their leaves are listed.
Parts(d, node) ==
    LET a == AxisOf(node)  v == node.value IN
    IF Cuts(node)
    THEN << Slice(d, a, 0, v), Slice(d, a, v, d.size[a] - v) >>
    ELSE LET part == d.size[a] \div v
         IN [r \in 1 .. v |-> Slice(d, a, (r-1) * part, part)]

-----------------------------------------------------------------------------
\* For the properties.
Disjoint(d, f) ==
    \E a \in Axes : d.at[a] + d.size[a] <= f.at[a] \/ f.at[a] + f.size[a] <= d.at[a]

Inside(d, f) ==
    \A a \in Axes : f.at[a] <= d.at[a] /\ d.at[a] + d.size[a] <= f.at[a] + f.size[a]

Volume(d) == d.size[0] * d.size[1] * d.size[2] * d.size[3]
=============================================================================
