----------------------------- MODULE IndexFile ------------------------------
(***************************************************************************)
(* The indexed container, from the encoder's plan to the decoder's output: *)
(* vc_indexed_encode (plan_tree, finish_tree, expand, the payload loop,    *)
(* the header) and then vc_indexed_decode (vc_index_read with finish_tree  *)
(* and expand again, the leaves).  Writer and reader share nothing but the *)
(* file.  One action is one iteration of a loop of the code.               *)
(***************************************************************************)
EXTENDS IndexDomains, FiniteSets, Functions

CONSTANTS
    Roots,        \* the domains to encode
    PlanNodes,    \* what a node of a caller's plan may be: [tag, value]
    MaxNodes,     \* bound on the nodes of a caller's plan
    Lengths,      \* what the leaf codec may return as a length
    NarrowField,  \* the values a narrow field holds (256)
    NarrowHeader, \* the largest narrow header (65535)
    NarrowLength  \* the largest length a narrow header stores (2^32 - 1)

ASSUME RootsAssumption ==
    \A r \in Roots :
        /\ r \in [at : [Axes -> {0}], size : [Axes -> Nat]]
        /\ \A a \in Axes : r.size[a] >= Grain(a) /\ r.size[a] % Grain(a) = 0

\* The encoder refuses a leaf of less than 8 bytes, and stores 4 fewer.
ASSUME PlanAssumption ==
    /\ PlanNodes \subseteq [tag : 0 .. LeafTag, value : Nat]
    /\ Lengths \subseteq Nat /\ \A l \in Lengths : l >= 4

ASSUME NarrowAssumption ==
    NarrowField \in Nat \ {0} /\ NarrowHeader \in Nat /\ NarrowLength \in Nat

VARIABLES
    root,      \* the domain to encode
    layout,    \* 0 channels first, 1 channels last
    auto,      \* no plan was given
    phase,     \* see Phases
    t,         \* the writer's template, in preorder
    stack,     \* domains to plan, or jobs [d, node] to expand; the top is first
    leaves,    \* the writer's leaves
    lengths,   \* their encoded lengths, as far as encoded
    file,      \* what was written, or what became of it
    damaged,   \* the file was changed after it was written
    p,         \* header bytes read
    needed,    \* subtrees the reader still expects
    rt,        \* the reader's template
    index,     \* the reader's leaves
    found,     \* leaves decoded
    out        \* the decoder's output

vars == <<root, layout, auto, phase, t, stack, leaves, lengths, file, damaged, p, needed,
          rt, index, found, out>>

Phases == {"plan", "expand", "encode", "read", "reexpand", "decode", "done",
           "unplanned", "refused", "rejected"}

NoFile == [wide |-> FALSE]
LeafNode == [tag |-> LeafTag, value |-> 0]

Init ==
    /\ root \in Roots
    /\ layout \in {0, 1}
    /\ auto \in BOOLEAN
    /\ phase = "plan"
    /\ t = <<>> /\ stack = <<root>> /\ leaves = <<>> /\ lengths = <<>>
    /\ file = NoFile /\ damaged = FALSE
    /\ p = 0 /\ needed = 1 /\ rt = <<>> /\ index = <<>> /\ found = 0
    /\ out = [i \in 0 .. Volume(root) - 1 |-> -1]

-----------------------------------------------------------------------------
(* Planning: plan_tree and finish_tree.                                    *)

\* The axis of largest extent, the first of equals.
Longest(d) ==
    CHOOSE a \in 0 .. 2 :
        /\ \A c \in 0 .. 2 : d.size[c] <= d.size[a]
        /\ \A c \in 0 .. a-1 : d.size[c] < d.size[a]

\* A slip: an odd number of units is rounded up, past what half leaves aligned.
AutoNodeHalf(d) ==
    IF d.size[3] > 1 THEN [tag |-> 7, value |-> d.size[3]]
    ELSE IF Cube(d) /\ LeafShape(d) THEN LeafNode
    ELSE [tag |-> Longest(d), value |-> d.size[Longest(d)] \div 2]

\* Without a plan: channels apart, then halves, rounded down to units, until every
\* part is a cube the leaf codec takes.
AutoNode(d) ==
    IF d.size[3] > 1 THEN [tag |-> 7, value |-> d.size[3]]
    ELSE IF Cube(d) /\ LeafShape(d) THEN LeafNode
    ELSE [tag |-> Longest(d),
          value |-> (d.size[Longest(d)] \div (2 * Unit)) * Unit]

Plannable(d, node) ==
    IF node.tag = LeafTag
    THEN node.value = 0 /\ d.size[3] = 1 /\ LeafShape(d) /\ Cube(d)
    ELSE Divides(d, node)

\* A repeat's parts share the template of the first.
ToPlan(d, node) ==
    IF node.tag = LeafTag THEN <<>>
    ELSE IF Cuts(node) THEN Parts(d, node)
    ELSE <<Head(Parts(d, node))>>

\* Where the subtree of each node ends (the node after it); 0 for none.
Ends(s) ==
    LET n == Len(s)
        end[i \in 1 .. n] ==
            IF s[i].tag = LeafTag THEN i + 1
            ELSE IF i = n THEN 0
            ELSE IF ~Cuts(s[i]) THEN end[i+1]
            ELSE IF end[i+1] \in 1 .. n THEN end[end[i+1]]
            ELSE 0
    IN end

WholeTree(s) ==
    /\ s # <<>>
    /\ \A i \in DOMAIN s : Ends(s)[i] # 0
    /\ Ends(s)[1] = Len(s) + 1

PlanNode ==
    /\ phase = "plan" /\ stack # <<>>
    /\ auto \/ Len(t) < MaxNodes
    /\ \E node \in IF auto THEN {AutoNode(Head(stack))} ELSE PlanNodes :
          IF Plannable(Head(stack), node)
          THEN /\ t' = Append(t, node)
               /\ stack' = ToPlan(Head(stack), node) \o Tail(stack)
               /\ UNCHANGED phase
          ELSE phase' = "unplanned" /\ UNCHANGED <<t, stack>>
    /\ UNCHANGED <<root, layout, auto, leaves, lengths, file, damaged, p, needed, rt,
                   index, found, out>>

\* A caller's plan names no axis, ends too early, or goes on after the last domain.
PlanMiscounts ==
    /\ phase = "plan" /\ ~auto
    /\ phase' = "unplanned"
    /\ UNCHANGED <<root, layout, auto, t, stack, leaves, lengths, file, damaged, p, needed,
                   rt, index, found, out>>

FinishPlan ==
    /\ phase = "plan" /\ stack = <<>>
    /\ IF WholeTree(t)
       THEN phase' = "expand" /\ stack' = <<[d |-> root, node |-> 1]>>
       ELSE phase' = "refused" /\ UNCHANGED stack
    /\ UNCHANGED <<root, layout, auto, t, leaves, lengths, file, damaged, p, needed, rt,
                   index, found, out>>

-----------------------------------------------------------------------------
(* Expansion: expand, by the writer and by the reader.                     *)

PrefixBytes(wide) == IF wide THEN 25 ELSE 11
ValueBytes(wide) == IF wide THEN 4 ELSE 1
LengthBytes(wide) == IF wide THEN 8 ELSE 4
NodeBytes(wide, node) == IF node.tag = LeafTag THEN 1 ELSE 1 + ValueBytes(wide)

LengthsThere == (file.header - p) \div LengthBytes(file.wide)

Expanding == phase \in {"expand", "reexpand"}
Template == IF phase = "expand" THEN t ELSE rt
Listed == IF phase = "expand" THEN leaves ELSE index

\* The writer allows a leaf per cube of one unit, the reader one per length.
Limit ==
    IF phase = "expand" THEN Volume(root) \div (Unit * Unit * Unit)
    ELSE LengthsThere

ExpandFails ==
    /\ phase' = IF phase = "expand" THEN "refused" ELSE "rejected"
    /\ UNCHANGED <<stack, leaves, index>>

List(d) ==
    IF phase = "expand" THEN leaves' = Append(leaves, d) /\ UNCHANGED index
                        ELSE index' = Append(index, d) /\ UNCHANGED leaves

ExpandLeaf ==
    /\ Expanding /\ stack # <<>>
    /\ LET d == Head(stack).d IN
       /\ Template[Head(stack).node].tag = LeafTag
       /\ IF d.size[3] = 1 /\ LeafShape(d) /\ Len(Listed) < Limit
          THEN List(d) /\ stack' = Tail(stack) /\ UNCHANGED phase
          ELSE ExpandFails
    /\ UNCHANGED <<root, layout, auto, t, lengths, file, damaged, p, needed, rt, found, out>>

\* The parts of a repeat share a template; the second part of a cut has its own.
Jobs(d, i, s) ==
    [r \in DOMAIN Parts(d, s[i]) |->
        [d |-> Parts(d, s[i])[r],
         node |-> IF Cuts(s[i]) /\ r = 2 THEN Ends(s)[i + 1] ELSE i + 1]]

\* A slip: only what is listed counts, not what is pending.
FitsListed(k) == Len(Listed) + k <= Limit

\* Every pending domain will be a leaf at least: with k more they fit the limit.
Fits(k) == Len(Listed) + Len(Tail(stack)) + k <= Limit

ExpandNode ==
    /\ Expanding /\ stack # <<>>
    /\ LET job == Head(stack)
           node == Template[job.node]
       IN
       /\ node.tag # LeafTag
       /\ IF Divides(job.d, node) /\ Fits(Len(Parts(job.d, node)))
          THEN /\ stack' = Jobs(job.d, job.node, Template) \o Tail(stack)
               /\ UNCHANGED <<phase, leaves, index>>
          ELSE ExpandFails
    /\ UNCHANGED <<root, layout, auto, t, lengths, file, damaged, p, needed, rt, found, out>>

FinishExpand ==
    /\ phase = "expand" /\ stack = <<>>
    /\ phase' = "encode"
    /\ UNCHANGED <<root, layout, auto, t, stack, leaves, lengths, file, damaged, p, needed,
                   rt, index, found, out>>

-----------------------------------------------------------------------------
(* Payloads and header.                                                    *)

EncodeLeaf ==
    /\ phase = "encode" /\ Len(lengths) < Len(leaves)
    /\ \E length \in Lengths : lengths' = Append(lengths, length)
    /\ UNCHANGED <<root, layout, auto, phase, t, stack, leaves, file, damaged, p, needed,
                   rt, index, found, out>>

\* A slip: a leaf of the volume's width is taken to start at its left edge, plane
\* by plane.
PlaceFullWidth(lay, r, d, i) ==
    LET field == r.size[0] * r.size[1] * r.size[2]
        q == d.at[0] * r.size[1] * r.size[2] + i
    IN IF lay = 0 THEN q + d.at[3] * field ELSE q * r.size[3] + d.at[3]

\* Where voxel i of a leaf lies in a volume r of the given layout.
Place(lay, r, d, i) ==
    LET z == d.at[0] + i \div (d.size[1] * d.size[2])
        y == d.at[1] + ((i \div d.size[2]) % d.size[1])
        x == d.at[2] + (i % d.size[2])
        q == (z * r.size[1] + y) * r.size[2] + x
        field == r.size[0] * r.size[1] * r.size[2]
    IN IF lay = 0 /\ \A a \in 0 .. 2 : d.at[a] = 0 /\ d.size[a] = r.size[a]
       THEN d.at[3] * field + i
       ELSE IF lay = 0 THEN q + d.at[3] * field
       ELSE q * r.size[3] + d.at[3]

\* What a value is counted in on the wire: units for a spatial cut.
Scale(tag) == IF tag < 3 THEN Unit ELSE 1

NeedsWide ==
    \/ root.size[3] > NarrowField
    \/ \E a \in 0 .. 2 : root.size[a] \div Unit > NarrowField
    \/ \E i \in DOMAIN t : t[i].value \div Scale(t[i].tag) > NarrowField
    \/ \E i \in DOMAIN lengths : lengths[i] > NarrowLength

HeaderBytes(wide) ==
    PrefixBytes(wide) + SumFunction([i \in DOMAIN t |-> NodeBytes(wide, t[i])])
    + LengthBytes(wide) * Len(lengths)

Stored(wide, v) == IF wide THEN v - 1 ELSE (v - 1) % NarrowField
StoredLength(wide, v) == IF wide THEN v ELSE v % (NarrowLength + 1)

\* A narrow header that comes out too long is written again, wide.
ChosenWidth == NeedsWide \/ HeaderBytes(FALSE) > NarrowHeader

WriteFile ==
    LET wide == ChosenWidth
        header == HeaderBytes(wide)
    IN
    /\ phase = "encode" /\ Len(lengths) = Len(leaves)
    /\ file' = [wide |-> wide,
                header |-> IF wide THEN header ELSE header % (NarrowHeader + 1),
                layout |-> layout,
                shape |-> [a \in Axes |-> Stored(wide, root.size[a] \div Grain(a))],
                nodes |-> [i \in DOMAIN t |->
                    IF t[i].tag = LeafTag THEN t[i]
                    ELSE [tag |-> t[i].tag,
                          value |-> Stored(wide, t[i].value \div Scale(t[i].tag))]],
                lengths |-> [i \in DOMAIN lengths |->
                                StoredLength(wide, lengths[i])],
                object |-> header + SumFunction(lengths)]
    /\ phase' = "read"
    /\ p' = PrefixBytes(wide)
    /\ UNCHANGED <<root, layout, auto, t, stack, leaves, lengths, damaged, needed,
                   rt, index, found, out>>

\* The environment: a length is lost from the header, or the value of a node
\* changes.  (Nothing in the format detects every such change.)
DamageFile ==
    /\ phase = "read" /\ rt = <<>> /\ ~damaged
    /\ damaged' = TRUE
    /\ \/ LET bytes == LengthBytes(file.wide) IN
          file' = [file EXCEPT !.lengths = Tail(@), !.header = @ - bytes,
                               !.object = @ - bytes]
       \/ \E i \in DOMAIN file.nodes, v \in 0 .. NarrowField - 1 :
             /\ file.nodes[i].tag # LeafTag
             /\ file' = [file EXCEPT !.nodes[i].value = v]
    /\ UNCHANGED <<root, layout, auto, phase, t, stack, leaves, lengths, p, needed,
                   rt, index, found, out>>

-----------------------------------------------------------------------------
(* Reading: vc_index_read and vc_indexed_decode.                           *)

MinHeader(wide) == IF wide THEN 34 ELSE 16

\* The header is there and holds the prefix.
HeaderThere ==
    /\ file.header >= MinHeader(file.wide)
    /\ file.header <= file.object

\* The root as the reader sees it.
ReadRoot ==
    [at |-> [a \in Axes |-> 0],
     size |-> [a \in Axes |-> (file.shape[a] + 1) * Grain(a)]]

ReadNode ==
    /\ phase = "read" /\ needed > 0
    /\ LET node == file.nodes[Len(rt) + 1]
           next == p + NodeBytes(file.wide, node)
           more == needed - 1 + (IF node.tag = LeafTag THEN 0
                                 ELSE IF Cuts(node) THEN 2 ELSE 1)
       IN
       IF HeaderThere /\ next <= file.header /\ more <= file.header - next
       THEN /\ rt' = Append(rt,
                        IF node.tag = LeafTag THEN node
                        ELSE [tag |-> node.tag,
                              value |-> (node.value + 1) * Scale(node.tag)])
            /\ p' = next /\ needed' = more
            /\ UNCHANGED phase
       ELSE phase' = "rejected" /\ UNCHANGED <<rt, p, needed>>
    /\ UNCHANGED <<root, layout, auto, t, stack, leaves, lengths, file, damaged, index,
                   found, out>>

FinishRead ==
    /\ phase = "read" /\ needed = 0
    /\ IF /\ WholeTree(rt)
          /\ (file.header - p) % LengthBytes(file.wide) = 0 /\ LengthsThere > 0
       THEN phase' = "reexpand" /\ stack' = <<[d |-> ReadRoot, node |-> 1]>>
       ELSE phase' = "rejected" /\ UNCHANGED stack
    /\ UNCHANGED <<root, layout, auto, t, leaves, lengths, file, damaged, p, needed, rt,
                   index, found, out>>

\* The lengths are one per leaf, none too small, and end with the file.
FinishIndex ==
    /\ phase = "reexpand" /\ stack = <<>>
    /\ phase' = IF /\ Len(index) = Limit
                   /\ \A i \in DOMAIN file.lengths : file.lengths[i] >= 4
                   /\ file.header + SumFunction(file.lengths) = file.object
                THEN "decode" ELSE "rejected"
    /\ UNCHANGED <<root, layout, auto, t, stack, leaves, lengths, file, damaged, p, needed,
                   rt, index, found, out>>

\* The payload that starts where the reader looks for leaf i: the lengths before it
\* add up alike.
PayloadAt(i) ==
    LET before(s) == SumFunctionOnSet(s, 1 .. i-1)
    IN IF before(file.lengths) = before(lengths) /\ file.lengths[i] = lengths[i]
       THEN i ELSE 0

\* The leaf codec takes back what it wrote for a leaf of this shape; each voxel goes
\* to its place in the output.
Scatter(d, source) ==
    LET voxels == 0 .. Volume(d) - 1
        to == [i \in voxels |-> Place(file.layout, ReadRoot, d, i)]
        filled == {to[i] : i \in voxels}
    IN [x \in DOMAIN out |->
          IF x \in filled
          THEN Place(layout, root, source, CHOOSE i \in voxels : to[i] = x)
          ELSE out[x]]

DecodeLeaf ==
    /\ phase = "decode" /\ found < Len(index)
    /\ LET d == index[found + 1]
           j == PayloadAt(found + 1)
       IN IF j # 0 /\ leaves[j].size = d.size
          THEN /\ out' = Scatter(d, leaves[j])
               /\ found' = found + 1
               /\ phase' = IF found' = Len(index) THEN "done" ELSE phase
          ELSE phase' = "rejected" /\ UNCHANGED <<out, found>>
    /\ UNCHANGED <<root, layout, auto, t, stack, leaves, lengths, file, damaged, p, needed,
                   rt, index>>

Next ==
    \/ PlanNode \/ PlanMiscounts \/ FinishPlan
    \/ ExpandLeaf \/ ExpandNode \/ FinishExpand
    \/ EncodeLeaf \/ WriteFile
    \/ DamageFile
    \/ ReadNode \/ FinishRead \/ FinishIndex \/ DecodeLeaf

Spec == Init /\ [][Next]_vars

\* Bound on the state space: at most one leaf is longer than the others.
OneLong == Cardinality({i \in DOMAIN lengths : lengths[i] > NarrowLength}) <= 1

-----------------------------------------------------------------------------
\* Domains listed or still to expand.
Parcels ==
    Listed \o [i \in DOMAIN stack |-> stack[i].d]

\* While either side expands, its leaves and its pending domains divide the root
\* it knows: no voxel of a channel is lost or coded twice, whatever the template.
ExpansionPartitions ==
    Expanding =>
        LET r == IF phase = "expand" THEN root ELSE ReadRoot IN
        /\ \A i, j \in DOMAIN Parcels : i # j => Disjoint(Parcels[i], Parcels[j])
        /\ \A i \in DOMAIN Parcels : Inside(Parcels[i], r)
        /\ SumFunction([i \in DOMAIN Parcels |-> Volume(Parcels[i])]) = Volume(r)

\* Leaves and pending domains never outnumber the limit, so the reader's memory is
\* bounded by the lengths that are really in the file, also when its template asks
\* for more.
ExpansionBounded == Expanding => Len(Listed) + Len(stack) <= Limit

\* What passes planning is expanded, written, read and decoded, the bounds on both
\* expansions and the checks of the reader notwithstanding; and every root can be
\* planned without a caller's plan.
PlannedIsReadable ==
    /\ phase # "refused"
    /\ phase = "unplanned" => ~auto
    /\ phase = "rejected" => damaged

\* The decoder's output is the encoder's input, voxel by voxel in its layout.
OutputIsInput ==
    phase = "done" /\ ~damaged => \A x \in DOMAIN out : out[x] = x
=============================================================================
