---------------------------- MODULE DeltaFilter -----------------------------
(***************************************************************************)
(* One field of a legacy frame: rounded to multiples of a width if asked   *)
(* for, replaced by its differences along the axes of a mask, in place,    *)
(* and restored.  Which mask is chosen is floating point and left open.    *)
(* The entropy code between the two gives back the bytes (LaneRans).       *)
(***************************************************************************)
EXTENDS Integers, Sequences, FiniteSetsExt

CONSTANTS
    Top,     \* the largest element (255 or 65535)
    Widths,  \* of the rounding
    Fields   \* shapes and elements: [z, y, x, wide, data]

Cells(f) == 0 .. f.z * f.y * f.x - 1

ASSUME TopAssumption == Top \in Nat
ASSUME WidthsAssumption == Widths \subseteq 1 .. Top
ASSUME FieldsAssumption ==
    \A f \in Fields : /\ f.z \in Nat \ {0} /\ f.y \in Nat \ {0} /\ f.x \in Nat \ {0}
                      /\ f.wide \in BOOLEAN /\ f.data \in [Cells(f) -> 0 .. Top]

VARIABLES
    pc,
    field,   \* what the caller passes
    width,   \* of the rounding; 1 is none
    mask,    \* the axes along which there are differences
    data,    \* the buffer both directions work in
    passes,  \* the axes still to be gone along, the present one first
    todo     \* the elements the present pass has still to change

filterVars == <<pc, field, width, mask, data, passes, todo>>

Axes == {"z", "y", "x"}

-----------------------------------------------------------------------------
(* Rounding. *)

\* A slip: what rounds up past the top wraps.
RoundedWrapping(v, w) == (((v + w \div 2) \div w) * w) % (Top + 1)

\* vc_delta_quantize_u8, vc_delta_quantize_u16
Rounded(v, w) == Min({((v + w \div 2) \div w) * w, Top})

Quantized(g, w) == [c \in DOMAIN g |-> IF w > 1 THEN Rounded(g[c], w) ELSE g[c]]

-----------------------------------------------------------------------------
(* Passes.  A pass goes from block to block; the elements of a block but   *)
(* the first Stride have a predecessor Stride before them.                 *)

Stride(a) == CASE a = "z" -> field.y * field.x [] a = "y" -> field.x [] a = "x" -> 1
Block(a) == CASE a = "z" -> field.z * field.y * field.x
              [] a = "y" -> field.y * field.x
              [] a = "x" -> field.x

Changing(a) == {c \in Cells(field) : c % Block(a) >= Stride(a)}

Ascending(a, c, e) == c < e
Descending(a, c, e) == \/ c \div Block(a) < e \div Block(a)
                       \/ c \div Block(a) = e \div Block(a) /\ c > e

\* Slips: a direction goes through the elements in the order of the other one.
FilterAscending(a, c, e) == Ascending(a, c, e)
UnfilterDescending(a, c, e) == Descending(a, c, e)

\* Whether a pass changes c before e: "Descending filter passes read unmodified
\* predecessors; the inverse ascends."
FilterOrder(a, c, e) == Descending(a, c, e)
UnfilterOrder(a, c, e) == Ascending(a, c, e)

Pass(a, m) == IF a \in m THEN <<a>> ELSE <<>>
FilterPasses(m) == Pass("z", m) \o Pass("y", m) \o Pass("x", m)
UnfilterPasses(m) == Pass("x", m) \o Pass("y", m) \o Pass("z", m)

Enter(ps) ==
    /\ passes' = ps
    /\ todo' = IF ps = <<>> THEN {} ELSE Changing(Head(ps))

-----------------------------------------------------------------------------
\* Only bytes with at least two elements along each axis have their mask chosen.
Masks(f) == IF ~f.wide /\ f.z >= 2 /\ f.y >= 2 /\ f.x >= 2 THEN SUBSET Axes ELSE {Axes}

Quantize ==
    /\ pc = "idle"
    /\ data' = Quantized(field.data, width)
    /\ pc' = "mask"
    /\ UNCHANGED <<field, width, mask, passes, todo>>

SelectMask ==
    /\ pc = "mask"
    /\ mask' \in Masks(field)
    /\ Enter(FilterPasses(mask'))
    /\ pc' = "filter"
    /\ UNCHANGED <<field, width, data>>

Change(c, value) ==
    /\ data' = [data EXCEPT ![c] = value % (Top + 1)]
    /\ todo' = todo \ {c}
    /\ UNCHANGED <<pc, field, width, mask, passes>>

Predecessor(c) == data[c - Stride(Head(passes))]

Filter ==
    /\ pc = "filter"
    /\ \E c \in todo :
          /\ \A e \in todo \ {c} : FilterOrder(Head(passes), c, e)
          /\ Change(c, data[c] - Predecessor(c))

Unfilter ==
    /\ pc = "unfilter"
    /\ \E c \in todo :
          /\ \A e \in todo \ {c} : UnfilterOrder(Head(passes), c, e)
          /\ Change(c, data[c] + Predecessor(c))

NextPass ==
    /\ pc \in {"filter", "unfilter"} /\ todo = {} /\ passes # <<>>
    /\ Enter(Tail(passes))
    /\ UNCHANGED <<pc, field, width, mask, data>>

Decode ==
    /\ pc = "filter" /\ passes = <<>>
    /\ Enter(UnfilterPasses(mask))
    /\ pc' = "unfilter"
    /\ UNCHANGED <<field, width, mask, data>>

FilterInit ==
    /\ pc = "idle"
    /\ field \in Fields /\ width \in {1} \cup Widths /\ mask = {} /\ data = <<>>
    /\ passes = <<>> /\ todo = {}

FilterNext == Quantize \/ SelectMask \/ Filter \/ Unfilter \/ NextPass \/ Decode

FilterSpec == FilterInit /\ [][FilterNext]_filterVars

-----------------------------------------------------------------------------
(* Properties. *)

\* The decoder restores the rounded field, for every shape, rows and slices of
\* one element included (vc_delta_unfilter_u8 undoes vc_delta_filter_u8).
FieldRestored == pc = "unfilter" /\ passes = <<>> => data = Quantized(field.data, width)

Along(a, c) == CASE a = "z" -> c \div (field.y * field.x)
                 [] a = "y" -> (c \div field.x) % field.y
                 [] a = "x" -> c % field.x

\* The sum vc_delta_select_mask takes of a cell and those before it along the axes
\* of the mask, with alternating signs; a cell outside of the field is 0.
Mixed(g, c) ==
    LET At(as, back) == IF as \subseteq mask /\ \A a \in as : Along(a, c) >= 1
                        THEN g[c - back] ELSE 0
        x == Stride("x")  y == Stride("y")  z == Stride("z")
    IN  (At({}, 0) - At({"x"}, x) - At({"y"}, y) - At({"z"}, z)
         + At({"x", "y"}, x + y) + At({"x", "z"}, x + z) + At({"y", "z"}, y + z)
         - At({"x", "y", "z"}, x + y + z)) % (Top + 1)

\* The passes, in place and one after the other, make of every cell just the
\* value whose distribution the mask was chosen by (delta_filter.c:107).
FilteredAsSampled ==
    pc = "filter" /\ passes = <<>> =>
        \A c \in Cells(field) : data[c] = Mixed(Quantized(field.data, width), c)

\* Rounding moves no element by more than half the width, at the top either, and
\* a field that is rounded already, as vc_quantize leaves it, stays as it is.
RoundingStable ==
    pc = "mask" => /\ \A c \in Cells(field) : /\ data[c] - field.data[c] <= width \div 2
                                              /\ field.data[c] - data[c] <= width \div 2
                   /\ Quantized(data, width) = data
=============================================================================
