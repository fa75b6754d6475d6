----------------------------- MODULE LeafFrame ------------------------------
(***************************************************************************)
(* The frame of a leaf, from a policy to the wave decoder.  A policy       *)
(* settles a canonical id for every block: a predictor (0 to 11), or       *)
(* 12 k + predictor for its k-th fitted model.  It turns the ids into      *)
(* models, a menu of choices and a selector for every block; the frame     *)
(* encoder checks and writes these; the frame decoder renumbers the models *)
(* that are used and makes selectors of canonical form from the menu.      *)
(* Symbols, thresholds and the payload are left out: what a block's        *)
(* payload needs is the number of its first table.                         *)
(***************************************************************************)
EXTENDS Integers, FiniteSets, Sequences, SequencesExt

CONSTANTS
    NB,            \* blocks of a leaf
    Plain,         \* predictors the search may use without a model
    Fits,          \* fitted models (params, size and weights)
    PredictorOf,   \* the predictor a fit assists
    None           \* nothing: no fit, no weights, no frame

ASSUME BlocksAssumption == NB \in Nat \ {0}
ASSUME PlainAssumption == Plain \subseteq 0 .. 11
ASSUME FitsAssumption == IsFiniteSet(Fits) /\ PredictorOf \in [Fits -> 0 .. 11]

Blocks == 1 .. NB
ZeroPredictor == 12
NoModel == 255
MaxModels == 4
MaxChoices == 60
MaxTables == 128
FrameBanks == 4   \* what vc_ng_frame_encode_zeros allows
MaxBank == 16
K == 16           \* classes, the same in every policy

VARIABLES
    pc,
    fits,    \* the policy's models, in the order of its canonical ids
    ids,     \* the canonical id its symbols were computed with, by block
    empty,   \* blocks without a voxel other than 0
    call,    \* what the frame encoder is given
    frame,   \* what it wrote
    menu,    \* the decoder's menu, rewritten on the way
    states,  \* the models the decoder has set up, in its own order
    weights, \* its weights by 12 * model + predictor
    chosen   \* its selectors in canonical form and banks, by block

frameVars == <<pc, fits, ids, empty, call, frame, menu, states, weights, chosen>>

-----------------------------------------------------------------------------
(* Menus. *)

Choice(p, m, bank, w) ==
    [predictor |-> p, model |-> m, entropy |-> bank, weights |-> w]
ZeroChoice(bank) == Choice(ZeroPredictor, NoModel, bank, None)

FitOf(fs, id) == IF id < 12 THEN None ELSE fs[id \div 12]

\* Weights are given only where a predictor and a model are combined.
Weights(fs, id) == IF id % 12 = 0 THEN None ELSE FitOf(fs, id)

\* How a block with this canonical id is coded.
Coding(fs, id) == [predictor |-> id % 12, fit |-> FitOf(fs, id), weights |-> Weights(fs, id)]

Codings == [predictor : 0 .. 11, fit : Fits \cup {None}, weights : Fits \cup {None}]

ASSUME NoneAssumption ==
    None \notin Fits /\ None \notin [Blocks -> Codings]

\* The menu lists ids in the order in which the blocks of bs meet them.
Firsts(bs, of) == {b \in bs : \A c \in bs : c < b => of[c] # of[b]}
FirstOf(bs, of, b) == Min({c \in bs : of[c] = of[b]})

Rank(S, i) == Cardinality({j \in S : j < i})
Nth(S, n) == CHOOSE i \in S : Rank(S, i) = n - 1
Listed(bs, of) ==
    [n \in 1 .. Cardinality(Firsts(bs, of)) |-> Nth(Firsts(bs, of), n)]
Place(bs, of, b) == Rank(Firsts(bs, of), FirstOf(bs, of, b))

-----------------------------------------------------------------------------
(* Policies. *)

Fitted(fs, models, m, sel, zeros) ==
    [models |-> models, menu |-> m, selectors |-> sel, zeros |-> zeros]

\* vc_ng_fast_encode: one predictor, with or without a model, and a choice of
\* its own for empty blocks.
FastMenu(fs, of, void) ==
    LET Model(id) == IF id >= 12 THEN 0 ELSE NoModel
        first == Listed(Blocks, of)
        listed == [i \in 1 .. Len(first) |->
            Choice(of[first[i]] % 12, Model(of[first[i]]), 0, Weights(fs, of[first[i]]))]
    IN  Fitted(fs, fs,
               listed \o (IF void = {} THEN <<>> ELSE <<ZeroChoice(1)>>),
               [b \in Blocks |-> IF b \in void THEN Len(listed) ELSE Place(Blocks, of, b)],
               {})

FastIds(seed, void) == [b \in Blocks |-> IF b \in void THEN 0 ELSE seed]

Fast(void) ==
    \E p \in Plain, f \in Fits \cup {None} :
        /\ f # None => PredictorOf[f] = p
        /\ fits' = IF f = None THEN <<>> ELSE <<f>>
        /\ ids' = FastIds(IF f = None THEN p ELSE 12 + p, void)
        /\ call' = FastMenu(fits', ids', void)

\* vc_ng_medium_encode: plain NG, no prediction and a third choice, or one of them alone.
MediumMenu(fs, third, assisted) ==
    <<Choice(0, 0, 0, None), Choice(0, NoModel, 1, None),
      Choice(third, IF assisted THEN 1 ELSE NoModel, 2,
             IF assisted THEN fs[2] ELSE None)>>

MediumIds(third, assisted) == <<12, 0, IF assisted THEN 24 + third ELSE third>>

Medium(void) ==
    \E f, g \in Fits, third \in Plain \ {0}, assisted \in BOOLEAN :
        /\ f # g /\ PredictorOf[f] = 0
        /\ assisted => PredictorOf[g] = third
        /\ fits' = IF assisted THEN <<f, g>> ELSE <<f>>
        /\ \E sel \in [Blocks -> 0 .. 2] :
             /\ ids' = [b \in Blocks |->
                          IF b \in void THEN 0 ELSE MediumIds(third, assisted)[sel[b] + 1]]
             /\ \A b \in void : sel[b] = 1
             /\ call' = Fitted(fits', fits', MediumMenu(fits', third, assisted), sel, void)

\* Its second trial: the screen's favourite for every block.
SingleMenu(fs, singleton, third, assisted) ==
    LET fitted == singleton = 0 \/ (singleton = 2 /\ assisted)
    IN  <<Choice(IF singleton = 2 THEN third ELSE 0, IF fitted THEN 0 ELSE NoModel, 0,
                 IF singleton = 2 /\ assisted THEN fs[2] ELSE None)>>

SingleModels(fs, singleton, assisted) ==
    CASE singleton = 0 -> <<fs[1]>>
      [] singleton = 2 /\ assisted -> <<fs[2]>>
      [] OTHER -> <<>>

MediumSingle(void) ==
    \E f, g \in Fits, third \in Plain \ {0}, assisted \in BOOLEAN, singleton \in 0 .. 2 :
        /\ f # g /\ PredictorOf[f] = 0
        /\ assisted => PredictorOf[g] = third
        /\ fits' = IF assisted THEN <<f, g>> ELSE <<f>>
        /\ ids' = FastIds(MediumIds(third, assisted)[singleton + 1], void)
        /\ call' = Fitted(fits', SingleModels(fits', singleton, assisted),
                          SingleMenu(fits', singleton, third, assisted),
                          [b \in Blocks |-> 0], void)

\* encode_plan: up to three candidates, of which models no block uses are dropped.
Candidates == Plain \cup Fits
PlanId(fs, c) == IF c \in Fits
                 THEN 12 * (CHOOSE k \in 1 .. Len(fs) : fs[k] = c) + PredictorOf[c]
                 ELSE c

Live(fs, of) == {k \in 1 .. Len(fs) : \E b \in Blocks : of[b] \div 12 = k}

\* A slip: a model keeps the number it had among all finalists.
RemapKept(fs, of, k) == k - 1

Remap(fs, of, k) == Rank(Live(fs, of), k)

SlowMenu(fs, of, void, many) ==
    LET listing == IF many THEN Blocks \ void ELSE Blocks
        first == Listed(listing, of)
        Model(id) == IF id < 12 THEN NoModel ELSE Remap(fs, of, id \div 12)
    IN  Fitted(fs, [m \in 1 .. Cardinality(Live(fs, of)) |-> fs[Nth(Live(fs, of), m)]],
               [i \in 1 .. Len(first) |->
                  Choice(of[first[i]] % 12, Model(of[first[i]]), IF many THEN i - 1 ELSE 0,
                         Weights(fs, of[first[i]]))],
               [b \in Blocks |-> IF b \in listing THEN Place(listing, of, b) ELSE 0],
               void)

Slow(void) ==
    \E plan \in SUBSET Candidates :
        /\ Cardinality(plan) \in 1 .. 3
        /\ fits' \in SetToSeqs(plan \cap Fits)
        /\ \E sel \in [Blocks -> plan] :
             ids' = [b \in Blocks |-> IF b \in void THEN 0 ELSE PlanId(fits', sel[b])]
        /\ call' = SlowMenu(fits', ids', void, Cardinality(plan) > 1)

\* vc_ng_frame_all_zero
AllZero == Fitted(<<>>, <<>>, <<ZeroChoice(0)>>, [b \in Blocks |-> 0], {})

Search ==
    /\ pc = "search"
    /\ empty' \in SUBSET Blocks
    /\ \/ /\ empty' = Blocks
          /\ fits' = <<>> /\ ids' = FastIds(0, {}) /\ call' = AllZero
       \/ empty' # Blocks /\ (Fast(empty') \/ Medium(empty') \/ MediumSingle(empty') \/ Slow(empty'))
    /\ pc' = "zeros"
    /\ UNCHANGED <<frame, menu, states, weights, chosen>>

-----------------------------------------------------------------------------
(* The frame encoder. *)

MenuBanks(m) == 1 + Max({m[i].entropy : i \in 1 .. Len(m)})

Valid(c, models) ==
    /\ c.predictor <= 12
    /\ c.model = NoModel \/ c.model < Len(models)
    /\ c.entropy < MaxBank
    /\ c.predictor = ZeroPredictor => c.model = NoModel /\ c.weights = None

\* vc_ng_frame_encode_zeros: empty blocks get the zero predictor, with tables of its own.
AppendZero ==
    LET bank == MenuBanks(call.menu)
        n == Len(call.menu)
        refused == call.zeros # {} /\ (n >= MaxChoices \/ bank >= FrameBanks)
    IN  /\ pc = "zeros"
        /\ call' = IF call.zeros = {} \/ refused THEN call
                   ELSE [call EXCEPT !.menu = Append(@, ZeroChoice(bank)),
                                     !.selectors = [b \in Blocks |->
                                        IF b \in call.zeros THEN n ELSE @[b]]]
        /\ pc' = IF refused THEN "refused" ELSE "encode"
        /\ UNCHANGED <<fits, ids, empty, frame, menu, states, weights, chosen>>

Of(m, selectors, b) == m[selectors[b] + 1]

AllZeros(m, selectors) == \A b \in Blocks : Of(m, selectors, b).predictor = ZeroPredictor

FirstTable(c) == K * c.entropy

\* vc_ng_frame_encode_shape
Encode ==
    LET n == Len(call.menu)
        tables == K * MenuBanks(call.menu)
        refused == \/ Len(call.models) > MaxModels \/ n \notin 1 .. MaxChoices
                   \/ \E i \in 1 .. n : ~Valid(call.menu[i], call.models)
                   \/ tables > MaxTables
                   \/ \E b \in Blocks : call.selectors[b] >= n
        zeros == AllZeros(call.menu, call.selectors)
    IN  /\ pc = "encode"
        /\ frame' = IF refused THEN None ELSE
             [models |-> call.models, menu |-> call.menu, selectors |-> call.selectors,
              tables |-> IF zeros THEN 0 ELSE tables,
              payload |-> IF zeros THEN <<>>
                          ELSE [b \in Blocks |-> FirstTable(Of(call.menu, call.selectors, b))]]
        /\ pc' = IF refused THEN "refused" ELSE "read"
        /\ UNCHANGED <<fits, ids, empty, call, menu, states, weights, chosen>>

-----------------------------------------------------------------------------
(* The frame decoder, vc_ng_leaf_decode. *)

\* A slip: the decoder counts banks of used choices only.
UsedBanks(f) == 1 + Max({Of(f.menu, f.selectors, b).entropy : b \in Blocks})

DecoderBanks(f) == MenuBanks(f.menu)

\* The classes of a bank follow from the tables in the entropy header.
DecoderK(f) == f.tables \div DecoderBanks(f)

Used(f) == {f.selectors[b] + 1 : b \in Blocks}

Naming(f) == {i \in Used(f) : f.menu[i].model # NoModel}
ModelOf(f) == [i \in Naming(f) |-> f.menu[i].model]

\* Models are numbered in the order in which used choices name them.
Renumbered(f) ==
    [i \in 1 .. Len(f.menu) |->
        [f.menu[i] EXCEPT !.model = IF i \in Naming(f) THEN Place(Naming(f), ModelOf(f), i)
                                    ELSE NoModel]]

SetUp(f) == LET first == Listed(Naming(f), ModelOf(f))
            IN  IF first = <<>> THEN <<None>>   \* the empty model, for its geometry
                ELSE [k \in 1 .. Len(first) |-> f.models[ModelOf(f)[first[k]] + 1]]

Readable(f) == /\ \A i \in 1 .. Len(f.menu) : Valid(f.menu[i], f.models)
               /\ \A b \in Blocks : f.selectors[b] < Len(f.menu)

ReadZeros ==
    /\ pc = "read"
    /\ AllZeros(frame.menu, frame.selectors)
    /\ pc' = IF Readable(frame) /\ frame.tables = 0 THEN "done" ELSE "refused"
    /\ chosen' = [b \in Blocks |-> [id |-> 0, bank |-> 0]]
    /\ UNCHANGED <<fits, ids, empty, call, frame, menu, states, weights>>

ReadModels ==
    /\ pc = "read"
    /\ ~AllZeros(frame.menu, frame.selectors)
    /\ menu' = Renumbered(frame)
    /\ states' = SetUp(frame)
    /\ pc' = IF /\ Readable(frame)
                /\ frame.tables % DecoderBanks(frame) = 0 /\ DecoderK(frame) \in 2 .. 32
             THEN "weigh" ELSE "refused"
    /\ UNCHANGED <<fits, ids, empty, call, frame, weights, chosen>>

WeightId(c) == 12 * c.model + c.predictor

\* Each predictor of a model has one pair of weights; slots no choice names get
\* those of the model's first named predictor.
Weigh ==
    LET naming == {c \in Range(menu) : c.model # NoModel}
        named == {WeightId(c) : c \in naming}
        Own(id) == IF id \in named THEN (CHOOSE c \in naming : WeightId(c) = id).weights
                   ELSE None
        Reference(k) == LET assisted == {m \in 1 .. 11 : 12 * k + m \in named}
                        IN  12 * k + IF assisted = {} THEN 0 ELSE Min(assisted)
        conflict == \E c, d \in naming : WeightId(c) = WeightId(d) /\ c.weights # d.weights
    IN  /\ pc = "weigh"
        /\ weights' = [id \in 0 .. 12 * Len(states) - 1 |->
                          IF id \in named \/ id % 12 = 0 THEN Own(id)
                          ELSE Own(Reference(id \div 12))]
        /\ pc' = IF conflict THEN "refused" ELSE "rewrite"
        /\ UNCHANGED <<fits, ids, empty, call, frame, menu, states, chosen>>

\* A slip: a choice without a model, whatever its predictor, becomes plain 0.
CanonicalWithoutPlain(c) ==
    IF c.predictor = ZeroPredictor \/ c.model = NoModel THEN 0 ELSE 12 + WeightId(c)

Canonical(c) == CASE c.predictor = ZeroPredictor -> 0
                  [] c.predictor # ZeroPredictor /\ c.model = NoModel -> c.predictor
                  [] OTHER -> 12 + WeightId(c)

Rewrite ==
    /\ pc = "rewrite"
    /\ chosen' = [b \in Blocks |->
          LET c == Of(menu, frame.selectors, b)
          IN  [id |-> Canonical(c), bank |-> IF DecoderBanks(frame) > 1 THEN c.entropy ELSE 0]]
    /\ pc' = "done"
    /\ UNCHANGED <<fits, ids, empty, call, frame, menu, states, weights>>

\* What the wave decoder makes of a selector.
Understood(id) ==
    IF id < 12 THEN [predictor |-> id, fit |-> None, weights |-> None]
    ELSE [predictor |-> id % 12, fit |-> states[id \div 12],
          weights |-> IF id % 12 = 0 THEN None ELSE weights[id - 12]]

-----------------------------------------------------------------------------
FrameInit ==
    /\ pc = "search"
    /\ fits = <<>> /\ ids = <<>> /\ empty = {} /\ call = None /\ frame = None
    /\ menu = <<>> /\ states = <<>> /\ weights = <<>> /\ chosen = <<>>

FrameNext == Search \/ AppendZero \/ Encode \/ ReadZeros \/ ReadModels \/ Weigh \/ Rewrite

FrameSpec == FrameInit /\ [][FrameNext]_frameVars

-----------------------------------------------------------------------------
(* Properties. *)

Coded == IF pc = "search" THEN None ELSE [b \in Blocks |-> Coding(fits, ids[b])]
Decoded == IF pc = "done" THEN [b \in Blocks |-> Understood(chosen[b].id)] ELSE None

\* Every block is decoded with the predictor, the model and the weights its
\* symbols were computed with, though models are dropped and renumbered twice,
\* choices merged, and ids made anew from menu and selectors (ng_slow.c:263 to
\* ng_frame_decode.c:95); the frame implements BlockCodec.
Promise == INSTANCE BlockCodec WITH plan <- Coded, decoded <- Decoded
ImplementsBlockCodec == Promise!Spec

\* The classes of a block lie in the same tables for both sides: the encoder
\* adds K times the bank (ng_frame_encode.c:114), the decoder divides the tables
\* of the header among the banks of the menu (ng_frame_decode.c:57).
TablesAgree ==
    pc = "done" /\ frame.tables > 0 =>
        \A b \in Blocks : /\ DecoderK(frame) * chosen[b].bank = frame.payload[b]
                          /\ frame.payload[b] + K <= frame.tables

\* No menu of a policy is refused, on either side: not for want of a bank for
\* empty blocks (ng_frame_encode.c:52), nor for two weights of one predictor of a
\* model, which the decoder rejects (ng_frame_decode.c:80) and the encoder never checks.
NeverRefused == pc # "refused"
=============================================================================
