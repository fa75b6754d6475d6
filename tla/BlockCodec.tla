----------------------------- MODULE BlockCodec -----------------------------
(* What a leaf frame promises: every block is decoded with the predictor, the *)
(* fitted model and the weights the encoder's policy coded it with.           *)
CONSTANTS Blocks,   \* of a leaf
          Codings,  \* the ways a block can be coded
          None      \* not decided yet

VARIABLES plan,    \* how the encoder coded each block
          decoded  \* how the decoder decodes each block

Init == plan = None /\ decoded = None

\* A policy settles how the blocks are coded.
Decide ==
    /\ plan = None
    /\ plan' \in [Blocks -> Codings]
    /\ UNCHANGED decoded

Decode ==
    /\ plan # None /\ decoded = None
    /\ decoded' = plan
    /\ UNCHANGED plan

Next == Decide \/ Decode

Spec == Init /\ [][Next]_<<plan, decoded>>
=============================================================================
