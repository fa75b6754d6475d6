------------------------------ MODULE MCFrames ------------------------------
(* Frames with a grid of 2 for 32, leaves up to 2 on a side, sizes of 7 bits, *)
(* and options of every form, valid and not.                                  *)
EXTENDS Frames

Shapes == {<<1, 1, 1>>, <<1, 2, 3>>, <<2, 2, 2>>, <<2, 2, 4>>, <<4, 4, 4>>, <<0, 2, 2>>}
MCOptions ==
    [dims : Shapes, channels : 0 .. 3, layout : {0, 1}, element : {1, 2},
     width : {0, 1, 5}, preset : {1, 2, 3}]
=============================================================================
