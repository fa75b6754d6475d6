---------------------------- MODULE MCHeaderPool ----------------------------
(* HeaderPool with bytes of 3 bits and words of 6: headers of every kind of   *)
(* section, with words of every size, at every limit of the schema, and       *)
(* headers that must not pass.                                                *)
EXTENDS HeaderPool

\* A model with K = 2 and no taps has 5 words.
ModelOf(words) == [r |-> 0, K |-> 2, words |-> words]
Menus ==
    {<<[model |-> NoModel, bank |-> 0, weight |-> 0]>>,
     <<[model |-> 0, bank |-> 1, weight |-> 9],
       [model |-> NoModel, bank |-> 0, weight |-> 0]>>}
Frame(models, menu, empty, thresholds, table) ==
    [shape |-> 7, models |-> models, choices |-> menu, empty |-> empty, r |-> 1,
     classes |-> Len(thresholds) + 1, thresholds |-> thresholds, table |-> table]

\* words that are labels, that carry one to five bits, and 0 among them.
Weights == {<<a, b, c, d, 0>> : a, b \in {0, 1, 5}, c \in {0, 3, 37}, d \in {0, 63}}
MCFrames ==
    {Frame(<<ModelOf(q)>>, m, e, <<4>>, <<0, 20, 12>>) :
        q \in Weights, m \in Menus, e \in BOOLEAN}
    \cup {Frame(<<>>, <<[model |-> NoModel, bank |-> 0, weight |-> 0]>>, e, t, f) :
        e \in BOOLEAN, t \in {<<0>>, <<1, 2>>, <<6, 63>>},
        f \in {<<32, 0, 0>>, <<0, 1, 31>>, <<10, 11, 11>>}}
    \cup {Frame(<<ModelOf(<<1, 0, 0, 0, 0>>), ModelOf(<<0, 0, 0, 0, 0>>)>>,
                <<[model |-> 1, bank |-> 1, weight |-> 1]>>, FALSE, t, <<0, 0, 32>>) :
        t \in {<<2>>, <<3, 60>>}}

\* One number changed, one left out at the end, one too many.
Sample ==
    Native(Frame(<<ModelOf(<<1, 0, 5, 0, 0>>)>>,
                 <<[model |-> 0, bank |-> 0, weight |-> 9]>>, FALSE, <<4>>, <<0, 20, 12>>))
MCOthers ==
    {[Sample EXCEPT ![i] = @ + 1] : i \in DOMAIN Sample}
    \cup {Front(Sample), Append(Sample, 0)}
=============================================================================
