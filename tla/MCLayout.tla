------------------------------- MODULE MCLayout -------------------------------
(* Layout on a small instance: see layout.cfg.                             *)
EXTENDS Layout, TLC

(* BOOL, F4, F16, F32, I64: the order and widths of Dtype                  *)
MCBitSize == <<8, 4, 16, 32, 64>>

Shapes == {<<>>, <<2>>, <<3>>, <<0>>, <<1, 2>>}

(* The bytes a caller hands over are those of the shape, or one more: a    *)
(* Python caller states shape and bytes separately.                        *)
Tensor(name, d, shape, extra) ==
    [name |-> name, dtype |-> d, shape |-> shape,
     bytes |-> extra + ((MCBitSize[d] * Product(shape)) \div 8)]

Some == {Tensor(x, d, s, 0) : x \in {1, 2}, d \in {1, 3, 5}, s \in {<<>>, <<3>>, <<0>>}}
Odd  == {Tensor(x, 2, s, e) : x \in {1, 3}, s \in Shapes, e \in {0, 1}}
Few  == {Tensor(3, d, s, 0) : d \in {1, 4}, s \in {<<1, 2>>, <<0>>}}

MCInputs ==
    {<<>>} \cup {<<t>> : t \in Some \cup Odd}
    \cup {<<t, u>> : t \in Some, u \in Some \cup Odd}
    \cup {<<t, u, v>> : t \in Some, u \in Some, v \in Few}

(* Entries other writers may have made: any spans, and shapes whose        *)
(* products do not fit in 64, among them ones that wrap to a small number. *)
Info(d, s, a, b) == [dtype |-> d, shape |-> s, from |-> a, to |-> b]
Infos ==
    {Info(1, s, a, b) : s \in {<<2>>, <<0>>, <<8, 8>>, <<13, 5>>}, a \in 0..2, b \in 0..4}
    \cup {Info(2, s, a, b) : s \in {<<2>>, <<3>>}, a \in 0..2, b \in {0, 1, 2}}
    \cup {Info(1, <<2, 23>>, a, b) : a \in {0, 2}, b \in {46, 48}}
    \cup {Info(1, <<14>>, 46, 60), Info(1, <<60>>, 0, 60), Info(1, <<2>>, 62, 64)}
FewInfos == {Info(1, s, a, b) : s \in {<<>>, <<2>>, <<0>>}, a \in 0..3, b \in {0, 1, 2, 3, 4}}

Maps == {<<>>} \cup [{1} -> Infos] \cup [{1, 2} -> Infos] \cup
        {1 :> i @@ 2 :> Info(1, <<2>>, a, a + 2) @@ 3 :> j :
            i \in FewInfos, j \in FewInfos, a \in 0..2}

(* Three tensors that tile 21 bytes behind a header of 40: with its length *)
(* they come to 69, which wraps to 5.                                      *)
Wrapping == 1 :> Info(1, <<7>>, 0, 7) @@ 2 :> Info(1, <<7>>, 7, 14) @@ 3 :> Info(1, <<7>>, 14, 21)

MCBuffers ==
    {[n |-> n, infos |-> m, data |-> <<>>, len |-> l] :
        m \in Maps, n \in {8}, l \in {15, 16, 18, 20}}
    \cup {[n |-> n, infos |-> m, data |-> <<>>, len |-> 20] : m \in [{1} -> Infos], n \in {0, 16, 48}}
    \cup {[n |-> 8, infos |-> m, data |-> <<>>, len |-> l] : m \in [{1} -> Infos], l \in {4, 14}}
    \cup {[n |-> 40, infos |-> Wrapping, data |-> <<>>, len |-> l] : l \in {5, 48, 55, 63}}
==============================================================================
