------------------------------ MODULE MCCodec ------------------------------
(***************************************************************************)
(* Values for the codec with bytes of Base = 8: integers at every boundary *)
(* of a tag, every length at which a header changes, containers of each    *)
(* header with parts of all types, and values of the host.                 *)
(***************************************************************************)
EXTENDS Codec

I(n) == [int |-> n]
T(s) == [tuple |-> s]
L(s) == [list |-> s]
D(s) == [dict |-> s]
U(v) == [uvalue |-> v]
Entry(k, v) == [key |-> k, val |-> v]
Text(n) == [i \in 1 .. n |-> i % 7]
S(n) == [str |-> Text(n)]
B(n) == [bytes |-> [i \in 1 .. n |-> (i + 6) % 8]]
Nil == [none |-> TRUE]
True == [bool |-> TRUE]
False == [bool |-> FALSE]
Times(n, v) == [i \in 1 .. n |-> v]

(* On both sides of every threshold, up to 32 bits and beyond *)
Edges == {0, 3, 4, 7, 8, 63, 64, 2047, 2048, 4095, 4096, 5000, 100000,
          -1, -2, -4, -5, -32, -33, -2048, -2049, -4096}

(* The same up to 64 bits *)
FarEdges == {-8388608, -4097, 8388607, 8388608, 16777215}

Scalars == {Nil, True, False, [float |-> 1234]}

Lengths == {0, 1, 2, 3, 7, 8, 9, 63, 64}

Sent ==
    Scalars \cup {I(n) : n \in Edges} \cup {S(n) : n \in Lengths} \cup {B(n) : n \in Lengths}
    \cup {L(<<>>), L(<<I(4), S(1)>>), L(Times(3, I(-5))), L(Times(63, Nil)), T(Times(64, False)),
          T(<<L(<<I(2048), Nil>>), B(1)>>), T(<<T(<<>>), D(<<>>)>>)}
    \cup {D(<<Entry(S(1), I(64))>>), D(<<Entry(I(1), L(<<S(3)>>)), Entry(T(<<I(2), Nil>>), U(I(7)))>>),
          D([i \in 1 .. 3 |-> Entry(I(i), True)])}
    \cup {U(Nil), U(I(4)), U(I(-33)), U(I(64)), U(S(2)), U(S(6)), U(B(14)), U(B(64)), U(U(I(8)))}
    \cup {[other |-> TRUE], L(<<I(1), [other |-> TRUE]>>), D(<<Entry(S(1), [other |-> TRUE])>>)}

(* Not UTF-8 *)
BadText == [str |-> <<1, 7>>]
Foreign == [foreign |-> <<3, 4>>]

Received ==
    Scalars \cup {I(n) : n \in Edges \cup FarEdges} \cup {S(n) : n \in {0, 2, 3, 8}}
    \cup {B(0), B(8), T(<<>>), T(<<I(-5)>>), T(<<I(-2), S(1), Nil>>), T(Times(3, True))}
    \cup {D(<<Entry(True, I(8)), Entry(Nil, T(<<False>>))>>), D(<<Entry(U(I(-40)), Nil)>>)}
    \cup {U(I(1)), U(I(2048)), U(I(-2048)), U(T(<<Nil, S(1)>>)), T(<<U(I(-40)), U(Nil)>>)}
    \cup {BadText, T(<<BadText, I(-40)>>), T(<<I(-40), BadText>>),
          D(<<Entry(BadText, Nil), Entry(S(1), True)>>), U(BadText), Foreign, T(<<I(1), Foreign>>)}
=============================================================================
