---------------------------- MODULE MCMpackNode ----------------------------
(* Trees for MpackNode: a leaf at every boundary of a type, and containers  *)
(* whose keys are the same number in two encodings                         *)
EXTENDS MpackNode

B == 8

UInt(n) == Node("uint", n, <<>>, <<>>)
SInt(n) == Node("int", n, <<>>, <<>>)
Text(b) == Node("str", 0, Raw(b), <<>>)
Blob(b) == Node("bin", 0, Raw(b), <<>>)
Ext(t, b) == Node("ext", t, b, <<>>)
Array(s) == Node("array", 0, <<>>, s)
Map(s) == Node("map", 0, <<>>, s)

Edges == UNION {{B ^ w \div 2 - 1, B ^ w \div 2, B ^ w - 1} : w \in {1, 2, 4, 8}}
Numerals == {UInt(n) : n \in Edges \cup {0, B, B ^ 2, B ^ 3 + 1, B ^ 4}}
            \cup {SInt(n) : n \in {e \in Edges : e < B ^ 8 \div 2}
                                  \cup UNION {{-(B ^ w \div 2), -(B ^ w \div 2) - 1} : w \in {1, 2, 4}}
                                  \cup {-(B ^ 8 \div 2), -(B ^ 3) - 3, -1, 0}}

Plain_ == {Node("nil", 0, <<>>, <<>>), Node("bool", 0, <<>>, <<>>), Node("bool", 1, <<>>, <<>>),
           Node("float", 2, <<>>, <<>>), Node("double", 3, <<>>, <<>>)}

Texts == {Text(<<>>), Text(<<1>>), Text(<<1, 2>>), Text(<<1, 0>>), Text(<<B - 1>>),
          Blob(<<>>), Blob(<<0, 1>>), Ext(2, Raw(<<1>>))}

Stamps == {Ext(-1, Digits(5, 4)), Ext(-1, Digits(B ^ 4 - 1, 4)),
           Ext(-1, Digits(999 * 4 * B ^ 4 + 3 * B ^ 4 + 5, 8)), Ext(-1, Digits(1000 * 4 * B ^ 4, 8)),
           Ext(-1, Digits(999, 4) \o Digits(-7, 8)), Ext(-1, Digits(1001, 4) \o Digits(-7, 8)),
           Ext(-1, Raw(<<1, 2>>)), Ext(3, Digits(5, 4))}

Containers ==
    {Array(<<>>), Array(<<UInt(1), Map(<<Text(<<1>>), UInt(9)>>)>>), Map(<<>>),
     Map(<<UInt(1), Text(<<1>>), SInt(2), Text(<<2>>)>>),
     Map(<<UInt(1), Text(<<1>>), SInt(1), Text(<<2>>)>>),
     Map(<<UInt(B ^ 8 - 1), Text(<<1>>), SInt(-1), Text(<<2>>)>>),
     Map(<<UInt(B ^ 8 - 1), Text(<<1>>)>>),
     Map(<<Text(<<1>>), UInt(1), Text(<<1, 2>>), Array(<<SInt(-1)>>)>>),
     Map(<<Text(<<1>>), UInt(1), Text(<<1>>), UInt(2)>>)}

MCTrees == Numerals \cup Plain_ \cup Texts \cup Stamps \cup Containers

RECURSIVE Below(_)
Below(v) == {v} \cup UNION {Below(v.items[i]) : i \in DOMAIN v.items}
MCNodes == UNION {Below(v) : v \in MCTrees}
MCUlps == {2 ^ k : k \in 0 .. 24}
MCKeys == {-1, 0, 1, 2, B ^ 8 - 1}
MCNames == <<Raw(<<1>>), Raw(<<1, 2>>)>>

=============================================================================
