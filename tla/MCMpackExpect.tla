--------------------------- MODULE MCMpackExpect ---------------------------
(* Messages and readers.  Sequences of elements, strings shorter than a     *)
(* small buffer, as long and longer, for what is read without expectation; *)
(* numbers at the limits of their types, names, the pairs of a map whose   *)
(* key comes twice, and elements whose end is missing, for what is         *)
(* expected, out of memory and out of a buffer that holds any head         *)
EXTENDS MpackExpect

Text(b) == <<First("fixstr", Len(b))>> \o Raw(b)
Text16(b) == Tag("str16", Len(b)) \o Raw(b)
Blob(b) == Tag("bin8", Len(b)) \o Raw(b)
Ext(type, b) == Tag("ext8", Len(b)) \o <<Byte(type)>> \o Raw(b)
Small(n) == <<First("fixint", n)>>
Simple_(tag) == <<First(tag, 0)>>
U16 == <<First("u16", 0), Byte(1), Byte(2)>>

Sequences_ == {<<First("fixarray", 2)>> \o Text(<<1, 2, 3>>) \o U16,
               Text(<<1, 2, 3, 4, 5, 6, 7>>) \o U16,
               <<First("fixmap", 1)>> \o Text(<<1>>) \o <<First("fixarray", 1)>> \o Text(<<2, 0>>) \o U16,
               <<First("fixext4", 0), Byte(7)>> \o Digits(5, 4) \o Simple_("reserved"),
               <<First("fixext8", 0), Byte(7)>> \o Digits(6 * 4 * Base ^ 4 + 5, 8),
               <<First("ext8", 0), Byte(3), Byte(7)>> \o Raw(<<1, 2, 3>>),
               <<First("fixstr", 3)>> \o Raw(<<1, 2>>)}

Numbers == {Tag("u8", 7), Tag("i8", 8 - 3), Tag("u16", 31), Tag("u16", 32), Tag("i16", 1),
            Tag("u64", Base ^ 8 - 1), Tag("u64", Base ^ 8 \div 2), Tag("i64", Base ^ 8 \div 2), Tag("i64", Base ^ 8 - 1),
            Tag("float", 3), Tag("double", 3)}
Strings == {Text16(<<1, 2, 3, 4, 5, 6, 1, 2, 3, 4, 5>>), Text(<<1, 0>>), Text(<<Base - 1>>), Text(<<>>),
            Blob(<<0, 1>>), Blob(<<>>), Ext(1, <<2, 3>>), Ext(1, <<>>), Ext(7, <<0, 0, 1, 1>>), Ext(7, <<1>>),
            <<First("fixstr", 2), Byte(1)>>, Tag("bin8", 3) \o Raw(<<1>>)}
Others == {Simple_(t) \o Small(1) : t \in {"nil", "false", "true", "reserved"}}

TwoKeys(a, b) == a \o Small(0) \o b
Messages == {TwoKeys(Text(<<1>>), Text(<<1>>)), TwoKeys(Small(1), Text(<<1, 2>>)), TwoKeys(Small(0), Tag("i8", 0)), TwoKeys(Small(2), Small(1)),
             <<First("fixmap", 1)>> \o Small(0) \o Small(0), <<First("fixarray", 2)>> \o Simple_("nil"),
             <<First("fixarray", 2)>> \o Simple_("nil") \o <<First("fixarray", 0)>>}

MCExpected == Numbers \cup Strings \cup Others \cup Messages
MCStreams == Sequences_ \cup MCExpected

Setup(size, count, fill, skip) == [size |-> size, count |-> count, fill |-> fill, skip |-> skip]
MCSetups(message) ==
    {Setup(0, 0, FALSE, FALSE)}
    \cup (IF message \in Sequences_
          THEN {Setup(4, 0, TRUE, FALSE), Setup(4, 3, TRUE, TRUE), Setup(4, 4, FALSE, FALSE),
                Setup(3, 0, TRUE, FALSE), Setup(0, 0, TRUE, FALSE)}
          ELSE {Setup(10, 0, TRUE, FALSE)})

MCUlps == {2 ^ k : k \in 0 .. 24}
MCNames == <<Raw(<<1>>), Raw(<<1, 2>>)>>
MCHeads == <<ParseTag(Tag("i16", 1), 1), ParseTag(Simple_("nil"), 1), ParseTag(Ext(1, <<2, 3>>), 1)>>

=============================================================================
