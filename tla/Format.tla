------------------------------- MODULE Format -------------------------------
(***************************************************************************)
(* The bytes of MessagePack as lib/mpack reads and writes them: the tags,  *)
(* the numbers that follow them, and what a whole tag says.                *)
(*                                                                         *)
(* The arithmetic is to scale: a byte has Base values instead of 256, and  *)
(* every threshold that is a power of 256 in the code is that power of     *)
(* Base here, so 32 bits are Base^4 and MessagePack's longest integer is   *)
(* Base^8.  A byte of a message is a record [t, n]: t names what the range *)
(* of a first byte means ("u8", "fixstr"), and n is the number in its low  *)
(* bits; any other byte is [t |-> "byte", n |-> digit].                    *)
(***************************************************************************)
EXTENDS Integers, Sequences, SequencesExt

CONSTANT Base \* values of a byte (256)

ASSUME BaseAssumption == Base \in Nat \ {0} /\ Base % 8 = 0

(* The widths, in bytes, of the number that follows each kind of tag; and  *)
(* an ext has one more byte, its type                                      *)
Width == [fixint |-> 0, nil |-> 0, false |-> 0, true |-> 0,
          fixstr |-> 0, fixarray |-> 0, fixmap |-> 0, reserved |-> 0,
          u8 |-> 1, u16 |-> 2, u32 |-> 4, u64 |-> 8,
          i8 |-> 1, i16 |-> 2, i32 |-> 4, i64 |-> 8,
          float |-> 4, double |-> 8,
          str8 |-> 1, str16 |-> 2, str32 |-> 4,
          bin8 |-> 1, bin16 |-> 2, bin32 |-> 4,
          array16 |-> 2, array32 |-> 4, map16 |-> 2, map32 |-> 4,
          fixext1 |-> 0, fixext2 |-> 0, fixext4 |-> 0, fixext8 |-> 0, fixext16 |-> 0,
          ext8 |-> 1, ext16 |-> 2, ext32 |-> 4]

Unsigned == {"u8", "u16", "u32", "u64"}
TwosComplement == {"i8", "i16", "i32", "i64"}
ExtTags == {"fixext1", "fixext2", "fixext4", "fixext8", "fixext16",
            "ext8", "ext16", "ext32"}

FixedSize == [fixext1 |-> 1, fixext2 |-> 2, fixext4 |-> 4, fixext8 |-> 8, fixext16 |-> 16]

-----------------------------------------------------------------------------
(* Bytes and numbers *)

Byte(n) == [t |-> "byte", n |-> n]
First(tag, n) == [t |-> tag, n |-> n]
Raw(s) == [i \in DOMAIN s |-> Byte(s[i])]
Plain(m) == [i \in DOMAIN m |-> m[i].n]

(* The numbers that so many bytes can hold: 256^k, spelled out *)
Squared == Base * Base
Power(k) == CASE k = 0 -> 1
              [] k = 1 -> Base
              [] k = 2 -> Squared
              [] k = 3 -> Squared * Base
              [] k = 4 -> Squared * Squared
              [] k = 5 -> Squared * Squared * Base
              [] k = 6 -> Squared * Squared * Squared
              [] k = 7 -> Squared * Squared * Squared * Base
              [] k = 8 -> Squared * Squared * Squared * Squared

(* mpack_store_u8 .. _i64: the digits of n, the first the most significant *)
Digits(n, w) == [i \in 1 .. w |-> Byte((n \div Power(w - i)) % Base)]

(* mpack_load_u16, _u32 and _u64, from a place on *)
Digit(b) == b.n % Base
Load16(m, i) == Digit(m[i]) * Base + Digit(m[i + 1])
Load32(m, i) == Load16(m, i) * Power(2) + Load16(m, i + 2)
Load64(m, i) == Load32(m, i) * Power(4) + Load32(m, i + 4)

(* mpack_load_u8 .. _u64 *)
Number(m) == CASE Len(m) = 1 -> Digit(m[1])
               [] Len(m) = 2 -> Load16(m, 1)
               [] Len(m) = 4 -> Load32(m, 1)
               [] Len(m) = 8 -> Load64(m, 1)

(* mpack_load_i8 .. _i64, and a cast to a signed type of w bytes *)
Signed(n, w) == LET low == n % Power(w)
                IN  IF low >= Power(w) \div 2 THEN low - Power(w) ELSE low

(* The encoders mpack_encode_x: a tag and the number that follows it *)
Tag(tag, n) == <<First(tag, 0)>> \o Digits(n, Width[tag])

(* The limits of C's integer types, an int having 32 bits *)
Lowest == [u8 |-> 0, u16 |-> 0, u32 |-> 0, u64 |-> 0, uint |-> 0,
           i8 |-> -(Base \div 2), i16 |-> -(Power(2) \div 2), i32 |-> -(Power(4) \div 2),
           i64 |-> -(Power(8) \div 2), int |-> -(Power(4) \div 2)]
Highest == [u8 |-> Base - 1, u16 |-> Power(2) - 1, u32 |-> Power(4) - 1, u64 |-> Power(8) - 1,
            uint |-> Power(4) - 1,
            i8 |-> Base \div 2 - 1, i16 |-> Power(2) \div 2 - 1, i32 |-> Power(4) \div 2 - 1,
            i64 |-> Power(8) \div 2 - 1, int |-> Power(4) \div 2 - 1]
(* The integers that a program may ask for *)
Integers_ == DOMAIN Lowest

(* The cast to the type of a function *)
Cast(f, n) ==
    LET wrapped == n % (Highest[f] - Lowest[f] + 1)
    IN  IF wrapped > Highest[f] THEN wrapped - (Highest[f] - Lowest[f] + 1) ELSE wrapped

-----------------------------------------------------------------------------
(* A whole tag *)

TagSize(tag) == 1 + Width[tag] + (IF tag \in ExtTags THEN 1 ELSE 0)

(* The mpack_type_t of a tag *)
TypeOf(first) ==
    CASE first.t \in {"false", "true"}               -> "bool"
      [] first.t = "fixint"                          -> IF first.n >= 0 THEN "uint" ELSE "int"
      [] first.t \in Unsigned                        -> "uint"
      [] first.t \in TwosComplement                  -> "int"
      [] first.t \in {"fixstr", "str8", "str16", "str32"} -> "str"
      [] first.t \in {"bin8", "bin16", "bin32"}      -> "bin"
      [] first.t \in {"fixarray", "array16", "array32"} -> "array"
      [] first.t \in {"fixmap", "map16", "map32"}    -> "map"
      [] first.t \in ExtTags                         -> "ext"
      [] OTHER                                       -> first.t \* nil, float, double, reserved

(* The number that a tag holds or that its digits are *)
TagNumber(first, digits) ==
    IF first.t \in DOMAIN FixedSize THEN FixedSize[first.t]
    ELSE IF first.t = "true" THEN 1
    ELSE IF Width[first.t] = 0 THEN first.n
    ELSE IF first.t \in TwosComplement THEN Signed(Number(digits), Width[first.t])
    ELSE Number(digits)

(* mpack_parse_tag of a whole tag: its name, its number, the type of an ext *)
ParseTag(m, at) ==
    [tag |-> m[at].t,
     n |-> TagNumber(m[at], SubSeq(m, at + 1, at + Width[m[at].t])),
     exttype |-> Signed(m[at + TagSize(m[at].t) - 1].n, 1)]

-----------------------------------------------------------------------------
(* Time stamps: the bytes of an ext of type -1 *)

TimestampType == -1
NoTime == [seconds |-> 0, nano |-> 0]

Seconds34 == 4 * Power(4)  \* 2^34

Split(b) ==
    CASE Len(b) = 4 -> [seconds |-> Number(b), nano |-> 0]
      [] Len(b) = 8 -> [seconds |-> Number(b) % Seconds34, nano |-> Number(b) \div Seconds34]
      [] Len(b) = 12 -> [seconds |-> Signed(Number(SubSeq(b, 5, 12)), 8), nano |-> Number(SubSeq(b, 1, 4))]

=============================================================================
