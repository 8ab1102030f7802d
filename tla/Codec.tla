------------------------------- MODULE Codec -------------------------------
(***************************************************************************)
(* The MessagePack codec: msgpack_dump and msgpack_load of msgpack.c over  *)
(* the encodings of lib/mpack, and what wrap_result makes of a reply.      *)
(*                                                                         *)
(* The arithmetic is to scale: a byte has Base values instead of 256, and  *)
(* every threshold that is a power of 256 in the code is that power of     *)
(* Base here, so Python's 32 bits are Base^4 and MessagePack's longest     *)
(* integer Base^8.  A byte of a message is a record [t, n]: t names what   *)
(* the range of a first byte means ("u8", "fixstr"), and n is the number   *)
(* in its low bits; any other byte is [t |-> "byte", n |-> digit].         *)
(*                                                                         *)
(* A value is a record with one field, named for its Python type.  junk is *)
(* no value: it is whatever the code makes of a pointer to address 0 (any  *)
(* value, an exception or a fault of the processor).                       *)
(*                                                                         *)
(* The functions are recursive: this module is checked, not proved about.  *)
(***************************************************************************)
EXTENDS Format, FiniteSets

CONSTANTS FixStr,    \* the longest string whose length fits in its tag (31)
          FixCount,  \* the same for the count of an array or map (15)
          Values,    \* bound: the values a program encodes
          HostValues \* bound: the values a host encodes

ASSUME FixAssumption == FixStr \in 1 .. (Base - 1) /\ FixCount \in 1 .. (Base - 1)

VARIABLES value,   \* what the sender means
          message, \* the bytes that travel
          sender,  \* who wrote them
          damage,  \* what happened to them on the way
          reader,  \* the function that read them, and the status of the reply
          outcome  \* the object or exception it ended with

vars == <<value, message, sender, damage, reader, outcome>>

None == [none |-> TRUE]
Junk == [junk |-> TRUE]
Raised(exc, args) == [raised |-> exc, args |-> args]

Is(v, k) == k \in DOMAIN v

-----------------------------------------------------------------------------
(* Encoding *)

FixIntMin == -(Base \div 8)
FixIntMax == Base \div 2 - 1

(* Mutant of WriteInt: the smallest int8 goes out as an int16 *)
WriteInt_wide(n) ==
    CASE n \in 0 .. FixIntMax               -> <<First("fixint", n)>>
      [] n \in FixIntMin .. -1              -> <<First("fixint", n)>>
      [] n > FixIntMax /\ n < Base          -> Tag("u8", n)
      [] n >= Base /\ n < Base ^ 2          -> Tag("u16", n)
      [] n >= Base ^ 2                      -> Tag("u32", n)
      [] n < FixIntMin /\ n > -(Base \div 2) -> Tag("i8", n)
      [] n <= -(Base \div 2) /\ n >= -(Base ^ 2 \div 2) -> Tag("i16", n)
      [] OTHER                              -> Tag("i32", n)

(* mpack_write_int of a 32 bit integer: the 64 bit cases of mpack_write_i64 *)
(* are never reached                                                       *)
WriteInt(n) ==
    CASE n \in FixIntMin .. FixIntMax              -> <<First("fixint", n)>>
      [] n > FixIntMax /\ n < Base                 -> Tag("u8", n)
      [] n >= Base /\ n < Base ^ 2                 -> Tag("u16", n)
      [] n >= Base ^ 2                             -> Tag("u32", n)
      [] n < FixIntMin /\ n >= -(Base \div 2)      -> Tag("i8", n)
      [] n < -(Base \div 2) /\ n >= -(Base ^ 2 \div 2) -> Tag("i16", n)
      [] OTHER                                     -> Tag("i32", n)

StartStr(n) ==
    CASE n <= FixStr                -> <<First("fixstr", n)>>
      [] n > FixStr /\ n < Base     -> Tag("str8", n)
      [] n >= Base /\ n < Base ^ 2  -> Tag("str16", n)
      [] OTHER                      -> Tag("str32", n)

StartBin(n) ==
    CASE n < Base                   -> Tag("bin8", n)
      [] n >= Base /\ n < Base ^ 2  -> Tag("bin16", n)
      [] OTHER                      -> Tag("bin32", n)

StartArray(n) ==
    CASE n <= FixCount                   -> <<First("fixarray", n)>>
      [] n > FixCount /\ n < Base ^ 2    -> Tag("array16", n)
      [] OTHER                           -> Tag("array32", n)

StartMap(n) ==
    CASE n <= FixCount                   -> <<First("fixmap", n)>>
      [] n > FixCount /\ n < Base ^ 2    -> Tag("map16", n)
      [] OTHER                           -> Tag("map32", n)

StartExt(n) ==
    IF \E tag \in DOMAIN FixedSize : FixedSize[tag] = n
    THEN <<First(CHOOSE tag \in DOMAIN FixedSize : FixedSize[tag] = n, 0)>>
    ELSE CASE n < Base                  -> Tag("ext8", n)
           [] n >= Base /\ n < Base ^ 2 -> Tag("ext16", n)
           [] OTHER                     -> Tag("ext32", n)

UVALUE_TYPE == Byte(1)

(* Mutant of Truncated: as the unsigned type of 32 bits *)
Truncated_unsigned(n) == n % (Base ^ 4)

(* What is sent of an integer: mp_obj_get_int_truncated, its low 32 bits.  *)
(* A small int of MicroPython has 31 bits and is not touched by that.      *)
Truncated(n) == Signed(n, 4)

(* The cases of msgpack_dump that do not raise: anything with a function, a *)
(* module, ... in it ends with a TypeError, and the writer is abandoned     *)
RECURSIVE Encodable(_)
Encodable(v) ==
    CASE Is(v, "other")  -> FALSE
      [] Is(v, "tuple")  -> \A i \in DOMAIN v.tuple : Encodable(v.tuple[i])
      [] Is(v, "list")   -> \A i \in DOMAIN v.list : Encodable(v.list[i])
      [] Is(v, "dict")   -> \A i \in DOMAIN v.dict : /\ Encodable(v.dict[i].key)
                                                     /\ Encodable(v.dict[i].val)
      [] Is(v, "uvalue") -> Encodable(v.uvalue)
      [] OTHER           -> TRUE

RECURSIVE Dump(_)

DumpAll(s) == FlattenSeq([i \in DOMAIN s |-> Dump(s[i])])

Dump(v) ==
    CASE Is(v, "none")   -> Tag("nil", 0)
      [] Is(v, "bool")   -> IF v.bool THEN Tag("true", 0) ELSE Tag("false", 0)
      [] Is(v, "int")    -> WriteInt(Truncated(v.int))
      [] Is(v, "float")  -> Tag("float", v.float)
      [] Is(v, "str")    -> StartStr(Len(v.str)) \o Raw(v.str)
      [] Is(v, "bytes")  -> StartBin(Len(v.bytes)) \o Raw(v.bytes)
      [] Is(v, "list")   -> StartArray(Len(v.list)) \o DumpAll(v.list)
      [] Is(v, "tuple")  -> StartArray(Len(v.tuple)) \o DumpAll(v.tuple)
      [] Is(v, "dict")   -> StartMap(Len(v.dict))
                            \o FlattenSeq([i \in DOMAIN v.dict |->
                                   Dump(v.dict[i].key) \o Dump(v.dict[i].val)])
      [] Is(v, "uvalue") -> LET body == Dump(v.uvalue)
                            IN  StartExt(Len(body)) \o <<UVALUE_TYPE>> \o body

-----------------------------------------------------------------------------
(* Decoding.  A reader stands before byte at of a message; after an error  *)
(* it is at the end and reads nil.  Decoding yields the reader it leaves,  *)
(* with the object, or with the exception that stopped it.                 *)

Reader(at) == [at |-> at, error |-> FALSE]
With(rd, obj) == [rd |-> rd, obj |-> obj]

(* mpack_reader_remaining: nothing once there was an error *)
Remaining(m, rd) == IF rd.error THEN 0 ELSE Len(m) + 1 - rd.at

(* mpack_reader_flag_error, which moves the end to where the reader stands *)
FlagError(rd) == [rd EXCEPT !.error = TRUE]

Has(m, rd, n) == n <= Remaining(m, rd)
Take(m, rd, n) == SubSeq(m, rd.at, rd.at + n - 1)
Skip(rd, n) == [rd EXCEPT !.at = @ + n]

Parsed(m, rd) == ParseTag(m, rd.at)

NilTag == [tag |-> "nil", n |-> 0, exttype |-> 0]

After(rd, tag) == With(Skip(rd, TagSize(tag.tag)), tag)

(* Mutant of ReadTag: only the first byte of a tag is checked for *)
ReadTag_first(m, rd) ==
    IF Has(m, rd, 1) THEN After(rd, Parsed(m \o [i \in 1 .. 9 |-> Byte(0)], rd))
    ELSE With(FlagError(rd), NilTag)

(* mpack_read_tag *)
ReadTag(m, rd) ==
    IF Has(m, rd, 1) /\ Has(m, rd, TagSize(m[rd.at].t)) THEN After(rd, Parsed(m, rd))
    ELSE With(FlagError(rd), NilTag)

(* mpack_read_bytes_inplace: a null pointer if they are not all there *)
ReadBytes(m, rd, n) ==
    IF ~rd.error /\ Has(m, rd, n) THEN With(Skip(rd, n), Take(m, rd, n))
    ELSE With(FlagError(rd), Junk)

(* mpack_utf8_check: the last value of a byte stands for those that no      *)
(* UTF-8 has, such as 0xff                                                 *)
IsUtf8(s) == \A i \in DOMAIN s : s[i] # Base - 1

CheckedUtf8(bytes) ==
    IF ~bytes.rd.error /\ ~IsUtf8(Plain(bytes.obj)) THEN With(FlagError(bytes.rd), Junk)
    ELSE bytes
ReadUtf8(m, rd, n) == CheckedUtf8(ReadBytes(m, rd, n))

(* What MicroPython lets be a key.  Keys of different types are different  *)
(* here; that 1 and True are one key of Python is left out.                *)
RECURSIVE Hashable(_)
Hashable(v) == /\ ~Is(v, "dict") /\ ~Is(v, "uvalue")
               /\ Is(v, "tuple") => \A i \in DOMAIN v.tuple : Hashable(v.tuple[i])

(* mp_obj_dict_store, with the entries in the order of their first store *)
Store(pairs, k, v) ==
    IF \E i \in DOMAIN pairs : pairs[i].key = k
    THEN [i \in DOMAIN pairs |-> IF pairs[i].key = k THEN [key |-> k, val |-> v] ELSE pairs[i]]
    ELSE Append(pairs, [key |-> k, val |-> v])

RECURSIVE Load(_, _), LoadItems(_, _, _, _), LoadPairs(_, _, _, _)

Failed(res) == Is(res.obj, "raised")

(* The rest of the message has to be empty *)
Whole(m, res) == IF ~Failed(res) /\ Remaining(m, res.rd) # 0
                 THEN Raised("ValueError", <<>>) ELSE res.obj

Loads(m) == Whole(m, Load(m, Reader(1)))

AddItem(m, item, n, items) ==
    IF Failed(item) THEN item ELSE LoadItems(m, item.rd, n, Append(items, item.obj))

LoadItems(m, rd, n, items) ==
    IF n = 0 THEN With(rd, [tuple |-> items]) ELSE AddItem(m, Load(m, rd), n - 1, items)

AddPair(m, k, v, n, pairs) ==
    IF Failed(v) THEN v
    ELSE IF Hashable(k) THEN LoadPairs(m, v.rd, n, Store(pairs, k, v.obj))
    ELSE With(v.rd, Raised("TypeError", <<>>))

AddKey(m, k, n, pairs) ==
    IF Failed(k) THEN k ELSE AddPair(m, k.obj, Load(m, k.rd), n, pairs)

LoadPairs(m, rd, n, pairs) ==
    IF n = 0 THEN With(rd, [dict |-> pairs]) ELSE AddKey(m, Load(m, rd), n - 1, pairs)

(* An ext is a value of the host: its body is a message of its own.  The    *)
(* hook that oc_create_value calls is in module UValue.                    *)
Created(rd, raw) == With(rd, IF Is(raw, "raised") THEN raw ELSE [uvalue |-> raw])

LoadBody(body) == IF body.rd.error THEN body ELSE Created(body.rd, Loads(body.obj))

LoadExt(m, rd, tag) ==
    IF tag.exttype = 1 THEN LoadBody(ReadBytes(m, rd, tag.n))
    ELSE With(rd, Raised("ValueError", <<>>))

NewStr(res) == IF res.rd.error THEN res ELSE With(res.rd, [str |-> Plain(res.obj)])
NewBytes(res) == IF res.rd.error THEN res ELSE With(res.rd, [bytes |-> Plain(res.obj)])

(* What MicroPython makes of an integer: each function takes one of its own *)
(* C type, to which the argument is converted                              *)
NewInt(n) == [int |-> Signed(n, 4)]              \* mp_int_t
NewIntFromUint(n) == [int |-> n % Power(4)]      \* mp_uint_t
NewIntFromLl(n) == [int |-> Signed(n, 8)]        \* long long
NewIntFromUll(n) == [int |-> n % Power(8)]       \* unsigned long long

(* Of the two C types of a number, 64 and 32 bits, the shorter if it can    *)
(* hold it                                                                 *)
LoadInt(i64) ==
    LET i32 == Signed(i64, 4)
    IN  IF i32 = i64 THEN NewInt(i32) ELSE NewIntFromLl(i64)

(* Mutant of LoadUint: as LoadInt, the short one is taken for signed *)
LoadUint_signed(u64) ==
    LET u32 == Signed(u64, 4) % Power(4)
    IN  IF u32 = u64 THEN NewInt(u64) ELSE NewIntFromUll(u64)

(* The cast to mp_int_t on the way to the mp_uint_t changes no bit *)
LoadUint(u64) ==
    LET u32 == Signed(u64, 4) % Power(4)
    IN  IF u32 = u64 THEN NewIntFromUint(u64) ELSE NewIntFromUll(u64)

LoadTagged(m, rd, tag) ==
    CASE tag.tag = "nil"                  -> With(rd, None)
      [] tag.tag \in {"false", "true"}    -> With(rd, [bool |-> tag.tag = "true"])
      [] TypeOf(First(tag.tag, tag.n)) = "int"  -> With(rd, LoadInt(tag.n))
      [] TypeOf(First(tag.tag, tag.n)) = "uint" -> With(rd, LoadUint(tag.n))
      [] tag.tag = "float"                -> With(rd, [float |-> tag.n])
      [] tag.tag = "double"               -> With(rd, [float |-> tag.n \div Base ^ 4])
      [] tag.tag \in {"fixstr", "str8", "str16", "str32"}
                                          -> NewStr(ReadUtf8(m, rd, tag.n))
      [] tag.tag \in {"bin8", "bin16", "bin32"}
                                          -> NewBytes(ReadBytes(m, rd, tag.n))
      [] tag.tag \in {"fixarray", "array16", "array32"} -> LoadItems(m, rd, tag.n, <<>>)
      [] tag.tag \in {"fixmap", "map16", "map32"}       -> LoadPairs(m, rd, tag.n, <<>>)
      [] tag.tag \in ExtTags              -> LoadExt(m, rd, tag)

LoadNext(m, read) == LoadTagged(m, read.rd, read.obj)

Load(m, rd) == LoadNext(m, ReadTag(m, rd))

-----------------------------------------------------------------------------
(* Replies *)

(* mp_obj_get_array raises on what is no tuple; exceptions pass through *)
NoItems(v) == IF Is(v, "junk") \/ Is(v, "raised") THEN v ELSE Raised("TypeError", <<>>)

Reported(args) == IF Is(args, "tuple") THEN Raised("SystemError", args.tuple)
                  ELSE NoItems(args)

(* MP_QSTR_invalid_code; the text itself does not matter *)
InvalidCode == [str |-> <<>>]

(* Mutant of WrapResult: the case of an error runs into the next one *)
WrapResult_through(status, m) ==
    CASE status = "null"             -> None
      [] status \in {"error", "ok"}  -> Loads(m)
      [] status = "unknown"          -> Raised("SystemError", <<InvalidCode>>)

WrapResult(status, m) ==
    CASE status = "null"    -> None
      [] status = "error"   -> Reported(Loads(m))
      [] status = "ok"      -> Loads(m)
      [] status = "unknown" -> Raised("SystemError", <<InvalidCode>>)

(* ucomponent_invoke and uvalue_invoke: one result is not left in a tuple *)
Unpacked(values) ==
    CASE Is(values, "none")  -> None
      [] Is(values, "tuple") -> CASE Len(values.tuple) = 0 -> None
                                  [] Len(values.tuple) = 1 -> values.tuple[1]
                                  [] OTHER                 -> values
      [] OTHER               -> NoItems(values)

-----------------------------------------------------------------------------
(* The host's encoder: MessagePack lets it choose any tag that is wide     *)
(* enough.  A value [foreign |-> s] is an ext of a type the firmware does  *)
(* not know.                                                               *)

Headers(fix, limit, wide, n) ==
    {Tag(tag, n) : tag \in {t \in wide : n < Base ^ Width[t]}}
    \cup (IF n <= limit THEN {<<First(fix, n)>>} ELSE {})

IntForms(n) ==
    {Tag(t, n) : t \in {u \in Unsigned : n >= 0 /\ n < Base ^ Width[u]}}
    \cup {Tag(t, n) : t \in {i \in TwosComplement : n \in -(Base ^ Width[i] \div 2) .. (Base ^ Width[i] \div 2 - 1)}}
    \cup (IF n \in FixIntMin .. FixIntMax THEN {<<First("fixint", n)>>} ELSE {})

ExtForms(type, body) ==
    {<<First(t, 0), Byte(type)>> \o body : t \in {f \in DOMAIN FixedSize : FixedSize[f] = Len(body)}}
    \cup {Append(Tag(t, Len(body)), Byte(type)) \o body :
             t \in {e \in {"ext8", "ext16", "ext32"} : Len(body) < Base ^ Width[e]}}

Joined(A, B) == {a \o b : a \in A, b \in B}

RECURSIVE HostForms(_)

HostForms(v) ==
    LET all(s) == FoldLeft(LAMBDA done, item : Joined(done, HostForms(item)), {<<>>}, s)
    IN  CASE Is(v, "none")    -> {Tag("nil", 0)}
          [] Is(v, "bool")    -> {IF v.bool THEN Tag("true", 0) ELSE Tag("false", 0)}
          [] Is(v, "int")     -> IntForms(v.int)
          [] Is(v, "float")   -> {Tag("float", v.float), Tag("double", v.float * Base ^ 4)}
          [] Is(v, "str")     -> {h \o Raw(v.str) :
                                    h \in Headers("fixstr", FixStr, {"str8", "str16", "str32"}, Len(v.str))}
          [] Is(v, "bytes")   -> {h \o Raw(v.bytes) :
                                    h \in Headers("bin8", -1, {"bin8", "bin16", "bin32"}, Len(v.bytes))}
          [] Is(v, "tuple")   -> Joined(Headers("fixarray", FixCount, {"array16", "array32"}, Len(v.tuple)),
                                        all(v.tuple))
          [] Is(v, "dict")    -> Joined(Headers("fixmap", FixCount, {"map16", "map32"}, Len(v.dict)),
                                        all(FlattenSeq([i \in DOMAIN v.dict |->
                                              <<v.dict[i].key, v.dict[i].val>>])))
          [] Is(v, "uvalue")  -> UNION {ExtForms(1, body) : body \in HostForms(v.uvalue)}
          [] Is(v, "foreign") -> ExtForms(2, Raw(v.foreign))

-----------------------------------------------------------------------------
(* One message from its sender to its reader *)

NoReader == [fn |-> "none", status |-> "none"]

Init == /\ value \in Values \cup HostValues
        /\ message = <<>>
        /\ sender = "none" /\ damage = "none"
        /\ reader = NoReader
        /\ outcome = None

(* umsgpack.dumps, and the arguments of every call *)
Dumps == /\ sender = "none"
         /\ value \in Values /\ Encodable(value)
         /\ sender' = "firmware"
         /\ message' = Dump(value)
         /\ UNCHANGED <<value, damage, reader, outcome>>

DumpsRaises == /\ sender = "none"
               /\ value \in Values /\ ~Encodable(value)
               /\ sender' = "nobody"
               /\ outcome' = Raised("TypeError", <<>>)
               /\ UNCHANGED <<value, message, damage, reader>>

(* The host encodes a reply, or a program has bytes from elsewhere *)
HostDumps == /\ sender = "none"
             /\ value \in HostValues
             /\ sender' = "host"
             /\ message' \in HostForms(value)
             /\ UNCHANGED <<value, damage, reader, outcome>>

Unread == sender \in {"firmware", "host"} /\ reader = NoReader

(* Only a part of the message is read, e.g. of a file that was cut short *)
Cut == /\ Unread /\ damage = "none"
       /\ \E n \in 0 .. (Len(message) - 1) : message' = SubSeq(message, 1, n)
       /\ damage' = "cut"
       /\ UNCHANGED <<value, sender, reader, outcome>>

(* Something follows the message *)
Extend == /\ Unread /\ damage = "none"
          /\ \E more \in {Tag("nil", 0), <<Byte(0)>>} : message' = message \o more
          /\ damage' = "extended"
          /\ UNCHANGED <<value, sender, reader, outcome>>

(* umsgpack.loads *)
ReadBuffer == /\ Unread
              /\ reader' = [fn |-> "loads", status |-> "none"]
              /\ outcome' = Loads(message)
              /\ UNCHANGED <<value, message, sender, damage>>

(* A system call returns with no message, or with a status that is none *)
NoMessage == /\ sender = "none"
             /\ value = None
             /\ sender' = "nobody"
             /\ \E status \in {"null", "unknown"} :
                   /\ reader' = [fn |-> "invokes", status |-> status]
                   /\ outcome' = WrapResult(status, <<>>)
             /\ UNCHANGED <<value, message, damage>>

(* A system call returns, in invokes or in another function of the tables *)
ReadReply == /\ Unread
             /\ \E status \in {"error", "ok"} :
                   /\ reader' = [fn |-> "invokes", status |-> status]
                   /\ outcome' = WrapResult(status, message)
             /\ UNCHANGED <<value, message, sender, damage>>

ReadResults == /\ Unread
               /\ \E status \in {"error", "ok"} :
                     /\ reader' = [fn |-> "invoke", status |-> status]
                     /\ outcome' = Unpacked(WrapResult(status, message))
               /\ UNCHANGED <<value, message, sender, damage>>

Next == \/ Dumps \/ DumpsRaises \/ HostDumps \/ Cut \/ Extend
        \/ ReadBuffer \/ NoMessage \/ ReadReply \/ ReadResults

Spec == Init /\ [][Next]_vars

-----------------------------------------------------------------------------
(* Properties *)

(* What a message means to its reader: lists arrive as tuples, and of what  *)
(* the firmware sends only the low 32 bits of integers leave                *)
LowWord(n) == ((n + (Base ^ 4) \div 2) % (Base ^ 4)) - (Base ^ 4) \div 2

RECURSIVE Seen(_, _)
Seen(v, narrow) ==
    LET all(s) == [i \in DOMAIN s |-> Seen(s[i], narrow)]
    IN  CASE Is(v, "int")    -> [int |-> IF narrow THEN LowWord(v.int) ELSE v.int]
          [] Is(v, "list")   -> [tuple |-> all(v.list)]
          [] Is(v, "tuple")  -> [tuple |-> all(v.tuple)]
          [] Is(v, "dict")   -> [dict |-> [i \in DOMAIN v.dict |->
                                    [key |-> Seen(v.dict[i].key, narrow),
                                     val |-> Seen(v.dict[i].val, narrow)]]]
          [] Is(v, "uvalue") -> [uvalue |-> Seen(v.uvalue, narrow)]
          [] OTHER           -> v

Meant == Seen(value, sender = "firmware")

(* A value and all that is in it *)
RECURSIVE Parts(_)
Parts(v) ==
    LET all(s) == UNION {Parts(s[i]) : i \in DOMAIN s}
    IN  {v} \cup
        CASE Is(v, "list")   -> all(v.list)
          [] Is(v, "tuple")  -> all(v.tuple)
          [] Is(v, "dict")   -> UNION {Parts(v.dict[i].key) \cup Parts(v.dict[i].val) :
                                          i \in DOMAIN v.dict}
          [] Is(v, "uvalue") -> Parts(v.uvalue)
          [] OTHER           -> {}

(* What msgpack_load refuses: an ext of an unknown type, and a key that is  *)
(* none.  And what it stumbles on: a string that is not UTF-8.             *)
Refused(v) == \E part \in Parts(v) :
                 \/ Is(part, "foreign")
                 \/ Is(part, "dict") /\ \E i \in DOMAIN part.dict : ~Hashable(part.dict[i].key)
Proper(v) == /\ ~Refused(v)
             /\ \A part \in Parts(v) : Is(part, "str") => IsUtf8(part.str)

(* Is a a version of b with holes: None or junk where something was lost?   *)
(* Keys that are holes may have fallen together.                           *)
Hole(v) == Is(v, "none") \/ Is(v, "junk")

RECURSIVE Agrees(_, _)
Agrees(a, b) ==
    \/ Hole(a)
    \/ a = b
    \/ /\ Is(a, "tuple") /\ Is(b, "tuple") /\ Len(a.tuple) = Len(b.tuple)
       /\ \A i \in DOMAIN a.tuple : Agrees(a.tuple[i], b.tuple[i])
    \/ /\ Is(a, "dict") /\ Is(b, "dict") /\ Len(a.dict) <= Len(b.dict)
       /\ \A i \in DOMAIN a.dict : \E j \in DOMAIN b.dict :
             Agrees(a.dict[i].key, b.dict[j].key) /\ Agrees(a.dict[i].val, b.dict[j].val)
    \/ Is(a, "uvalue") /\ Is(b, "uvalue") /\ Agrees(a.uvalue, b.uvalue)

Loaded == reader.fn = "loads"
Untouched == damage = "none"

(* umsgpack.loads(umsgpack.dumps(x)) is x, with tuples for lists and the    *)
(* low 32 bits of its integers (msgpack.c:14, :155).                       *)
RoundTrip == sender = "firmware" /\ Untouched /\ Loaded => outcome = Meant

(* What the host means is what Python gets, whatever widths the host's      *)
(* encoder chooses, up to 64 bits and both signs, also where the number is  *)
(* narrowed to 32 bits, compared and given to a function of MicroPython     *)
(* that takes another type (msgpack.c:31-56).                              *)
AnyWidth == sender = "host" /\ Untouched /\ Loaded /\ Proper(value) => outcome = Meant

(* mpack-writer.h:492 promises the most efficient packing available: no     *)
(* encoding of the same value is shorter than that of msgpack_dump.        *)
Smallest == sender = "firmware" /\ Untouched /\ reader = NoReader =>
               \A other \in HostForms(Meant) : Len(message) <= Len(other)

(* A message that ends too early, or has a string that is none, is not      *)
(* refused: the reader's error is sticky and nobody asks for it             *)
(* (msgpack.c:148).  But it never turns into another value: every part of   *)
(* what is returned is the part that was sent or a hole.  A sound message   *)
(* with something after it is refused.                                     *)
NothingInvented ==
    Loaded =>
        \/ damage # "extended" /\ Agrees(outcome, Meant)
        \/ damage = "extended" /\ outcome = Raised("ValueError", <<>>)
        \/ damage = "extended" /\ ~Proper(value) /\ Agrees(outcome, Meant)
        \/ Refused(value) /\ Is(outcome, "raised")

(* An error that the host reports is raised as SystemError with what the    *)
(* host says of it, and is never taken for a result (syscall.c:16-28).     *)
FailureIsRaised ==
    reader.status = "error" =>
        /\ Is(outcome, "raised") \/ (Is(outcome, "junk") /\ ~(Untouched /\ Proper(value)))
        /\ Untouched /\ Proper(value) /\ Is(Meant, "tuple")
              => outcome = Raised("SystemError", Meant.tuple)

=============================================================================
