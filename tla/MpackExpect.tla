---------------------------- MODULE MpackExpect ----------------------------
(***************************************************************************)
(* Reading what one expects: lib/mpack/mpack-expect.c over the reader of   *)
(* MpackReader.  Each function reads an element, or the head of one whose  *)
(* bytes are read afterwards, and flags an error when it is not what the   *)
(* program wants; an error that is already there stays, and every answer   *)
(* is neutral from then on.                                                *)
(***************************************************************************)
EXTENDS MpackReader, Floats, FiniteSets

CONSTANTS Expected, \* bound: the messages whose elements the program expects
          Maxima,   \* bound: the limits and sizes that it gives
          Names,    \* the strings it knows
          Heads     \* bound: the tags it expects

ASSUME NamesAssumption == Names \in Seq(Seq([t : {"byte"}, n : 0 .. Base - 1]))
ASSUME MaximaAssumption == Maxima \subseteq Nat

VARIABLE found \* the keys that are marked as found

expectVars == <<vars, found>>

-----------------------------------------------------------------------------
(* Numbers.  An answer is in a field named for its kind. *)

Num(n) == [num |-> n]
IsInteger(tag) == TagType(tag) \in {"uint", "int"}

Fits(f, n) == Lowest[f] <= n /\ n <= Highest[f]

(* mpack_expect_u8 .. _i64, _uint and _int *)
ExpectInteger(r, f) ==
    {IF IsInteger(o.v) /\ Fits(f, o.v.n) THEN Out(o.rd, Num(o.v.n)) ELSE Refused(o, Num(0)) : o \in ReadTag(r)}

(* mpack_expect_float, _double and their strict forms *)
ZeroReal(f) == [real |-> <<AnswersIn[f], 0>>]
ExpectReal(r, f) ==
    {IF TagType(o.v) \in Accepts[f] THEN Out(o.rd, [real |-> Converted(f, TagType(o.v), o.v.n)])
     ELSE Refused(o, ZeroReal(f)) : o \in ReadTag(r)}

(* Mutant of Within: only the maximum is looked at *)
Within_max(outcomes, low, high) ==
    {IF ~Good(o) THEN Out(o.rd, Num(low)) ELSE IF o.v.num > high THEN Refused(o, Num(low)) ELSE o : o \in outcomes}

(* MPACK_EXPECT_RANGE_IMPL *)
Within(outcomes, low, high) ==
    {IF ~Good(o) THEN Out(o.rd, Num(low)) ELSE IF o.v.num \notin low .. high THEN Refused(o, Num(low)) ELSE o :
     o \in outcomes}

(* mpack_expect_uint_match and _int_match, mpack_expect_map_match and       *)
(* _array_match, mpack_expect_str_length, mpack_expect_bin_size             *)
Match(outcomes, n) ==
    {IF o.v.num = n THEN Out(o.rd, Null) ELSE Refused(o, Null) : o \in outcomes}

-----------------------------------------------------------------------------
(* The natives: a few bytes, 0 when they are not there *)

Native(r, width) ==
    IF r.error # "ok" THEN {Out(r, 0)}
    ELSE {IF o.v THEN LET t == Take(o.rd, width) IN Out(t.rd, Number(t.v)) ELSE Out(o.rd, 0) : o \in Ensure(r, width)}
TypeByte(r) ==
    IF r.error # "ok" THEN {Out(r, First("fixint", 0))}
    ELSE {IF o.v THEN LET t == Take(o.rd, 1) IN Out(t.rd, t.v[1]) ELSE Out(o.rd, First("fixint", 0)) :
          o \in Ensure(r, 1)}

ExpectNil(r) == {IF o.v.t = "nil" THEN Out(o.rd, Null) ELSE Refused(o, Null) : o \in TypeByte(r)}

(* The low bit of a byte that is no bool either *)
LowBit(first) == IF first.t = "fixint" THEN {first.n % 2 = 1} ELSE BOOLEAN
ExpectBool(r) ==
    UNION {IF TypeOf(o.v) = "bool" THEN {Out(o.rd, [bool |-> o.v.t = "true"])}
           ELSE {Refused(o, [bool |-> b]) : b \in LowBit(o.v)} : o \in TypeByte(r)}
(* mpack_expect_true and mpack_expect_false *)
ExpectJust(r, want) ==
    {IF o.v.bool = want THEN Out(o.rd, Null) ELSE Refused(o, Null) : o \in ExpectBool(r)}

ExpectTimestamp(r) ==
    UNION {IF TagType(o.v) = "ext" /\ o.v.exttype = TimestampType THEN ReadTimestamp(o.rd, o.v.n)
           ELSE {Refused(o, [time |-> NoTime])} : o \in ReadTag(r)}

-----------------------------------------------------------------------------
(* Containers *)

(* mpack_expect_map and mpack_expect_array, and mpack_expect_bin *)
ExpectCount(r, type) ==
    {IF TagType(o.v) = type THEN Out(o.rd, Num(o.v.n)) ELSE Refused(o, Num(0)) : o \in ReadTag(r)}

(* mpack_expect_map_or_nil and mpack_expect_array_or_nil *)
ExpectOrNil(r, type) ==
    {IF TagType(o.v) = type THEN Out(o.rd, [some |-> TRUE, num |-> o.v.n])
     ELSE IF TagType(o.v) = "nil" THEN Out(o.rd, [some |-> FALSE, num |-> 0])
     ELSE Refused(o, [some |-> FALSE, num |-> 0]) : o \in ReadTag(r)}
(* .. and their forms with a maximum *)
MaxOrNil(r, type, max) ==
    {IF o.v.some /\ o.v.num > max THEN Refused(o, [some |-> FALSE, num |-> 0]) ELSE o : o \in ExpectOrNil(r, type)}

(* mpack_expect_array_alloc_impl: no elements are no block *)
ArrayAlloc(r, max, orNil) ==
    UNION {IF ~Good(o) \/ o.v.num = 0 THEN {Out(o.rd, Num(0))}
           ELSE {Out(FlagError(o.rd, "memory"), Num(0)), Out(o.rd, Num(o.v.num))} :
           o \in IF orNil THEN MaxOrNil(r, "array", max) ELSE Within(ExpectCount(r, "array"), 0, max)}

-----------------------------------------------------------------------------
(* Strings, blobs and exts *)

(* mpack_expect_str: the head byte by byte *)
ExpectStr(r) ==
    UNION {IF o.v.t = "fixstr" THEN {Out(o.rd, Num(o.v.n))}
           ELSE IF TypeOf(o.v) = "str" THEN {Out(n.rd, Num(n.v)) : n \in Native(o.rd, Width[o.v.t])}
           ELSE {Refused(o, Num(0))} : o \in TypeByte(r)}

ExpectExt(r) ==
    {IF TagType(o.v) = "ext" THEN Out(o.rd, [num |-> o.v.n, exttype |-> o.v.exttype])
     ELSE Refused(o, [num |-> 0, exttype |-> 0]) : o \in ReadTag(r)}

(* mpack_expect_str_max ("too_big"), mpack_expect_bin_max and _ext_max *)
AtMost(outcomes, max, e) ==
    {IF o.v.num > max THEN Out(FlagError(o.rd, e), [o.v EXCEPT !.num = 0]) ELSE o : o \in outcomes}

ExtSize(r, count) ==
    {IF o.v.num # count THEN Refused(o, [exttype |-> 0]) ELSE Out(o.rd, [exttype |-> o.v.exttype]) :
     o \in ExpectExt(r)}

(* mpack_expect_str_buf and mpack_expect_bin_buf: an error is no bytes *)
Buffered(outcomes, size) ==
    UNION {IF ~Good(o) THEN {Out(o.rd, [bytes |-> <<>>])}
           ELSE IF o.v.num > size THEN {Out(FlagError(o.rd, "too_big"), [bytes |-> <<>>])}
           ELSE {Out(b.rd, [bytes |-> IF Good(b) THEN b.v ELSE <<>>]) : b \in ReadNative(o.rd, o.v.num)} :
           o \in outcomes}
(* mpack_expect_utf8 *)
BufferedUtf8(outcomes, size) ==
    {IF IsUtf8(o.v.bytes) THEN o ELSE Refused(o, [bytes |-> <<>>]) : o \in Buffered(outcomes, size)}

WithType(o, exttype) == Out(o.rd, [bytes |-> o.v.bytes, exttype |-> IF Good(o) THEN exttype ELSE 0])
ExtBuf(r, size) == UNION {{WithType(o, e.v.exttype) : o \in Buffered({e}, size)} : e \in ExpectExt(r)}

(* mpack_expect_cstr and mpack_expect_utf8_cstr *)
ExpectCstr(r, size, utf8) == UNION {ReadCstr(o.rd, size, o.v.num, utf8) : o \in ExpectStr(r)}

(* mpack_expect_cstr_alloc and mpack_expect_utf8_cstr_alloc *)
CstrAlloc(r, size, utf8) ==
    IF size < 1 THEN {Out(FlagError(r, "bug"), Null)}
    ELSE UNION {{IF b.v # Null /\ ~Valid(SubSeq(b.v.bytes, 1, o.v.num), utf8, TRUE) THEN Refused(b, Null) ELSE b :
                 b \in BytesAlloc(o.rd, o.v.num, TRUE)} : o \in AtMost(ExpectStr(r), size - 1, "too_big")}

BinAlloc(r, max) ==
    UNION {BytesAlloc(o.rd, o.v.num, FALSE) : o \in AtMost(ExpectCount(r, "bin"), max, "type")}

ExtAlloc(r, max) ==
    UNION {IF ~Good(e) THEN {Out(e.rd, [exttype |-> e.v.exttype])}
           ELSE {IF o.v = Null THEN Out(o.rd, [exttype |-> 0])
                 ELSE Out(o.rd, [exttype |-> e.v.exttype, bytes |-> o.v.bytes]) : o \in BytesAlloc(e.rd, e.v.num, FALSE)} :
           e \in AtMost(ExpectExt(r), max, "type")}

(* One byte of mpack_expect_str_match *)
MatchOne(r, byte) == {IF o.v = byte.n THEN Out(o.rd, Null) ELSE Refused(o, Null) : o \in Native(r, 1)}

-----------------------------------------------------------------------------
(* Tags, enums and keys *)

(* mpack_tag_equal: a signed number that is not negative is an unsigned one *)
SameType(a, b) == TagType(a) = TagType(b) \/ {TagType(a), TagType(b)} = {"uint", "int"}
TagEqual(a, b) == SameType(a, b) /\ a.n = b.n /\ (TagType(a) = "ext" => a.exttype = b.exttype)
ExpectTag(r, tag) == {IF TagEqual(o.v, tag) THEN Out(o.rd, Null) ELSE Refused(o, Null) : o \in ReadTag(r)}

Count == Len(Names)
IndexOf(bytes) == IF \E i \in 1 .. Count : Names[i] = bytes
                  THEN (CHOOSE i \in 1 .. Count : Names[i] = bytes) - 1 ELSE Count

(* The search of mpack_expect_enum and _enum_optional, in the bytes in place *)
Found(r) ==
    UNION {{Out(o.rd, Num(IF Good(o) THEN IndexOf(o.v.bytes) ELSE Count)) : o \in BytesInplace(s.rd, s.v.num)} :
           s \in ExpectStr(r)}

ExpectEnum(r) == {IF o.v.num = Count THEN Refused(o, o.v) ELSE o : o \in Found(r)}

(* The mpack_discard of what is no key: the elements in it are pending *)
Ignored(r) == {Out(o.rd, [num |-> Count, inside |-> o.v]) : o \in DiscardOne(r)}

EnumOptional(r) ==
    IF r.error # "ok" THEN {Out(r, Num(Count))}
    ELSE UNION {IF TagType(p.v) = "str" THEN Found(p.rd) ELSE Ignored(p.rd) : p \in PeekTag(r)}

(* Mutant of Unique: a key may come again *)
Unique_again(o, count) == Out(o.rd, [num |-> o.v.num, marked |-> o.v.num])

(* A key that came before is refused, another is marked as found *)
Unique(o, count) == IF o.v.num \in found THEN Out(FlagError(o.rd, "invalid"), Num(count))
                    ELSE Out(o.rd, [num |-> o.v.num, marked |-> o.v.num])

KeyUint(r, count) ==
    IF r.error # "ok" THEN {Out(r, Num(count))}
    ELSE IF count = 0 THEN {Out(FlagError(r, "bug"), Num(count))}
    ELSE UNION {IF TagType(p.v) # "uint" THEN Ignored(p.rd)
                ELSE {IF ~Good(o) \/ o.v.num >= count THEN Out(o.rd, Num(count)) ELSE Unique(o, count) :
                      o \in ExpectInteger(p.rd, "u64")} : p \in PeekTag(r)}
KeyCstr(r) == {IF o.v.num = Count THEN o ELSE Unique(o, Count) : o \in EnumOptional(r)}

-----------------------------------------------------------------------------
(* The program *)

ExpectInit == Init /\ found = {}

Call(f, low, high) == [f |-> f, low |-> low, high |-> high, from |-> pos]
KeyFunctions == {"key_uint", "key_cstr"}

(* A call at an element; the bytes that a head tells of are read later.    *)
(* Bound: a program that goes on after an error has a message in memory,   *)
(* and the error is that a value is no nil.                                *)
Ask(call, outcomes) ==
    /\ AtElement /\ stream \in Expected
    /\ rd.error # "ok" => ~rd.fill /\ asked.f = "nil"
    /\ asked' = call
    /\ \E o \in outcomes :
          /\ rd' = o.rd /\ result' = o.v
          /\ pos' = IF Good(o) THEN o.rd.drawn - InBuffer(o.rd) ELSE pos
          /\ pending' = IF Good(o) /\ "inside" \in DOMAIN o.v THEN o.v.inside ELSE 0
    /\ UNCHANGED stream
Whole(call, outcomes) == Ask(call, outcomes) /\ UNCHANGED <<left, found>>
Open(call, outcomes) ==
    Ask(call, outcomes) /\ UNCHANGED found /\ left' = IF rd'.error = "ok" THEN Contents(ParseTag(stream, pos + 1)) ELSE 0
(* The key functions, which alone are given the flags *)
Keyed(call, outcomes) ==
    /\ Ask(call, outcomes) /\ UNCHANGED left
    /\ found' = IF "marked" \in DOMAIN result' THEN found \cup {result'.marked} ELSE found

Most_ == Power(4) - 1
WholeNumber ==
    \/ \E f \in Integers_ : Whole(Call(f, Lowest[f], Highest[f]), ExpectInteger(rd, f))
    \/ \E f \in {"u8", "i16", "u64"}, low, high \in Maxima :
          low <= high /\ Whole(Call(f, low, high), Within(ExpectInteger(rd, f), low, high))
    \/ \E n \in Maxima : Whole(Call("match", n, n), Match(ExpectInteger(rd, "u64"), n))
    \/ \E n \in Maxima : Whole(Call("match", -n, -n), Match(ExpectInteger(rd, "i64"), -n))
Real == \E f \in DOMAIN Accepts : Whole(Call(f, 0, 0), ExpectReal(rd, f))
Simple == \/ Whole(Call("nil", 0, 0), ExpectNil(rd))
          \/ Whole(Call("bool", 0, 0), ExpectBool(rd))
          \/ Whole(Call("true", 0, 0), ExpectJust(rd, TRUE))
          \/ Whole(Call("false", 0, 0), ExpectJust(rd, FALSE))
          \/ Whole(Call("timestamp", 0, 0), ExpectTimestamp(rd))
OrNil == [map |-> "map_or_nil", array |-> "array_or_nil"]
Container ==
    \E type \in DOMAIN OrNil :
       \/ Whole(Call(type, 0, Most_), ExpectCount(rd, type))
       \/ Whole(Call(OrNil[type], 0, Most_), ExpectOrNil(rd, type))
       \/ \E n \in Maxima :
             \/ Whole(Call(type, 0, n), Within(ExpectCount(rd, type), 0, n))
             \/ Whole(Call(type, n, n), Match(ExpectCount(rd, type), n))
             \/ Whole(Call(OrNil[type], 0, n), MaxOrNil(rd, type, n))
             \/ type = "array" /\ Whole(Call("array", 0, n), ArrayAlloc(rd, n, FALSE))
             \/ type = "array" /\ Whole(Call("array_or_nil", 0, n), ArrayAlloc(rd, n, TRUE))
Head_ ==
    \/ Open(Call("str", 0, Most_), ExpectStr(rd))
    \/ Open(Call("bin", 0, Most_), ExpectCount(rd, "bin"))
    \/ Open(Call("ext", 0, Most_), ExpectExt(rd))
    \/ \E n \in Maxima : \/ Open(Call("str_max", 0, n), AtMost(ExpectStr(rd), n, "too_big"))
                         \/ Open(Call("bin", 0, n), AtMost(ExpectCount(rd, "bin"), n, "type"))
                         \/ Open(Call("ext_max", 0, n), AtMost(ExpectExt(rd), n, "type"))
                         \/ Open(Call("str", n, n), Match(ExpectStr(rd), n))
                         \/ Open(Call("bin", n, n), Match(ExpectCount(rd, "bin"), n))
                         \/ Open(Call("ext", n, n), ExtSize(rd, n))
    \/ \E i \in DOMAIN Heads : Open(Call("tag", i, i), ExpectTag(rd, Heads[i]))
Bytes ==
    \E n \in Maxima :
       \/ Whole(Call("str_buf", 0, n), Buffered(ExpectStr(rd), n))
       \/ Whole(Call("utf8", 0, n), BufferedUtf8(ExpectStr(rd), n))
       \/ Whole(Call("bin_buf", 0, n), Buffered(ExpectCount(rd, "bin"), n))
       \/ Whole(Call("ext_buf", 0, n), ExtBuf(rd, n))
       \/ \E utf8 \in BOOLEAN :
             LET f == IF utf8 THEN "utf8_cstr" ELSE "cstr"
             IN  \/ n > 0 /\ Whole(Call(f, 0, n), ExpectCstr(rd, n, utf8))
                 \/ Whole(Call(f, 0, n), CstrAlloc(rd, n, utf8))
       \/ Whole(Call("bin_alloc", 0, n), BinAlloc(rd, n))
       \/ Whole(Call("ext_alloc", 0, n), ExtAlloc(rd, n))
Name == \/ \E i \in 1 .. Count : Open(Call("str_match", i, i), Match(ExpectStr(rd), Len(Names[i])))
        \/ Whole(Call("enum", 0, 0), ExpectEnum(rd))
        \/ Whole(Call("enum_optional", 0, 0), EnumOptional(rd))
Key == \/ \E count \in {0, Count} : Keyed(Call("key_uint", 0, count), KeyUint(rd, count))
       \/ Keyed(Call("key_cstr", 0, Count), KeyCstr(rd))
(* The rest of mpack_expect_str_match, once the length is right *)
Matching == rd.error = "ok" /\ asked.f = "str_match" /\ left > 0
MatchByte ==
    /\ Matching
    /\ \E o \in MatchOne(rd, Names[asked.low][Len(Names[asked.low]) - left + 1]) :
          /\ rd' = o.rd /\ result' = o.v
          /\ pos' = IF Good(o) THEN pos + 1 ELSE pos
          /\ left' = IF Good(o) THEN left - 1 ELSE 0
    /\ UNCHANGED <<stream, pending, asked, found>>

(* What is read without an expectation, the bytes behind a head among it,  *)
(* and the elements in one that is discarded.  Bound: out of a buffer that *)
(* is being filled, the bytes behind a head of an expected element are     *)
(* only skipped.                                                           *)
SkipRest == left > 0 /\ UNCHANGED pending /\ Do("skip", left, SkipBytes(rd, left), left, 0)
ReaderCall == /\ ~Matching /\ UNCHANGED found
              /\ IF stream \in Expected /\ rd.fill THEN SkipRest \/ (pending > 0 /\ Discard) ELSE Next

ExpectNext == WholeNumber \/ Real \/ Simple \/ Container \/ Head_ \/ Bytes \/ Name \/ Key \/ MatchByte \/ ReaderCall

ExpectSpec == ExpectInit /\ [][ExpectNext]_expectVars

-----------------------------------------------------------------------------
(* Properties *)

(* The last call was one of this module *)
Expects(call) == "low" \in DOMAIN call
Opening == {"str", "str_max", "bin", "ext", "ext_max", "tag"}
Lookups == {"enum", "enum_optional", "key_cstr"}

(* The element a call was made for, and its bytes as far as the stream has them *)
Element(call) == ParseTag(stream, call.from + 1)
Body(call) == LET from == call.from + TagSize(Element(call).tag)
                  to == from + Contents(Element(call))
              IN  SubSeq(stream, from + 1, IF to <= Len(stream) THEN to ELSE Len(stream))

IsTime(e) == TagType(e) = "ext" /\ e.exttype = TimestampType

(* What each function wants of an element e with these bytes, of which     *)
(* mpack_expect_str_match has so many to look at yet.  Where the header     *)
(* says otherwise this is what the code takes: the ext functions take a     *)
(* time stamp (expect.c:539, against expect.h:1112), and bin_buf takes no   *)
(* string (expect.c:523, against expect.h:1087).                            *)
Wants(call, e, body, unmatched) ==
    LET f == call.f
        kind == TagType(e)
        bounded == e.n \in call.low .. call.high
    IN  CASE f = "match"                        -> IsInteger(e) /\ bounded
          [] f \in Integers_                      -> IsInteger(e) /\ bounded /\ e.n \in Lowest[f] .. Highest[f]
          [] f \in DOMAIN Accepts                 -> kind \in Accepts[f]
          [] f \in {"nil", "bool"}                -> kind = f
          [] f \in {"true", "false"}              -> e.tag = f
          [] f = "timestamp"                      -> IsTime(e)
          [] f \in {"map", "array", "str", "bin", "ext"} -> kind = f /\ bounded
          [] f = "map_or_nil"                     -> kind = "nil" \/ (kind = "map" /\ bounded)
          [] f = "array_or_nil"                   -> kind = "nil" \/ (kind = "array" /\ bounded)
          [] f = "tag"                            -> TagEqual(Heads[call.low], e)
          [] f \in {"str_max", "str_buf"}         -> kind = "str"
          [] f \in {"utf8", "cstr", "utf8_cstr"}  -> kind = "str" /\ Valid(body, f # "cstr", f # "utf8")
          [] f = "bin_buf"                        -> kind = "bin"
          [] f = "bin_alloc"                      -> kind = "bin" /\ bounded
          [] f = "ext_buf"                        -> kind = "ext"
          [] f \in {"ext_max", "ext_alloc"}       -> kind = "ext" /\ bounded
          [] f = "str_match" ->
                LET matched == Len(Names[call.low]) - unmatched
                IN  /\ kind = "str" /\ e.n = Len(Names[call.low])
                    /\ \A k \in 1 .. matched : k \in DOMAIN body /\ body[k] = Names[call.low][k]
          [] f = "enum"                           -> kind = "str" /\ \E i \in 1 .. Count : body = Names[i]
          [] OTHER                                -> f \in {"enum_optional"} \cup KeyFunctions

(* What each function answers.  A key in a form of int is unknown to        *)
(* mpack_expect_key_uint whatever its number (expect.c:770), against        *)
(* expect.h:1340, which speaks of the number.                               *)
AnswersNumber(call, e, body, num) ==
    LET kind == TagType(e)
        known == num < Count
    IN  /\ call.f \in Lookups /\ known => kind = "str" /\ Names[num + 1] = body
        /\ call.f \in Lookups /\ ~known /\ kind = "str" => \A i \in 1 .. Count : body # Names[i]
        /\ call.f = "key_uint" => num = IF kind = "uint" /\ e.n < Count THEN e.n ELSE Count
        /\ call.f \notin Lookups \cup {"key_uint"} => num = IF kind = "nil" THEN 0 ELSE e.n
Answers(call, e, body, v) ==
    /\ "num" \in DOMAIN v => AnswersNumber(call, e, body, v.num)
    /\ "real" \in DOMAIN v => SaysNumber(call.f, TagType(e), e.n, v.real)
    /\ "bytes" \in DOMAIN v => SubSeq(v.bytes, 1, e.n) = body
    /\ "exttype" \in DOMAIN v /\ call.f # "ext_alloc" => v.exttype = e.exttype
    /\ "time" \in DOMAIN v => v.time = Split(body)
    /\ "bool" \in DOMAIN v => v.bool = (e.tag = "true")

(* Without an error, the element is what the function was asked for, the   *)
(* answer is what the element says, and the reader stands behind what was  *)
(* read, with nothing skipped or left (expect.c:66-810): one of the many   *)
(* ways through a range, a limit, a nil or a form check is not forgotten.  *)
(* Of three functions it says less than expect.h does: see Wants, Answers. *)
ExpectedOrFlagged ==
    rd.error = "ok" /\ Expects(asked) =>
        LET e == Element(asked)
        IN  /\ Wants(asked, e, Body(asked), left) /\ Answers(asked, e, Body(asked), result)
            /\ asked.f \in Opening => pos = asked.from + TagSize(e.tag)
            /\ pos + left = asked.from + TagSize(e.tag) + Contents(e)

(* What the functions with a limit of their own, and those that allocate,  *)
(* look for                                                                *)
Capped == [str_max |-> "str", str_buf |-> "str", utf8 |-> "str", bin_buf |-> "bin", ext_buf |-> "ext"]
Allocates == [array |-> "array", array_or_nil |-> "array", cstr |-> "str", utf8_cstr |-> "str",
              bin_alloc |-> "bin", ext_alloc |-> "ext"]

Stamped(e, body) == e.n \in {4, 8, 12} /\ ~(Split(body).nano > MaxNano)

(* The bytes of the element that were not drawn from the source *)
Short(call, e) == LET size == TagSize(e.tag)
                  IN  call.from + size > rd.drawn \/ call.from + size + Contents(e) > rd.drawn

Unfit(call, e, kind) ==
    \/ call.f \in DOMAIN Capped /\ kind = Capped[call.f] /\ e.n > call.high
    \/ call.f \in {"cstr", "utf8_cstr"} /\ kind = "str" /\ e.n >= call.high
    \/ call.f \in Lookups /\ kind = "str" /\ rd.fill /\ e.n > rd.size
    \/ rd.fill /\ TagSize(e.tag) > rd.size

Again(call, e, kind, body) ==
    \/ call.f = "key_uint" /\ kind = "uint" /\ e.n \in found
    \/ call.f = "key_cstr" /\ kind = "str" /\ \E i \in 1 .. Count : i - 1 \in found /\ body = Names[i]

(* An error has its cause in the element: "type" if it is not what the      *)
(* function wants, "too_big" if it is longer than the function's limit or   *)
(* the buffer, "invalid" if it is no MessagePack, cut off, a time stamp     *)
(* that is none or a key that was found, "memory" if there is a block to    *)
(* allocate for it, "bug" for a limit of 0, and "io" and "eof" if the       *)
(* source did not deliver it                                                *)
Caused(call, e, error) ==
    LET kind == TagType(e)
        body == Body(call)
    IN  \/ error = "type" /\ ~Wants(call, e, body, 0)
        \/ error = "too_big" /\ Unfit(call, e, kind)
        \/ error = "memory" /\ call.f \in DOMAIN Allocates /\ kind = Allocates[call.f]
                             /\ e.n <= call.high /\ (kind # "str" => e.n > 0)
        \/ error = "invalid" /\ \/ e.tag = "reserved"
                                \/ ~rd.fill /\ Short(call, e)
                                \/ call.f = "timestamp" /\ IsTime(e) /\ ~Stamped(e, body)
                                \/ Again(call, e, kind, body)
        \/ error = "bug" /\ call.f \in {"cstr", "utf8_cstr", "key_uint"} /\ call.high = 0
        \/ error \in FillErrors /\ rd.fill /\ Short(call, e)

(* An error is flagged for its cause in the element and no other: see       *)
(* Caused, and Wants for bin_buf, to which a string is of another type.     *)
(* After it nothing is read any more.  And a key is answered once:          *)
(* if it comes again, by whichever function, the message is refused; what   *)
(* is marked is the flag of the key that is answered, one of the Count      *)
(* there are (expect.c:758-810).                                            *)
FlaggedForCause ==
    [][/\ rd.error = "ok" /\ rd'.error # "ok" /\ Expects(asked') => Caused(asked, Element(asked), rd.error)'
       /\ rd.error # "ok" => rd' = rd
       /\ IF rd'.error = "ok" /\ asked'.f \in KeyFunctions /\ result'.num # Count
          THEN result'.num \in (0 .. Count - 1) \ found /\ found' = found \cup {result'.num}
          ELSE found' = found
      ]_expectVars

=============================================================================
