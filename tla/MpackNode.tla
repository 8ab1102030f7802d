----------------------------- MODULE MpackNode -----------------------------
(***************************************************************************)
(* Reading a parsed tree: the functions on nodes of lib/mpack/mpack-node.c. *)
(* A program asks a node for what it expects to find there.  Where it is   *)
(* not there, the tree takes an error, which stays; from then on every     *)
(* question is answered with a neutral value, so that the program may look *)
(* at the error once, at its end.                                          *)
(*                                                                         *)
(* A node is a record [type, n, bytes, items]: n is its number (of an ext, *)
(* its type), bytes those of a string, blob or ext, items its elements, in *)
(* a map keys and values in turn.  Numbers are to the scale of Format.     *)
(***************************************************************************)
EXTENDS Floats, FiniteSets

CONSTANTS Nodes,       \* bound: the nodes of parsed trees
          Trees,       \* the roots among them
          MaxNano,     \* MPACK_TIMESTAMP_NANOSECONDS_MAX
          Sizes,       \* bound: the sizes of buffers, and maxima
          Keys,        \* bound: the numbers looked up
          Names        \* bound: the strings looked up, and the list of an enum

VARIABLES root,   \* the root of the tree
          at,     \* the node the program holds
          error,  \* tree->error
          asked,  \* the last question: the function, its arguments, and the node
          result  \* its answer, in a field named for its kind

vars == <<root, at, error, asked, result>>

Node(type, n, bytes, items) == [type |-> type, n |-> n, bytes |-> bytes, items |-> items]
NilNode == Node("nil", 0, <<>>, <<>>)
MissingNode == Node("missing", 0, <<>>, <<>>)

(* What the parser makes: a number has 64 bits, a node its bytes and its   *)
(* elements, and a map whole pairs                                         *)
ByteTypes == {"str", "bin", "ext"}
Types == {"missing", "nil", "bool", "uint", "int", "float", "double", "array", "map"} \cup ByteTypes
Bytes_ == Seq([t : {"byte"}, n : 0 .. (Base - 1)])
Parsed(v) == /\ DOMAIN v = DOMAIN NilNode /\ v.type \in Types
             /\ v.type = "uint" => v.n \in 0 .. Highest["u64"]
             /\ v.type = "int" => v.n \in Lowest["i64"] .. Highest["i64"]
             /\ v.bytes \in Bytes_ /\ v.items \in Seq(Nodes)
             /\ v.type = "map" => Len(v.items) % 2 = 0
ASSUME NodesAssumption == Trees \subseteq Nodes /\ \A v \in Nodes : Parsed(v)
ASSUME NanoAssumption == MaxNano \in Nat
ASSUME ArgumentsAssumption == Sizes \subseteq Nat /\ Keys \subseteq Int /\ Names \in Seq(Bytes_)

Null == [null |-> TRUE]
Ok(v) == [error |-> "ok", v |-> v]
Err(e, v) == [error |-> e, v |-> v]

-----------------------------------------------------------------------------
(* Numbers *)

(* Mutant of Integer: a signed number is only compared with the maximum *)
Integer_low(f, v) ==
    IF v.type \in {"uint", "int"} /\ v.n <= Highest[f] THEN Ok([int |-> Cast(f, v.n)])
    ELSE Err("type", [int |-> 0])

(* mpack_node_u8 .. _i64, _uint and _int *)
Integer(f, v) ==
    IF \/ v.type = "uint" /\ v.n <= Highest[f]
       \/ v.type = "int" /\ v.n >= Lowest[f] /\ v.n <= Highest[f]
    THEN Ok([int |-> Cast(f, v.n)])
    ELSE Err("type", [int |-> 0])

(* mpack_node_float, _double and their strict forms *)
Zero(f) == <<AnswersIn[f], 0>>
Floating(f, v) ==
    IF v.type \in Accepts[f] THEN Ok([real |-> Converted(f, v.type, v.n)]) ELSE Err("type", [real |-> Zero(f)])

-----------------------------------------------------------------------------
(* Nil, booleans, and what a node is *)

(* mpack_node_nil, _missing, _true and _false, which only check *)
Assert_(f, v) ==
    CASE f \in {"nil", "missing"} -> IF v.type = f THEN Ok(Null) ELSE Err("type", Null)
      [] f = "true"  -> IF v.type = "bool" /\ v.n = 1 THEN Ok(Null) ELSE Err("type", Null)
      [] f = "false" -> IF v.type = "bool" /\ v.n = 0 THEN Ok(Null) ELSE Err("type", Null)

Bool(v) == IF v.type = "bool" THEN Ok([bool |-> v.n = 1]) ELSE Err("type", [bool |-> FALSE])

(* mpack_node_tag: the number of a scalar, or the size of what follows *)
NilTag == [type |-> "nil", n |-> 0, exttype |-> 0]
TagOf(v) ==
    Ok([tag |-> [type |-> v.type,
                 n |-> CASE v.type \in {"missing", "nil"} -> 0
                         [] v.type \in ByteTypes -> Len(v.bytes)
                         [] v.type = "array"     -> Len(v.items)
                         [] v.type = "map"       -> Len(v.items) \div 2
                         [] OTHER                -> v.n,
                 exttype |-> IF v.type = "ext" THEN v.n ELSE 0]])

-----------------------------------------------------------------------------
(* Time stamps: an ext of type -1 *)

Timestamp(v) ==
    IF ~(v.type = "ext" /\ v.n = TimestampType) THEN Err("type", [time |-> NoTime])
    ELSE IF Len(v.bytes) \notin {4, 8, 12} THEN Err("invalid", [time |-> NoTime])
    ELSE IF Split(v.bytes).nano > MaxNano THEN Err("invalid", [time |-> NoTime])
    ELSE Ok([time |-> Split(v.bytes)])

-----------------------------------------------------------------------------
(* Strings, blobs and exts *)

NUL == Byte(0)
HasNul(b) == \E i \in DOMAIN b : b[i] = NUL
(* mpack_utf8_check: the last value of a byte stands for those that no     *)
(* UTF-8 has                                                               *)
IsUtf8(b) == \A i \in DOMAIN b : b[i].n # Base - 1

Terminated == {"copy_cstr", "copy_utf8_cstr", "cstr_alloc", "utf8_cstr_alloc"}
Allocating == {"data_alloc", "cstr_alloc", "utf8_cstr_alloc"}
Copying == {"copy_data", "copy_utf8", "copy_cstr", "copy_utf8_cstr"}

(* mpack_str_check_no_null, mpack_utf8_check and mpack_utf8_check_no_null *)
Checked(f, b) ==
    /\ f \in Terminated \cup {"check_utf8_cstr"} => ~HasNul(b)
    /\ f \in {"copy_utf8", "copy_utf8_cstr", "utf8_cstr_alloc", "check_utf8", "check_utf8_cstr"}
         => IsUtf8(b)

CheckUtf8(f, v) == IF v.type = "str" /\ Checked(f, v.bytes) THEN Ok(Null) ELSE Err("type", Null)

(* What is in the buffer of a function after an error: an empty C string,  *)
(* or nothing that was written                                             *)
Nothing(f) == IF f \in Allocating THEN Null
              ELSE [bytes |-> IF f \in Terminated THEN <<NUL>> ELSE <<>>]

(* mpack_node_copy_x and mpack_node_x_alloc, up to the allocation *)
Copy(f, v, size) ==
    LET fits == Len(v.bytes) <= size - (IF f \in Terminated THEN 1 ELSE 0)
        whole == v.bytes \o (IF f \in Terminated THEN <<NUL>> ELSE <<>>)
    IN  IF f \in Terminated \cap Allocating /\ size < 1 THEN Err("bug", Nothing(f))
        ELSE IF v.type \notin (IF f \in {"copy_data", "data_alloc"} THEN ByteTypes ELSE {"str"})
             THEN Err("type", Nothing(f))
        ELSE IF ~fits THEN Err("too_big", Nothing(f))
        ELSE IF ~Checked(f, v.bytes) THEN Err("type", Nothing(f))
        ELSE Ok([bytes |-> whole])

(* gc_alloc may fail, and gives nothing for 0 bytes *)
Allocated(o) ==
    IF o.error # "ok" THEN {o}
    ELSE {Err("memory", Null)} \cup (IF o.v.bytes = <<>> THEN {} ELSE {o})

(* exttype, data_len, strlen, bin_size, array_length and map_count; str,   *)
(* data and bin_data return where the bytes are                            *)
Extent(f, v) ==
    CASE f = "exttype" /\ v.type = "ext"                  -> Ok([int |-> v.n])
      [] f = "data_len" /\ v.type \in ByteTypes           -> Ok([int |-> Len(v.bytes)])
      [] f = "strlen" /\ v.type = "str"                   -> Ok([int |-> Len(v.bytes)])
      [] f = "bin_size" /\ v.type = "bin"                 -> Ok([int |-> Len(v.bytes)])
      [] f = "array_length" /\ v.type = "array"           -> Ok([int |-> Len(v.items)])
      [] f = "map_count" /\ v.type = "map"                -> Ok([int |-> Len(v.items) \div 2])
      [] OTHER                                            -> Err("type", [int |-> 0])
Extents == {"exttype", "data_len", "strlen", "bin_size", "array_length", "map_count"}

Bytes(f, v) ==
    IF v.type \in (CASE f = "str" -> {"str"} [] f = "data" -> ByteTypes [] f = "bin_data" -> {"bin"})
    THEN Ok([bytes |-> v.bytes]) ELSE Err("type", Null)

(* The strings of an enum: the index of the one that matches, or count     *)
EnumOptional(v) ==
    IF v.type = "str" /\ \E i \in DOMAIN Names : Names[i] = v.bytes
    THEN (CHOOSE i \in DOMAIN Names : Names[i] = v.bytes /\ \A j \in DOMAIN Names : Names[j] = v.bytes => i <= j) - 1
    ELSE Len(Names)
Enum(f, v) == IF f = "enum" /\ EnumOptional(v) = Len(Names) THEN Err("type", [int |-> Len(Names)])
              ELSE Ok([int |-> EnumOptional(v)])

-----------------------------------------------------------------------------
(* Elements *)

Found(v) == Ok([node |-> v])
NotThere(e) == Err(e, [node |-> NilNode])

ArrayAt(v, i) == IF v.type # "array" THEN NotThere("type")
                 ELSE IF i >= Len(v.items) THEN NotThere("data") ELSE Found(v.items[i + 1])

(* mpack_node_map_key_at and mpack_node_map_value_at *)
MapAt(v, i, offset) == IF v.type # "map" THEN NotThere("type")
                       ELSE IF i >= Len(v.items) \div 2 THEN NotThere("data")
                       ELSE Found(v.items[2 * i + offset + 1])

(* Mutant of IsKey: a negative number is compared as an unsigned one *)
IsKey_unsigned(arg, key) ==
    CASE arg.by = "int"  -> \/ key.type = "int" /\ key.n = arg.num
                            \/ key.type = "uint" /\ key.n = arg.num % Power(8)
      [] arg.by = "uint" -> \/ key.type = "uint" /\ key.n = arg.num
                            \/ key.type = "int" /\ key.n >= 0 /\ key.n % Power(8) = arg.num
      [] arg.by = "str"  -> key.type = "str" /\ key.bytes = arg.str

IsKey(arg, key) ==
    CASE arg.by = "int"  -> \/ key.type = "int" /\ key.n = arg.num
                            \/ key.type = "uint" /\ arg.num >= 0 /\ key.n = arg.num % Power(8)
      [] arg.by = "uint" -> \/ key.type = "uint" /\ key.n = arg.num
                            \/ key.type = "int" /\ key.n >= 0 /\ key.n % Power(8) = arg.num
      [] arg.by = "str"  -> key.type = "str" /\ key.bytes = arg.str

(* mpack_node_map_int_impl, _uint_impl and _str_impl: the pairs are looked  *)
(* through to the end, since a second match is an error                    *)
Lookup(arg, v) ==
    LET found == {i \in 1 .. (Len(v.items) \div 2) : IsKey(arg, v.items[2 * i - 1])}
    IN  IF v.type # "map" THEN NotThere("type")
        ELSE IF Cardinality(found) > 1 THEN NotThere("data")
        ELSE IF found = {} THEN Ok(Null) ELSE Found(v.items[2 * (CHOOSE i \in found : TRUE)])

(* mpack_node_wrap_lookup and mpack_node_wrap_lookup_optional *)
Wrapped(o, optional) ==
    IF o.v # Null THEN o ELSE IF optional THEN Found(MissingNode) ELSE NotThere("data")

Contained(o) == [error |-> o.error, v |-> [bool |-> o.error = "ok" /\ o.v # Null]]

-----------------------------------------------------------------------------
(* The program *)

NoCall == [f |-> "none", by |-> "none", num |-> 0, str |-> <<>>, of |-> NilNode]
Call(f, num) == [NoCall EXCEPT !.f = f, !.num = num, !.of = at]
KeyCall(f, by, num, str) == [f |-> f, by |-> by, num |-> num, str |-> str, of |-> at]

Init == /\ root \in Trees
        /\ at = root
        /\ error = "ok" /\ asked = NoCall /\ result = Null

(* Every function first looks at the error, and is neutral if there is one *)
Ask(call, outcomes, neutral) ==
    /\ asked' = call
    /\ \E o \in outcomes :
          IF error = "ok" THEN error' = o.error /\ result' = o.v
          ELSE error' = error /\ result' = neutral
    /\ UNCHANGED root

AskValue(call, outcomes, neutral) == Ask(call, outcomes, neutral) /\ UNCHANGED at
AskNode(call, o) == Ask(call, {o}, [node |-> NilNode]) /\ at' = result'.node

ReadInteger == \E f \in Integers_ : AskValue(Call(f, 0), {Integer(f, at)}, [int |-> 0])
ReadFloat == \E f \in DOMAIN Accepts : AskValue(Call(f, 0), {Floating(f, at)}, [real |-> Zero(f)])
CheckValue == \E f \in {"nil", "missing", "true", "false"} :
                 AskValue(Call(f, 0), {Assert_(f, at)}, Null)
ReadBool == AskValue(Call("bool", 0), {Bool(at)}, [bool |-> FALSE])
ReadType == \/ AskValue(Call("type", 0), {Ok([type |-> at.type])}, [type |-> "nil"])
            \/ AskValue(Call("is_nil", 0), {Ok([bool |-> at.type = "nil"])}, [bool |-> TRUE])
            \/ AskValue(Call("is_missing", 0), {Ok([bool |-> at.type = "missing"])}, [bool |-> FALSE])
ReadTag == AskValue(Call("tag", 0), {TagOf(at)}, [tag |-> NilTag])
ReadTimestamp == AskValue(Call("timestamp", 0), {Timestamp(at)}, [time |-> NoTime])
CheckText == \E f \in {"check_utf8", "check_utf8_cstr"} :
                AskValue(Call(f, 0), {CheckUtf8(f, at)}, Null)
ReadExtent == \E f \in Extents : AskValue(Call(f, 0), {Extent(f, at)}, [int |-> 0])
ReadBytes == \E f \in {"str", "data", "bin_data"} : AskValue(Call(f, 0), {Bytes(f, at)}, Null)

(* A buffer for a C string has room for at least its terminator *)
CopyText == \E f \in Copying, size \in Sizes :
               /\ f \in Terminated => size >= 1
               /\ AskValue(Call(f, size), {Copy(f, at, size)}, Nothing(f))
AllocText == \E f \in Allocating, size \in Sizes :
                AskValue(Call(f, size), Allocated(Copy(f, at, size)), Null)
ReadEnum == \E f \in {"enum", "enum_optional"} :
               AskValue(Call(f, 0), {Enum(f, at)}, [int |-> Len(Names)])

Descend == \/ \E i \in 0 .. 2 : AskNode(Call("array_at", i), ArrayAt(at, i))
           \/ \E i \in 0 .. 2 : AskNode(Call("map_key_at", i), MapAt(at, i, 0))
           \/ \E i \in 0 .. 2 : AskNode(Call("map_value_at", i), MapAt(at, i, 1))

(* A lookup by a number, signed or not, or by a string *)
KeyCalls(f) == {KeyCall(f, "int", n, <<>>) : n \in Keys \cap (Lowest["i64"] .. Highest["i64"])}
               \cup {KeyCall(f, "uint", n, <<>>) : n \in Keys \cap (0 .. Highest["u64"])}
               \cup {KeyCall(f, "str", 0, Names[i]) : i \in DOMAIN Names}
MapLookup ==
    \/ \E call \in KeyCalls("map") : AskNode(call, Wrapped(Lookup(call, at), FALSE))
    \/ \E call \in KeyCalls("map_optional") : AskNode(call, Wrapped(Lookup(call, at), TRUE))
    \/ \E call \in KeyCalls("map_contains") :
          AskValue(call, {Contained(Lookup(call, at))}, [bool |-> FALSE])

(* mpack_tree_root, once more *)
Root == AskNode(Call("root", 0), Found(root))

Next == \/ ReadInteger \/ ReadFloat \/ CheckValue \/ ReadBool \/ ReadType \/ ReadTag
        \/ ReadTimestamp \/ CheckText \/ ReadExtent \/ ReadBytes \/ CopyText \/ AllocText
        \/ ReadEnum \/ Descend \/ MapLookup \/ Root

Spec == Init /\ [][Next]_vars

-----------------------------------------------------------------------------
(* Properties *)

IsNumber(v) == v.type \in {"uint", "int"}

(* The types of node that each function takes *)
Takes(f) ==
    CASE f \in Integers_                                                -> {"uint", "int"}
      [] f \in DOMAIN Accepts                                           -> Accepts[f]
      [] f \in {"nil", "missing"}                                       -> {f}
      [] f \in {"bool", "true", "false"}                                -> {"bool"}
      [] f \in {"type", "is_nil", "is_missing", "tag", "enum_optional", "root"} -> Types
      [] f \in {"timestamp", "exttype"}                                 -> {"ext"}
      [] f \in {"data", "data_len", "copy_data", "data_alloc"}          -> {"str", "bin", "ext"}
      [] f \in {"bin_data", "bin_size"}                                 -> {"bin"}
      [] f \in {"array_length", "array_at"}                             -> {"array"}
      [] f \in {"map_count", "map_key_at", "map_value_at", "map", "map_optional", "map_contains"} -> {"map"}
      [] f \in {"str", "strlen", "check_utf8", "check_utf8_cstr", "copy_utf8", "copy_cstr",
                "copy_utf8_cstr", "cstr_alloc", "utf8_cstr_alloc", "enum"} -> {"str"}

(* The form that a function asks of a string, for its name's sake *)
OfUtf8 == {"check_utf8", "check_utf8_cstr", "copy_utf8", "copy_utf8_cstr", "utf8_cstr_alloc"}
OfCstr == {"check_utf8_cstr", "copy_cstr", "copy_utf8_cstr", "cstr_alloc", "utf8_cstr_alloc"}
Formed(f, b) == (f \in OfUtf8 => IsUtf8(b)) /\ (f \in OfCstr => ~HasNul(b))

(* The keys of a map that are the one looked for, whatever their encoding  *)
Same(call, key) == IF call.by = "str" THEN key.type = "str" /\ key.bytes = call.str
                   ELSE IsNumber(key) /\ key.n = call.num
Pairs(call) == {i \in 1 .. (Len(call.of.items) \div 2) : Same(call, call.of.items[2 * i - 1])}
OnlyPair(call, node) == \E i \in Pairs(call) : Pairs(call) = {i} /\ node = call.of.items[2 * i]

(* A time stamp says what its bytes were made from *)
Stamped(b, time) ==
    /\ time.nano \in 0 .. MaxNano
    /\ \/ time.seconds \in 0 .. (Power(4) - 1) /\ Digits(time.seconds, 4) = b /\ time.nano = 0
       \/ time.seconds \in 0 .. (Seconds34 - 1) /\ Digits(time.nano * Seconds34 + time.seconds, 8) = b
       \/ /\ time.seconds \in Lowest["i64"] .. Highest["i64"]
          /\ Digits(time.nano, 4) \o Digits(time.seconds, 8) = b

(* A tag with which the node could be written again *)
Heading(v, tag) ==
    /\ tag.type = v.type
    /\ v.type \in ByteTypes => tag.n = Len(v.bytes)
    /\ v.type = "ext" => tag.exttype = v.n
    /\ v.type = "array" => tag.n = Len(v.items)
    /\ v.type = "map" => 2 * tag.n = Len(v.items)
    /\ v.type \in {"bool", "uint", "int", "float", "double"} => tag.n = v.n

(* The bytes and a terminator, the first NUL there is *)
IsCString(buffer, b) == buffer = Append(b, NUL) /\ ~HasNul(b)

(* The strings of the enum that the node is *)
Matches(v) == {i \in DOMAIN Names : v.type = "str" /\ Names[i] = v.bytes}

(* The answer of a call is what its node means; and top is the root *)
Means(top, call, r) ==
    LET v == call.of
    IN  CASE call.f \in Integers_                  -> r.int = v.n
          [] call.f \in DOMAIN Accepts             -> SaysNumber(call.f, v.type, v.n, r.real)
          [] call.f \in {"nil", "missing"}         -> TRUE \* its type is all there is to it
          [] call.f = "bool"                       -> r.bool = (v.n = 1)
          [] call.f = "true"                       -> v.n = 1
          [] call.f = "false"                      -> v.n = 0
          [] call.f = "type"                       -> r.type = v.type
          [] call.f = "is_nil"                     -> r.bool = (v.type = "nil")
          [] call.f = "is_missing"                 -> r.bool = (v.type = "missing")
          [] call.f = "tag"                        -> Heading(v, r.tag)
          [] call.f = "root"                       -> r.node = top
          [] call.f = "timestamp"                  -> v.n = TimestampType /\ Stamped(v.bytes, r.time)
          [] call.f \in {"check_utf8", "check_utf8_cstr"} -> Formed(call.f, v.bytes)
          [] call.f = "exttype"                    -> r.int = v.n
          [] call.f \in {"data_len", "strlen", "bin_size"} -> r.int = Len(v.bytes)
          [] call.f = "array_length"               -> r.int = Len(v.items)
          [] call.f = "map_count"                  -> 2 * r.int = Len(v.items)
          [] call.f \in {"str", "data", "bin_data"} -> r.bytes = v.bytes
          [] call.f \in Copying \cup Allocating    ->
                /\ Len(r.bytes) <= call.num /\ Formed(call.f, v.bytes)
                /\ IF call.f \in Terminated THEN IsCString(r.bytes, v.bytes) ELSE r.bytes = v.bytes
          [] call.f = "enum"                       -> r.int + 1 \in Matches(v)
          [] call.f = "enum_optional"              -> IF Matches(v) = {} THEN r.int = Len(Names)
                                                      ELSE r.int + 1 \in Matches(v)
          [] call.f = "array_at"                   -> call.num < Len(v.items) /\ r.node = v.items[call.num + 1]
          [] call.f = "map_key_at"                 -> 2 * call.num < Len(v.items) /\ r.node = v.items[2 * call.num + 1]
          [] call.f = "map_value_at"               -> 2 * call.num < Len(v.items) /\ r.node = v.items[2 * call.num + 2]
          [] call.f = "map"                        -> OnlyPair(call, r.node)
          [] call.f = "map_optional"               -> IF Pairs(call) = {} THEN r.node = MissingNode
                                                      ELSE OnlyPair(call, r.node)
          [] call.f = "map_contains"               -> r.bool = (Cardinality(Pairs(call)) = 1)
Right(top, call, r) == call.of.type \in Takes(call.f) /\ Means(top, call, r)

(* A program that only looks at the error in the end was told the truth:   *)
(* while there is none, every node was of a type that its function takes   *)
(* and every answer is what the node means - a number in the type of the   *)
(* function or the nearest that a float or double can be, a tag and a size *)
(* that count what is there, a string of the form that was asked for, an   *)
(* element the one at its place, a lookup the only pair with its key,      *)
(* however the number of that key was written (node.c:1189-2181).          *)
AnswersAreTrue == error = "ok" /\ asked # NoCall => Right(root, asked, result)

(* The range of the type of a function, as the numbers of its bytes        *)
InRange(f, n) == Cast(f, n) = n

(* The bytes of a time stamp *)
IsStamp(b) == \/ Len(b) = 4
              \/ Len(b) = 8 /\ Number(b) < (MaxNano + 1) * Seconds34
              \/ Len(b) = 12 /\ Number(SubSeq(b, 1, 4)) <= MaxNano

(* What the bytes and a terminator need *)
Room(call) == Len(call.of.bytes) + (IF call.f \in OfCstr THEN 1 ELSE 0)

(* What is wrong with a node of a type that the function takes *)
Unfit(call) ==
    LET v == call.of
    IN  \/ call.f \in Integers_ /\ ~InRange(call.f, v.n)
        \/ call.f = "true" /\ v.n # 1
        \/ call.f = "false" /\ v.n # 0
        \/ call.f = "timestamp" /\ v.n # TimestampType
        \/ ~Formed(call.f, v.bytes)
        \/ call.f = "enum" /\ Matches(v) = {}

Caused(call, e) ==
    LET v == call.of
    IN  \/ e = "type" /\ (v.type \notin Takes(call.f) \/ Unfit(call))
        \/ /\ e \in {"too_big", "memory", "data", "invalid"}
           /\ v.type \in Takes(call.f)
           /\ \/ e = "too_big" /\ call.f \in Copying \cup Allocating /\ Room(call) > call.num
              \/ e = "memory" /\ call.f \in Allocating /\ Room(call) <= call.num /\ Formed(call.f, v.bytes)
              \/ e = "data" /\ call.f = "array_at" /\ call.num >= Len(v.items)
              \/ e = "data" /\ call.f \in {"map_key_at", "map_value_at"} /\ 2 * call.num >= Len(v.items)
              \/ e = "data" /\ call.f = "map" /\ Cardinality(Pairs(call)) # 1
              \/ e = "data" /\ call.f \in {"map_optional", "map_contains"} /\ Cardinality(Pairs(call)) > 1
              \/ e = "invalid" /\ call.f = "timestamp" /\ v.n = TimestampType /\ ~IsStamp(v.bytes)
        \/ e = "bug" /\ call.f \in {"cstr_alloc", "utf8_cstr_alloc"} /\ call.num < 1

(* An error has its cause in the node that was asked, and in what was asked *)
(* of it: "type" only if the function takes no such node, the number is not *)
(* one of its type, the string not of its form or none of its list; the    *)
(* others only of a node it takes, "too_big" if there is not the room,     *)
(* "data" if the place or the only pair is not there, "invalid" if the     *)
(* bytes are no time stamp; "memory" and "bug" in an allocation            *)
(* (node.c:1336-2181).                                                     *)
ErrorsHaveCause == [][error = "ok" /\ error' # "ok" => Caused(asked', error')]_vars

=============================================================================
