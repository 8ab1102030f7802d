---------------------------- MODULE MpackReader ----------------------------
(***************************************************************************)
(* The reader of lib/mpack/mpack-reader.c: a buffer that a function of the *)
(* program fills from a stream, from which tags and bytes are read in      *)
(* order.  What is read may lie in the buffer, straddle its end or not fit *)
(* in it at all.  The first error stays: the rest is read as nothing.      *)
(*                                                                         *)
(* The operators on a reader are functions from the reader to the set of   *)
(* what a call can make of it: records [rd, v] of the reader it leaves and *)
(* its result.  Only the fill and skip functions and malloc have a choice. *)
(***************************************************************************)
EXTENDS Format

CONSTANTS Streams,      \* bound: the messages that are read
          Setups(_),    \* bound: how the reader of a message is initialised
          MinSize,      \* MPACK_READER_MINIMUM_BUFFER_SIZE (32)
          ReadFraction, \* MPACK_READER_SMALL_FRACTION_DENOMINATOR (32)
          SkipFraction, \* the 16 of mpack_skip_bytes_straddle
          MaxNano       \* MPACK_TIMESTAMP_NANOSECONDS_MAX

ASSUME SizesAssumption == MinSize \in Nat \ {0}

VARIABLES stream,  \* what the source delivers
          rd,      \* the reader
          pos,     \* the bytes of the stream that the program has read
          left,    \* those of the string, blob or ext it reads that are to come
          pending, \* the elements that mpack_discard has to discard yet
          asked,   \* the last call
          result   \* its result, in a field named for its kind

vars == <<stream, rd, pos, left, pending, asked, result>>

Null == [null |-> TRUE]
NUL == Byte(0)
Stale == [t |-> "stale", n |-> 0] \* a byte that nothing was written to

Out(r, v) == [rd |-> r, v |-> v]
InBuffer(r) == r.end - r.data

(* mpack_reader_flag_error: the error handler may well jump away *)
FlagError(r, e) ==
    IF r.error # "ok" THEN r
    ELSE [r EXCEPT !.error = e,
                   !.end = r.data,
                   !.told = IF r.fn THEN Append(@, [error |-> e, held |-> r.held]) ELSE @]

-----------------------------------------------------------------------------
(* Filling *)

(* The fill function may flag an error of its own ("eof"), or return 0 *)
FillErrors == {"io", "eof"}

Draw(r, n) == [r EXCEPT !.drawn = @ + n]
Drawn(r, n) == SubSeq(stream, r.drawn + 1, r.drawn + n)
Most(r, max) == IF max <= Len(stream) - r.drawn THEN max ELSE Len(stream) - r.drawn

(* mpack_fill_range: at least min and at most max bytes, in any pieces, or  *)
(* fewer and an error                                                      *)
FillRange(r, min, max) ==
    {Out(Draw(r, n), Drawn(r, n)) : n \in min .. Most(r, max)}
    \cup {Out(FlagError(Draw(r, n), e), Drawn(r, n)) : n \in 0 .. Most(r, min - 1), e \in FillErrors}

Good(o) == o.rd.error = "ok"

Written(buffer, at, bytes) ==
    [i \in DOMAIN buffer |-> IF i \in at + 1 .. at + Len(bytes) THEN bytes[i - at] ELSE buffer[i]]
Write(r, at, bytes) == [r EXCEPT !.buffer = Written(@, at, bytes)]

(* Mutant of Compacted: the data stays where it is *)
Compacted_not(r) == [r EXCEPT !.end = InBuffer(r), !.data = 0]

Compacted(r) ==
    LET moved == SubSeq(r.buffer, r.data + 1, r.end)
    IN  [Write(r, 0, moved) EXCEPT !.end = InBuffer(r), !.data = 0]

(* mpack_reader_ensure, and mpack_reader_ensure_straddle *)
Ensure(r, count) ==
    IF count <= InBuffer(r) THEN {Out(r, TRUE)}
    ELSE IF ~r.fill THEN {Out(FlagError(r, "invalid"), FALSE)}
    ELSE IF count > r.size THEN {Out(FlagError(r, "too_big"), FALSE)}
    ELSE {LET full == Write(o.rd, InBuffer(r), o.v)
          IN  Out(IF Good(o) THEN [full EXCEPT !.end = @ + Len(o.v)] ELSE full, Good(o)) :
          o \in FillRange(Compacted(r), count - InBuffer(r), r.size - InBuffer(r))}

Take(r, count) == Out([r EXCEPT !.data = @ + count], SubSeq(r.buffer, r.data + 1, r.data + count))

Zeros(count) == [i \in 1 .. count |-> NUL]
Padded(bytes, count) == [i \in 1 .. count |-> IF i <= Len(bytes) THEN bytes[i] ELSE Stale]

(* mpack_read_native_straddle, once what was in the buffer is flushed: a    *)
(* small rest is taken from a full buffer, a large one not through it      *)
Rest(r, first, rest) ==
    IF rest <= r.size \div ReadFraction
    THEN {IF Good(o)
          THEN Out([Write(o.rd, 0, o.v) EXCEPT !.data = rest, !.end = Len(o.v)],
                   first \o SubSeq(o.v, 1, rest))
          ELSE Out(Write(o.rd, 0, o.v), Padded(first, Len(first) + rest)) :
          o \in FillRange(r, rest, r.size)}
    ELSE {Out(o.rd, Padded(first \o o.v, Len(first) + rest)) : o \in FillRange(r, rest, rest)}

(* mpack_read_native: count bytes, wherever they are *)
ReadNative(r, count) ==
    LET flushed == Take(r, InBuffer(r))
    IN  IF count <= InBuffer(r) THEN {Take(r, count)}
        ELSE IF r.error # "ok" THEN {Out(r, Zeros(count))}
        ELSE IF ~r.fill THEN {Out(FlagError(r, "invalid"), Zeros(count))}
        ELSE Rest(flushed.rd, flushed.v, count - InBuffer(r))

-----------------------------------------------------------------------------
(* Skipping *)

(* mpack_reader_skip_using_fill: whole buffers first, whose bytes are lost, *)
(* then what is left, out of a buffer that is filled as far as it goes     *)
LastFill(r, count) ==
    {Out(IF Good(o) THEN [Write(o.rd, 0, o.v) EXCEPT !.data = count, !.end = Len(o.v)] ELSE o.rd, Null) :
        o \in FillRange([r EXCEPT !.data = 0], count, r.size)}
SkipUsingFill(r, count) ==
    LET whole == ((count - 1) \div r.size) * r.size
        emptied == IF whole = 0 THEN {Out(r, <<>>)} ELSE FillRange(r, whole, whole)
    IN  UNION {IF Good(o) THEN LastFill(o.rd, count - whole) ELSE {Out(o.rd, Null)} : o \in emptied}

(* The skip function of the program, which seeks *)
Seek(r, count) ==
    {Out(FlagError(r, "io"), Null)}
    \cup (IF r.drawn + count <= Len(stream) THEN {Out(Draw(r, count), Null)} ELSE {})

(* mpack_skip_bytes *)
SkipBytes(r, count) ==
    LET rest == count - InBuffer(r)
        emptied == [r EXCEPT !.data = r.end]
    IN  IF r.error # "ok" THEN {Out(r, Null)}
        ELSE IF rest <= 0 THEN {Out([r EXCEPT !.data = @ + count], Null)}
        ELSE IF ~r.fill THEN {Out(FlagError(r, "invalid"), Null)}
        ELSE IF r.skip /\ rest > r.size \div SkipFraction THEN Seek(emptied, rest)
        ELSE SkipUsingFill(emptied, rest)

-----------------------------------------------------------------------------
(* Bytes *)

HasNul(b) == \E i \in DOMAIN b : b[i] = NUL
(* mpack_utf8_check: the last value of a byte stands for those that no     *)
(* UTF-8 has                                                               *)
IsUtf8(b) == \A i \in DOMAIN b : b[i].n # Base - 1
Valid(b, utf8, noNul) == (utf8 => IsUtf8(b)) /\ (noNul => ~HasNul(b))

(* A result that is refused for its form *)
Refused(o, v) == Out(FlagError(o.rd, "type"), v)

ReadBytes(r, count) == {Out(o.rd, [bytes |-> o.v]) : o \in ReadNative(r, count)}

ReadUtf8(r, count) ==
    {IF Good(o) /\ ~IsUtf8(o.v.bytes) THEN Refused(o, o.v) ELSE o : o \in ReadBytes(r, count)}

EmptyString(size) == [bytes |-> <<NUL>> \o [i \in 1 .. (size - 1) |-> Stale]]

(* mpack_read_cstr and mpack_read_utf8_cstr, into a buffer of so many bytes *)
ReadCstr(r, size, count, utf8) ==
    IF r.error # "ok" THEN {Out(r, EmptyString(size))}
    ELSE IF count > size - 1 THEN {Out(FlagError(r, "too_big"), EmptyString(size))}
    ELSE {IF Good(o) /\ ~Valid(o.v, utf8, TRUE) THEN Refused(o, EmptyString(size))
          ELSE Out(o.rd, [bytes |-> Padded(o.v \o <<NUL>>, size)]) : o \in ReadNative(r, count)}

(* Mutant of ReadQuietly: the handler is not put away *)
ReadQuietly_loud(r, count) == ReadNative([r EXCEPT !.held = TRUE], count)

(* mpack_read_native_noerrorfn, while a block is held *)
ReadQuietly(r, count) ==
    {Out([o.rd EXCEPT !.fn = r.fn], o.v) : o \in ReadNative([r EXCEPT !.held = TRUE, !.fn = FALSE], count)}

Released(r) == [r EXCEPT !.held = FALSE]
Told(r) == [r EXCEPT !.told = IF r.fn THEN Append(@, [error |-> r.error, held |-> r.held]) ELSE @]

(* mpack_read_bytes_alloc_impl *)
BytesAlloc(r, count, terminated) ==
    IF r.error # "ok" \/ (count = 0 /\ ~terminated) THEN {Out(r, Null)}
    ELSE {Out(FlagError(r, "memory"), Null)}
         \cup {IF Good(o) THEN Out(Released(o.rd), [bytes |-> o.v \o (IF terminated THEN <<NUL>> ELSE <<>>)])
               ELSE Out(Told(Released(o.rd)), Null) : o \in ReadQuietly(r, count)}

(* mpack_read_bytes_inplace: a pointer into the buffer *)
BytesInplace(r, count) ==
    IF r.error # "ok" THEN {Out(r, Null)}
    ELSE {IF o.v THEN LET t == Take(o.rd, count) IN Out(t.rd, [bytes |-> t.v]) ELSE Out(o.rd, Null) :
          o \in Ensure(r, count)}
Utf8Inplace(r, count) ==
    {IF Good(o) /\ ~IsUtf8(o.v.bytes) THEN Refused(o, Null) ELSE o : o \in BytesInplace(r, count)}

-----------------------------------------------------------------------------
(* Tags *)

NilTag == [tag |-> "nil", n |-> 0, exttype |-> 0]

(* mpack_peek_tag: the first byte tells how many more there have to be *)
Parse(o) ==
    LET first == o.rd.buffer[o.rd.data + 1]
    IN  IF ~o.v THEN {Out(o.rd, NilTag)}
        ELSE IF first.t = "reserved" THEN {Out(FlagError(o.rd, "invalid"), NilTag)}
        ELSE {Out(whole.rd, IF whole.v THEN ParseTag(whole.rd.buffer, whole.rd.data + 1) ELSE NilTag) :
              whole \in Ensure(o.rd, TagSize(first.t))}
PeekTag(r) == IF r.error # "ok" THEN {Out(r, NilTag)} ELSE UNION {Parse(o) : o \in Ensure(r, 1)}

(* mpack_read_tag *)
ReadTag(r) ==
    {IF Good(o) THEN Out([o.rd EXCEPT !.data = @ + TagSize(o.v.tag)], o.v) ELSE o : o \in PeekTag(r)}

TagType(tag) == TypeOf([t |-> tag.tag, n |-> tag.n])

(* One element of mpack_discard: the elements in it are still to come *)
Inside(tag) == CASE TagType(tag) = "array" -> tag.n
                 [] TagType(tag) = "map"   -> 2 * tag.n
                 [] OTHER                  -> 0
Contents(tag) == IF TagType(tag) \in {"str", "bin", "ext"} THEN tag.n ELSE 0

(* A stream is elements, one after the other, the last perhaps cut off *)
Begins(s, p) == p < Len(s) => s[p + 1].t \in DOMAIN Width
Elements(s) ==
    /\ s \in Seq([t : DOMAIN Width \cup {"byte"}, n : -Base .. Base - 1])
    /\ \A i \in DOMAIN s : s[i].t = "fixint" \/ s[i].n >= 0
    /\ Begins(s, 0)
    /\ \A p \in 0 .. Len(s) - 1 :
          LET size == TagSize(s[p + 1].t)
              rest == Contents(ParseTag(s, p + 1))
          IN  s[p + 1].t \in DOMAIN Width /\ p + size <= Len(s) =>
                  /\ rest \in Nat /\ Begins(s, p + size + rest)
                  /\ \A i \in p + 2 .. p + size + rest : i <= Len(s) => s[i].t = "byte"
ASSUME StreamsAssumption == \A s \in Streams : Elements(s)

DiscardOne(r) ==
    UNION {{Out(o.rd, Inside(tag.v)) : o \in SkipBytes(tag.rd, Contents(tag.v))} : tag \in ReadTag(r)}

(* mpack_read_timestamp *)
Stamp(o) ==
    IF ~Good(o) THEN Out(o.rd, [time |-> NoTime])
    ELSE IF Split(o.v).nano > MaxNano THEN Out(FlagError(o.rd, "invalid"), [time |-> NoTime])
    ELSE Out(o.rd, [time |-> Split(o.v)])
ReadTimestamp(r, size) ==
    IF size \notin {4, 8, 12} THEN {Out(FlagError(r, "invalid"), [time |-> NoTime])}
    ELSE {Stamp(o) : o \in ReadNative(r, size)}

-----------------------------------------------------------------------------
(* The program *)

NoCall == [f |-> "none", num |-> 0, from |-> 0]

(* mpack_reader_init_data, or mpack_reader_init with the first bytes already *)
(* in the buffer, then mpack_reader_set_fill and mpack_reader_set_skip       *)
New(setup) ==
    LET memory == setup.size = 0
        held == IF memory \/ setup.count > Len(stream) THEN Len(stream) ELSE setup.count
        plain == [buffer |-> IF memory THEN stream ELSE Padded(SubSeq(stream, 1, held), setup.size),
                  data |-> 0, end |-> held, drawn |-> held, size |-> setup.size,
                  fill |-> FALSE, skip |-> setup.skip,
                  fn |-> TRUE, error |-> "ok", told |-> <<>>, held |-> FALSE]
    IN  IF ~setup.fill THEN plain
        ELSE IF setup.size < MinSize THEN FlagError(plain, "bug")
        ELSE [plain EXCEPT !.fill = TRUE]

(* A buffer that is given has room for what is in it *)
ASSUME SetupsAssumption ==
    \A s \in Streams : \A setup \in Setups(s) :
        setup.size \in Nat /\ setup.count \in 0 .. setup.size

Init == /\ stream \in Streams
        /\ \E setup \in Setups(stream) : rd = New(setup)
        /\ pos = 0 /\ left = 0 /\ pending = 0
        /\ asked = NoCall /\ result = Null

(* A call that reads so many bytes, or one that ends with an error *)
Do(f, num, outcomes, bytes, after) ==
    /\ asked' = [f |-> f, num |-> num, from |-> pos]
    /\ \E o \in outcomes : /\ rd' = o.rd /\ result' = o.v
                           /\ pos' = IF Good(o) THEN pos + bytes ELSE pos
                           /\ left' = IF Good(o) THEN after ELSE left
    /\ UNCHANGED stream

AtElement == left = 0 /\ pending = 0 /\ pos < Len(stream)
First_ == stream[pos + 1]
Tags(outcomes) == {Out(o.rd, [tag |-> o.v]) : o \in outcomes}

Read == /\ AtElement /\ UNCHANGED pending
        /\ LET tag == ParseTag(stream, pos + 1)
           IN  Do("read_tag", 0, Tags(ReadTag(rd)), TagSize(First_.t), Contents(tag))
Peek == /\ AtElement /\ UNCHANGED pending
        /\ Do("read_tag", 0, Tags(PeekTag(rd)), 0, 0)

(* Part of a string, blob or ext, or all of it *)
ReadPart == /\ left > 0 /\ UNCHANGED pending
            /\ \E n \in 0 .. left :
                  \/ Do("read_bytes", n, ReadBytes(rd, n), n, left - n)
                  \/ Do("read_bytes", n, BytesInplace(rd, n), n, left - n)
                  \/ Do("skip", n, SkipBytes(rd, n), n, left - n)
                  \/ \E t \in BOOLEAN : Do("read_bytes", n, BytesAlloc(rd, n, t), n, left - n)
ReadText == /\ left > 0 /\ UNCHANGED pending
            /\ \/ Do("read_bytes", left, ReadUtf8(rd, left), left, 0)
               \/ Do("read_bytes", left, Utf8Inplace(rd, left), left, 0)
               \/ \E size \in {left, left + 1}, utf8 \in BOOLEAN :
                     Do("read_cstr", left, ReadCstr(rd, size, left, utf8), left, 0)
               \/ Do("read_timestamp", left, ReadTimestamp(rd, left), left, 0)

(* mpack_discard, an element at a time *)
Discard ==
    /\ left = 0 /\ (pos < Len(stream) \/ pending > 0)
    /\ asked' = [f |-> "discard", num |-> 0, from |-> pos]
    /\ \E o \in DiscardOne(rd) :
          /\ rd' = o.rd /\ result' = Null
          /\ pending' = IF Good(o) THEN (IF pending = 0 THEN o.v ELSE pending - 1 + o.v) ELSE 0
          /\ pos' = IF Good(o) THEN pos + TagSize(First_.t) + Contents(ParseTag(stream, pos + 1)) ELSE pos
    /\ UNCHANGED <<stream, left>>

(* mpack_reader_remaining *)
Remaining == /\ pending = 0 /\ UNCHANGED pending
             /\ Do("remaining", InBuffer(rd),
                   {Out(rd, [bytes |-> IF rd.error = "ok" THEN Take(rd, InBuffer(rd)).v ELSE <<>>])}, 0, left)

(* The program finds the message wrong *)
Reject == /\ rd.error = "ok" /\ pending = 0 /\ UNCHANGED pending
          /\ Do("flag_error", 0, {Out(FlagError(rd, "data"), Null)}, 0, 0)

Next == Read \/ Peek \/ ReadPart \/ ReadText \/ Discard \/ Remaining \/ Reject

(* A program that only reads; MpackExpect has one that also expects *)
ReaderSpec == Init /\ [][Next]_vars

-----------------------------------------------------------------------------
(* Properties *)

(* Bytes are read in the order of the stream, each once: whatever pieces   *)
(* the source delivers, and wherever a string lies, in the buffer, across  *)
(* its end or beyond it, a call yields the bytes that follow those of the  *)
(* calls before, and the buffer holds the next ones (reader.c:217-560).    *)
InOrder ==
    rd.error = "ok" =>
        /\ Take(rd, InBuffer(rd)).v = SubSeq(stream, pos + 1, rd.drawn)
        /\ pos + InBuffer(rd) = rd.drawn
        /\ asked.f \in {"read_bytes", "read_cstr", "remaining"} /\ result # Null =>
              SubSeq(result.bytes, 1, asked.num) = SubSeq(stream, asked.from + 1, asked.from + asked.num)
        /\ asked.f = "read_tag" => result.tag = ParseTag(stream, asked.from + 1)

(* The error handler of the program, which may jump out of the call, is    *)
(* called once, with the error that stays, and never while the reader      *)
(* holds a block that a jump would lose (reader.c:211-220, :497-537).      *)
ErrorToldOnce ==
    rd.told = IF rd.error = "ok" THEN <<>> ELSE <<[error |-> rd.error, held |-> FALSE]>>

=============================================================================
