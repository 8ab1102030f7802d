------------------------- MODULE MpackExpectProofs -------------------------
(***************************************************************************)
(* Proofs about MpackExpect, for every message, source, buffer and list of *)
(* names, whatever the program expects and in any order: it hears of an    *)
(* error once; it reads the bytes of the stream in order; a value that it  *)
(* is given stands in the stream and is what it asked for; and no call     *)
(* fails without a cause, in the element that it met, in the source, or in *)
(* the memory.                                                             *)
(***************************************************************************)
EXTENDS MpackReaderProofs, MpackExpect, WellFoundedInduction

-----------------------------------------------------------------------------
(* Expectations keep an error, and tell a new one, like the reads they are  *)
(* made of                                                                 *)

(* While a block is held the handler is put away, so the error is told once *)
LEMMA BytesAllocKept ==
    ASSUME NEW r, Fair(r), NEW count, NEW terminated
    PROVE  KeptAll(BytesAlloc(r, count, terminated), r)
<1>. DEFINE quiet == [r EXCEPT !.held = TRUE, !.fn = FALSE]
            loud(o) == [o.rd EXCEPT !.fn = r.fn]
            ends == r.error # "ok" \/ (count = 0 /\ ~terminated)
            whole(p) == [bytes |-> p.v \o (IF terminated THEN <<NUL>> ELSE << >>)]
            read(p) == IF Good(p) THEN Out(Released(p.rd), whole(p)) ELSE Out(Told(Released(p.rd)), Null)
<1>1. BytesAlloc(r, count, terminated) =
        IF ends THEN {Out(r, Null)}
        ELSE {Out(FlagError(r, "memory"), Null)} \cup {read(p) : p \in ReadQuietly(r, count)}
  BY DEF BytesAlloc
<1>. SUFFICES ASSUME NEW o \in BytesAlloc(r, count, terminated)  PROVE Kept(o.rd, r)  BY DEF KeptAll
<1>2. DOMAIN r = Fields  BY DEF Fair
<1>3. Fair(o.rd)  BY BytesAllocFair DEF FairAll
<1>4. CASE ends
  <2>1. o = Out(r, Null)  BY <1>1, <1>4
  <2>. QED  BY <1>2, <2>1, Stays DEF Out
<1>5. CASE ~ends
  <2>1. CASE o = Out(FlagError(r, "memory"), Null)  BY <1>2, <2>1, FlagKept DEF Out
  <2>2. ASSUME NEW p \in ReadQuietly(r, count), o = read(p)  PROVE Kept(o.rd, r)
    <3>1. PICK q \in ReadNative(quiet, count) : p = Out(loud(q), q.v)  BY DEF ReadQuietly
    <3>2. /\ DOMAIN quiet = Fields /\ quiet.size = r.size /\ quiet.fill = r.fill
      BY <1>2 DEF Fields
    <3>3. Kept(q.rd, quiet)  BY <3>2, ReadNativeKept DEF KeptAll
    <3>4. DOMAIN q.rd = Fields /\ q.rd.size = r.size /\ q.rd.fill = r.fill  BY <3>2, <3>3 DEF Kept
    <3>5. p.rd = loud(q) /\ DOMAIN loud(q) = Fields /\ loud(q).size = r.size /\ loud(q).fill = r.fill
      BY <3>1, <3>4 DEF Out, Fields
    <3>. HIDE DEF loud, quiet
    <3>6. /\ DOMAIN Released(p.rd) = Fields /\ Released(p.rd).size = r.size /\ Released(p.rd).fill = r.fill
      BY <3>5 DEF Released, Fields
    <3>7. Told(Released(p.rd)).size = r.size /\ Told(Released(p.rd)).fill = r.fill
      BY <3>6 DEF Told, Fields
    <3>8. o.rd = Released(p.rd) \/ o.rd = Told(Released(p.rd))  BY <2>2 DEF Out
    <3>9. o.rd.size = r.size /\ o.rd.fill = r.fill  BY <3>6, <3>7, <3>8
    <3>10. r.error = "ok" /\ r.told = << >> /\ r.fn = TRUE /\ r.held = FALSE  BY <1>5 DEF Fair
    <3>11. \A x : Append(<< >>, x) = <<x>>  OBVIOUS
    <3>. QED  BY <1>3, <3>9, <3>10, <3>11 DEF Kept, Fair
  <2>. HIDE DEF read
  <2>. QED  BY <1>1, <1>5, <2>1, <2>2
<1>. QED  BY <1>4, <1>5

(* What a function makes of an outcome: the reader of it, or an error more *)
Touched(s, r) == s = r \/ \E e : e # "ok" /\ s = FlagError(r, e)

LEMMA TouchedKept ==
    ASSUME NEW q, NEW s, NEW r, Kept(s, r), Touched(q, s)
    PROVE  Kept(q, r)
<1>1. DOMAIN s = Fields  BY DEF Kept
<1>2. Kept(q, s)  BY <1>1, Stays, FlagKept DEF Touched
<1>. QED  BY <1>2, KeptAgain

LEMMA RefusedTouched == ASSUME NEW o, NEW v  PROVE Touched(Refused(o, v).rd, o.rd)
BY DEF Touched, Refused, Out

LEMMA FlagTouched == ASSUME NEW r, NEW e, e # "ok"  PROVE Touched(FlagError(r, e), r)
BY DEF Touched

LEMMA SameTouched == ASSUME NEW r  PROVE Touched(r, r)
BY DEF Touched

(* The outcomes in T come from those in S *)
TouchedAll(T, S) == \A t \in T : \E s \in S : Touched(t.rd, s.rd)

LEMMA TouchedAllKept ==
    ASSUME NEW S, NEW T, NEW r, KeptAll(S, r), TouchedAll(T, S)
    PROVE  KeptAll(T, r)
<1>. SUFFICES ASSUME NEW t \in T  PROVE Kept(t.rd, r)  BY DEF KeptAll
<1>1. PICK s \in S : Touched(t.rd, s.rd)  BY DEF TouchedAll
<1>2. Kept(s.rd, r)  BY DEF KeptAll
<1>. QED  BY <1>1, <1>2, TouchedKept

LEMMA ExpectIntegerKept ==
    ASSUME NEW r, DOMAIN r = Fields, NEW f
    PROVE  KeptAll(ExpectInteger(r, f), r)
<1>1. TouchedAll(ExpectInteger(r, f), ReadTag(r))
  BY RefusedTouched, SameTouched DEF ExpectInteger, TouchedAll, Out
<1>. QED  BY <1>1, ReadTagKept, TouchedAllKept

LEMMA ExpectRealKept ==
    ASSUME NEW r, DOMAIN r = Fields, NEW f
    PROVE  KeptAll(ExpectReal(r, f), r)
<1>1. TouchedAll(ExpectReal(r, f), ReadTag(r))
  BY RefusedTouched, SameTouched DEF ExpectReal, TouchedAll, Out
<1>. QED  BY <1>1, ReadTagKept, TouchedAllKept

LEMMA ChecksKept ==
    ASSUME NEW r, NEW outcomes, KeptAll(outcomes, r), NEW low, NEW high, NEW n, NEW e, e # "ok"
    PROVE  /\ KeptAll(Within(outcomes, low, high), r) /\ KeptAll(Match(outcomes, n), r)
           /\ KeptAll(AtMost(outcomes, n, e), r)
<1>1. TouchedAll(Within(outcomes, low, high), outcomes)
  BY RefusedTouched, SameTouched DEF Within, TouchedAll, Out
<1>2. TouchedAll(Match(outcomes, n), outcomes)
  BY RefusedTouched, SameTouched DEF Match, TouchedAll, Out
<1>3. TouchedAll(AtMost(outcomes, n, e), outcomes)
  BY FlagTouched, SameTouched DEF AtMost, TouchedAll, Out
<1>. QED  BY <1>1, <1>2, <1>3, TouchedAllKept

LEMMA NativeKept ==
    ASSUME NEW r, DOMAIN r = Fields, NEW width
    PROVE  KeptAll(Native(r, width), r) /\ KeptAll(TypeByte(r), r)
<1>1. ASSUME NEW n, NEW o \in Ensure(r, n)
      PROVE  Kept(o.rd, r) /\ \A k : Kept(Take(o.rd, k).rd, r)
  <2>1. Kept(o.rd, r)  BY EnsureKept DEF KeptAll
  <2>2. DOMAIN o.rd = Fields  BY <2>1 DEF Kept
  <2>3. \A k : Kept(Take(o.rd, k).rd, o.rd)  BY <2>2, TakeKept
  <2>. QED  BY <2>1, <2>3, KeptAgain
<1>2. Kept(r, r)  BY Stays
<1>3. \A o \in Native(r, width) : Kept(o.rd, r)  BY <1>1, <1>2 DEF Native, Out
<1>4. \A o \in TypeByte(r) : Kept(o.rd, r)  BY <1>1, <1>2 DEF TypeByte, Out
<1>. QED  BY <1>3, <1>4 DEF KeptAll

LEMMA ExpectNilKept == ASSUME NEW r, DOMAIN r = Fields  PROVE KeptAll(ExpectNil(r), r)
<1>1. TouchedAll(ExpectNil(r), TypeByte(r))
  BY RefusedTouched, SameTouched DEF ExpectNil, TouchedAll, Out
<1>. QED  BY <1>1, NativeKept, TouchedAllKept

LEMMA ExpectBoolKept == ASSUME NEW r, DOMAIN r = Fields  PROVE KeptAll(ExpectBool(r), r)
<1>1. TouchedAll(ExpectBool(r), TypeByte(r))
  <2>. SUFFICES ASSUME NEW t \in ExpectBool(r)  PROVE \E s \in TypeByte(r) : Touched(t.rd, s.rd)
    BY DEF TouchedAll
  <2>1. PICK o \in TypeByte(r) : t \in IF TypeOf(o.v) = "bool" THEN {Out(o.rd, [bool |-> o.v.t = "true"])}
                                       ELSE {Refused(o, [bool |-> b]) : b \in LowBit(o.v)}
    BY DEF ExpectBool
  <2>2. CASE TypeOf(o.v) = "bool"
    <3>1. t = Out(o.rd, [bool |-> o.v.t = "true"])  BY <2>1, <2>2
    <3>. QED  BY <3>1, SameTouched DEF Out
  <2>3. CASE TypeOf(o.v) # "bool"
    <3>1. t \in {Refused(o, [bool |-> b]) : b \in LowBit(o.v)}  BY <2>1, <2>3
    <3>2. PICK b \in LowBit(o.v) : t = Refused(o, [bool |-> b])  BY <3>1
    <3>. QED  BY <3>2, RefusedTouched
  <2>. QED  BY <2>2, <2>3
<1>. QED  BY <1>1, NativeKept, TouchedAllKept

LEMMA ExpectJustKept == ASSUME NEW r, DOMAIN r = Fields, NEW want  PROVE KeptAll(ExpectJust(r, want), r)
<1>1. TouchedAll(ExpectJust(r, want), ExpectBool(r))
  BY RefusedTouched, SameTouched DEF ExpectJust, TouchedAll, Out
<1>. QED  BY <1>1, ExpectBoolKept, TouchedAllKept

LEMMA ExpectTimestampKept == ASSUME NEW r, DOMAIN r = Fields  PROVE KeptAll(ExpectTimestamp(r), r)
<1>. SUFFICES ASSUME NEW t \in ExpectTimestamp(r)  PROVE Kept(t.rd, r)  BY DEF KeptAll
<1>1. PICK o \in ReadTag(r) : t \in IF TagType(o.v) = "ext" /\ o.v.exttype = TimestampType
                                    THEN ReadTimestamp(o.rd, o.v.n) ELSE {Refused(o, [time |-> NoTime])}
  BY DEF ExpectTimestamp
<1>2. Kept(o.rd, r)  BY ReadTagKept DEF KeptAll
<1>3. DOMAIN o.rd = Fields  BY <1>2 DEF Kept
<1>4. CASE t \in ReadTimestamp(o.rd, o.v.n)  BY <1>2, <1>3, <1>4, ReadTimestampKept, KeptAgain DEF KeptAll
<1>5. CASE t = Refused(o, [time |-> NoTime])  BY <1>2, <1>5, RefusedKept
<1>. QED  BY <1>1, <1>4, <1>5

LEMMA ExpectCountKept ==
    ASSUME NEW r, DOMAIN r = Fields, NEW type, NEW max
    PROVE  /\ KeptAll(ExpectCount(r, type), r) /\ KeptAll(ExpectOrNil(r, type), r)
           /\ KeptAll(MaxOrNil(r, type, max), r)
<1>1. TouchedAll(ExpectCount(r, type), ReadTag(r))
  BY RefusedTouched, SameTouched DEF ExpectCount, TouchedAll, Out
<1>2. TouchedAll(ExpectOrNil(r, type), ReadTag(r))
  BY RefusedTouched, SameTouched DEF ExpectOrNil, TouchedAll, Out
<1>3. TouchedAll(MaxOrNil(r, type, max), ExpectOrNil(r, type))
  BY RefusedTouched, SameTouched DEF MaxOrNil, TouchedAll, Out
<1>. QED  BY <1>1, <1>2, <1>3, ReadTagKept, TouchedAllKept

LEMMA ArrayAllocKept ==
    ASSUME NEW r, DOMAIN r = Fields, NEW max, NEW orNil
    PROVE  KeptAll(ArrayAlloc(r, max, orNil), r)
<1>. DEFINE outcomes == IF orNil THEN MaxOrNil(r, "array", max) ELSE Within(ExpectCount(r, "array"), 0, max)
<1>1. KeptAll(outcomes, r)
  <2>1. CASE orNil  BY <2>1, ExpectCountKept
  <2>2. CASE ~orNil  BY <2>2, ExpectCountKept, ChecksKept
  <2>. QED  BY <2>1, <2>2
<1>0. ArrayAlloc(r, max, orNil) =
        UNION {IF ~Good(o) \/ o.v.num = 0 THEN {Out(o.rd, Num(0))}
               ELSE {Out(FlagError(o.rd, "memory"), Num(0)), Out(o.rd, Num(o.v.num))} : o \in outcomes}
  BY DEF ArrayAlloc
<1>. HIDE DEF outcomes
<1>2. TouchedAll(ArrayAlloc(r, max, orNil), outcomes)
  <2>. SUFFICES ASSUME NEW t \in ArrayAlloc(r, max, orNil)  PROVE \E s \in outcomes : Touched(t.rd, s.rd)
    BY DEF TouchedAll
  <2>1. PICK o \in outcomes : t \in IF ~Good(o) \/ o.v.num = 0 THEN {Out(o.rd, Num(0))}
                                    ELSE {Out(FlagError(o.rd, "memory"), Num(0)), Out(o.rd, Num(o.v.num))}
    BY <1>0
  <2>2. t.rd = o.rd \/ t.rd = FlagError(o.rd, "memory")  BY <2>1 DEF Out
  <2>. QED  BY <2>2, FlagTouched, SameTouched
<1>. QED  BY <1>1, <1>2, TouchedAllKept

LEMMA ExpectStrKept == ASSUME NEW r, DOMAIN r = Fields  PROVE KeptAll(ExpectStr(r), r)
<1>. SUFFICES ASSUME NEW t \in ExpectStr(r)  PROVE Kept(t.rd, r)  BY DEF KeptAll
<1>1. PICK o \in TypeByte(r) :
         t \in IF o.v.t = "fixstr" THEN {Out(o.rd, Num(o.v.n))}
               ELSE IF TypeOf(o.v) = "str" THEN {Out(n.rd, Num(n.v)) : n \in Native(o.rd, Width[o.v.t])}
               ELSE {Refused(o, Num(0))}
  BY Zenon DEF ExpectStr
<1>2. Kept(o.rd, r)  BY NativeKept DEF KeptAll
<1>3. DOMAIN o.rd = Fields  BY <1>2 DEF Kept
<1>4. CASE t.rd = o.rd  BY <1>2, <1>4
<1>5. CASE t = Refused(o, Num(0))  BY <1>2, <1>5, RefusedKept
<1>6. ASSUME NEW n \in Native(o.rd, Width[o.v.t]), t.rd = n.rd  PROVE Kept(t.rd, r)
  BY <1>2, <1>3, <1>6, NativeKept, KeptAgain DEF KeptAll
<1>. QED  BY <1>1, <1>4, <1>5, <1>6 DEF Out

LEMMA ExpectExtKept ==
    ASSUME NEW r, DOMAIN r = Fields, NEW count
    PROVE  KeptAll(ExpectExt(r), r) /\ KeptAll(ExtSize(r, count), r)
<1>1. TouchedAll(ExpectExt(r), ReadTag(r))
  BY RefusedTouched, SameTouched DEF ExpectExt, TouchedAll, Out
<1>2. TouchedAll(ExtSize(r, count), ExpectExt(r))
  BY RefusedTouched, SameTouched DEF ExtSize, TouchedAll, Out
<1>. QED  BY <1>1, <1>2, ReadTagKept, TouchedAllKept

LEMMA BufferedKept ==
    ASSUME NEW r, NEW outcomes, KeptAll(outcomes, r), NEW size
    PROVE  KeptAll(Buffered(outcomes, size), r)
<1>. SUFFICES ASSUME NEW t \in Buffered(outcomes, size)  PROVE Kept(t.rd, r)  BY DEF KeptAll
<1>1. PICK o \in outcomes :
         t \in IF ~Good(o) THEN {Out(o.rd, [bytes |-> << >>])}
               ELSE IF o.v.num > size THEN {Out(FlagError(o.rd, "too_big"), [bytes |-> << >>])}
               ELSE {Out(b.rd, [bytes |-> IF Good(b) THEN b.v ELSE << >>]) : b \in ReadNative(o.rd, o.v.num)}
  BY DEF Buffered
<1>2. Kept(o.rd, r)  BY DEF KeptAll
<1>3. DOMAIN o.rd = Fields  BY <1>2 DEF Kept
<1>4. CASE t.rd = o.rd  BY <1>2, <1>4
<1>5. CASE t.rd = FlagError(o.rd, "too_big")  BY <1>2, <1>5, FlagTouched, TouchedKept
<1>6. ASSUME NEW b \in ReadNative(o.rd, o.v.num), t.rd = b.rd  PROVE Kept(t.rd, r)
  BY <1>2, <1>3, <1>6, ReadNativeKept, KeptAgain DEF KeptAll
<1>. QED  BY <1>1, <1>4, <1>5, <1>6 DEF Out

LEMMA BufferedUtf8Kept ==
    ASSUME NEW r, NEW outcomes, KeptAll(outcomes, r), NEW size
    PROVE  KeptAll(BufferedUtf8(outcomes, size), r)
<1>1. TouchedAll(BufferedUtf8(outcomes, size), Buffered(outcomes, size))
  BY RefusedTouched, SameTouched DEF BufferedUtf8, TouchedAll
<1>. QED  BY <1>1, BufferedKept, TouchedAllKept

LEMMA ExtBufKept ==
    ASSUME NEW r, DOMAIN r = Fields, NEW size
    PROVE  KeptAll(ExtBuf(r, size), r)
<1>. SUFFICES ASSUME NEW t \in ExtBuf(r, size)  PROVE Kept(t.rd, r)  BY DEF KeptAll
<1>1. PICK e \in ExpectExt(r) : t \in {WithType(o, e.v.exttype) : o \in Buffered({e}, size)}  BY DEF ExtBuf
<1>2. PICK o \in Buffered({e}, size) : t = WithType(o, e.v.exttype)  BY <1>1
<1>3. KeptAll({e}, r)  BY ExpectExtKept DEF KeptAll
<1>4. Kept(o.rd, r)  BY <1>3, BufferedKept DEF KeptAll
<1>. QED  BY <1>2, <1>4 DEF WithType, Out

LEMMA ExpectCstrKept ==
    ASSUME NEW r, DOMAIN r = Fields, NEW size, NEW utf8
    PROVE  KeptAll(ExpectCstr(r, size, utf8), r)
<1>. SUFFICES ASSUME NEW o \in ExpectStr(r), NEW t \in ReadCstr(o.rd, size, o.v.num, utf8)  PROVE Kept(t.rd, r)
  BY DEF KeptAll, ExpectCstr
<1>1. Kept(o.rd, r)  BY ExpectStrKept DEF KeptAll
<1>2. DOMAIN o.rd = Fields  BY <1>1 DEF Kept
<1>. QED  BY <1>1, <1>2, ReadCstrKept, KeptAgain DEF KeptAll

(* What is allocated *)
LEMMA AllocatedKept ==
    ASSUME NEW r, Fair(r), NEW outcomes, KeptAll(outcomes, r), NEW o \in outcomes, NEW count, NEW terminated,
           NEW t \in BytesAlloc(o.rd, count, terminated)
    PROVE  Kept(t.rd, r)
<1>1. Kept(o.rd, r) /\ Fair(o.rd)  BY FairKept DEF KeptAll
<1>2. Kept(t.rd, o.rd)  BY <1>1, BytesAllocKept DEF KeptAll
<1>. QED  BY <1>1, <1>2, KeptAgain

LEMMA CstrAllocKept ==
    ASSUME NEW r, Fair(r), NEW size, NEW utf8
    PROVE  KeptAll(CstrAlloc(r, size, utf8), r)
<1>. DEFINE heads == AtMost(ExpectStr(r), size - 1, "too_big")
            checked(o, b) == IF b.v # Null /\ ~Valid(SubSeq(b.v.bytes, 1, o.v.num), utf8, TRUE)
                             THEN Refused(b, Null) ELSE b
<1>1. DOMAIN r = Fields  BY DEF Fair
<1>2. KeptAll(heads, r)  BY <1>1, ExpectStrKept, ChecksKept
<1>3. CstrAlloc(r, size, utf8) =
        IF size < 1 THEN {Out(FlagError(r, "bug"), Null)}
        ELSE UNION {{checked(o, b) : b \in BytesAlloc(o.rd, o.v.num, TRUE)} : o \in heads}
  BY DEF CstrAlloc
<1>. HIDE DEF heads
<1>4. ASSUME NEW o \in heads, NEW b \in BytesAlloc(o.rd, o.v.num, TRUE)  PROVE Kept(checked(o, b).rd, r)
  <2>1. Kept(b.rd, r)  BY <1>2, AllocatedKept
  <2>2. Kept(Refused(b, Null).rd, r)  BY <2>1, RefusedKept
  <2>. QED  BY <2>1, <2>2
<1>. HIDE DEF checked
<1>. SUFFICES ASSUME NEW t \in CstrAlloc(r, size, utf8)  PROVE Kept(t.rd, r)  BY DEF KeptAll
<1>5. CASE t = Out(FlagError(r, "bug"), Null)  BY <1>1, <1>5, FlagKept DEF Out
<1>6. CASE t \in UNION {{checked(o, b) : b \in BytesAlloc(o.rd, o.v.num, TRUE)} : o \in heads}
  <2>1. PICK o \in heads : t \in {checked(o, b) : b \in BytesAlloc(o.rd, o.v.num, TRUE)}  BY <1>6
  <2>2. PICK b \in BytesAlloc(o.rd, o.v.num, TRUE) : t = checked(o, b)  BY <2>1
  <2>. QED  BY <1>4, <2>2
<1>. QED  BY <1>3, <1>5, <1>6

LEMMA BinAllocKept ==
    ASSUME NEW r, Fair(r), NEW max
    PROVE  KeptAll(BinAlloc(r, max), r)
<1>1. KeptAll(AtMost(ExpectCount(r, "bin"), max, "type"), r)  BY ExpectCountKept, ChecksKept DEF Fair
<1>. SUFFICES ASSUME NEW t \in BinAlloc(r, max)  PROVE Kept(t.rd, r)  BY DEF KeptAll
<1>2. PICK o \in AtMost(ExpectCount(r, "bin"), max, "type") : t \in BytesAlloc(o.rd, o.v.num, FALSE)
  BY DEF BinAlloc
<1>. QED  BY <1>1, <1>2, AllocatedKept

LEMMA ExtAllocKept ==
    ASSUME NEW r, Fair(r), NEW max
    PROVE  KeptAll(ExtAlloc(r, max), r)
<1>. DEFINE heads == AtMost(ExpectExt(r), max, "type")
<1>1. KeptAll(heads, r)  BY ExpectExtKept, ChecksKept DEF Fair
<1>. SUFFICES ASSUME NEW t \in ExtAlloc(r, max)  PROVE Kept(t.rd, r)  BY DEF KeptAll
<1>. HIDE DEF heads
<1>2. PICK e \in heads :
         t \in IF ~Good(e) THEN {Out(e.rd, [exttype |-> e.v.exttype])}
               ELSE {IF o.v = Null THEN Out(o.rd, [exttype |-> 0])
                     ELSE Out(o.rd, [exttype |-> e.v.exttype, bytes |-> o.v.bytes]) :
                     o \in BytesAlloc(e.rd, e.v.num, FALSE)}
  BY DEF ExtAlloc, heads
<1>3. t.rd = e.rd \/ \E o \in BytesAlloc(e.rd, e.v.num, FALSE) : t.rd = o.rd
  <2>1. CASE ~Good(e)
    <3>1. t = Out(e.rd, [exttype |-> e.v.exttype])  BY <1>2, <2>1
    <3>. QED  BY <3>1 DEF Out
  <2>2. CASE Good(e)
    <3>1. PICK o \in BytesAlloc(e.rd, e.v.num, FALSE) :
             t = IF o.v = Null THEN Out(o.rd, [exttype |-> 0])
                 ELSE Out(o.rd, [exttype |-> e.v.exttype, bytes |-> o.v.bytes])
      BY <1>2, <2>2
    <3>2. CASE o.v = Null  BY <3>1, <3>2 DEF Out
    <3>3. CASE o.v # Null  BY <3>1, <3>3 DEF Out
    <3>. QED  BY <3>2, <3>3
  <2>. QED  BY <2>1, <2>2
<1>. QED  BY <1>1, <1>3, AllocatedKept DEF KeptAll

LEMMA ExpectTagKept ==
    ASSUME NEW r, DOMAIN r = Fields, NEW tag
    PROVE  KeptAll(ExpectTag(r, tag), r)
<1>1. TouchedAll(ExpectTag(r, tag), ReadTag(r))
  BY RefusedTouched, SameTouched DEF ExpectTag, TouchedAll, Out
<1>. QED  BY <1>1, ReadTagKept, TouchedAllKept

LEMMA MatchOneKept ==
    ASSUME NEW r, DOMAIN r = Fields, NEW byte
    PROVE  KeptAll(MatchOne(r, byte), r)
<1>1. TouchedAll(MatchOne(r, byte), Native(r, 1))
  BY RefusedTouched, SameTouched DEF MatchOne, TouchedAll, Out
<1>. QED  BY <1>1, NativeKept, TouchedAllKept

LEMMA FoundKept == ASSUME NEW r, DOMAIN r = Fields  PROVE KeptAll(Found(r), r)
<1>. SUFFICES ASSUME NEW s \in ExpectStr(r), NEW o \in BytesInplace(s.rd, s.v.num)  PROVE Kept(o.rd, r)
  BY DEF KeptAll, Found, Out
<1>1. Kept(s.rd, r)  BY ExpectStrKept DEF KeptAll
<1>2. DOMAIN s.rd = Fields  BY <1>1 DEF Kept
<1>. QED  BY <1>1, <1>2, BytesInplaceKept, KeptAgain DEF KeptAll

LEMMA ExpectEnumKept == ASSUME NEW r, DOMAIN r = Fields  PROVE KeptAll(ExpectEnum(r), r)
<1>1. TouchedAll(ExpectEnum(r), Found(r))
  BY RefusedTouched, SameTouched DEF ExpectEnum, TouchedAll
<1>. QED  BY <1>1, FoundKept, TouchedAllKept

LEMMA IgnoredKept == ASSUME NEW r, DOMAIN r = Fields  PROVE KeptAll(Ignored(r), r)
BY DiscardOneKept DEF Ignored, KeptAll, Out

LEMMA EnumOptionalKept == ASSUME NEW r, DOMAIN r = Fields  PROVE KeptAll(EnumOptional(r), r)
<1>. SUFFICES ASSUME NEW t \in EnumOptional(r)  PROVE Kept(t.rd, r)  BY DEF KeptAll
<1>1. CASE t = Out(r, Num(Count))  BY <1>1, Stays DEF Out
<1>2. ASSUME NEW p \in PeekTag(r), t \in Found(p.rd) \/ t \in Ignored(p.rd)  PROVE Kept(t.rd, r)
  <2>1. Kept(p.rd, r)  BY PeekTagKept DEF KeptAll
  <2>2. DOMAIN p.rd = Fields  BY <2>1 DEF Kept
  <2>. QED  BY <1>2, <2>1, <2>2, FoundKept, IgnoredKept, KeptAgain DEF KeptAll
<1>. QED  BY <1>1, <1>2 DEF EnumOptional

LEMMA UniqueTouched == ASSUME NEW o, NEW count  PROVE Touched(Unique(o, count).rd, o.rd)
BY FlagTouched, SameTouched DEF Unique, Out

LEMMA KeyCstrKept == ASSUME NEW r, DOMAIN r = Fields  PROVE KeptAll(KeyCstr(r), r)
<1>1. TouchedAll(KeyCstr(r), EnumOptional(r))  BY UniqueTouched, SameTouched DEF KeyCstr, TouchedAll
<1>. QED  BY <1>1, EnumOptionalKept, TouchedAllKept

LEMMA KeyUintKept == ASSUME NEW r, DOMAIN r = Fields, NEW count  PROVE KeptAll(KeyUint(r, count), r)
<1>. SUFFICES ASSUME NEW t \in KeyUint(r, count)  PROVE Kept(t.rd, r)  BY DEF KeptAll
<1>1. CASE t.rd = r \/ t.rd = FlagError(r, "bug")  BY <1>1, Stays, FlagKept
<1>2. ASSUME NEW p \in PeekTag(r),
             \/ t \in Ignored(p.rd)
             \/ \E o \in ExpectInteger(p.rd, "u64") : t.rd = o.rd \/ t.rd = Unique(o, count).rd
      PROVE  Kept(t.rd, r)
  <2>1. Kept(p.rd, r)  BY PeekTagKept DEF KeptAll
  <2>2. DOMAIN p.rd = Fields  BY <2>1 DEF Kept
  <2>3. KeptAll(Ignored(p.rd), p.rd) /\ KeptAll(ExpectInteger(p.rd, "u64"), p.rd)
    BY <2>2, IgnoredKept, ExpectIntegerKept
  <2>4. \A o \in ExpectInteger(p.rd, "u64") : Kept(o.rd, p.rd) /\ Kept(Unique(o, count).rd, p.rd)
    BY <2>3, UniqueTouched, TouchedKept DEF KeptAll
  <2>5. Kept(t.rd, p.rd)  BY <1>2, <2>3, <2>4 DEF KeptAll
  <2>. QED  BY <2>1, <2>5, KeptAgain
<1>. QED  BY <1>1, <1>2 DEF KeyUint, Out

(* A call leaves a reader whose error has been told *)
LEMMA AskFair ==
    ASSUME Fair(rd), NEW call, NEW outcomes, Ask(call, outcomes), KeptAll(outcomes, rd)
    PROVE  Fair(rd')
BY FairKept DEF Ask, KeptAll

LEMMA NumbersFair == ASSUME Fair(rd), WholeNumber \/ Real \/ Simple  PROVE Fair(rd')
<1>0. DOMAIN rd = Fields  BY DEF Fair
<1>. USE DEF Whole
<1>1. CASE WholeNumber
  <2>1. ASSUME NEW f, NEW call, Ask(call, ExpectInteger(rd, f))  PROVE Fair(rd')
    BY <1>0, <2>1, AskFair, ExpectIntegerKept
  <2>2. ASSUME NEW f, NEW call, NEW low, NEW high, Ask(call, Within(ExpectInteger(rd, f), low, high))
        PROVE  Fair(rd')
    BY <1>0, <2>2, AskFair, ExpectIntegerKept, ChecksKept
  <2>3. ASSUME NEW f, NEW call, NEW n, Ask(call, Match(ExpectInteger(rd, f), n))  PROVE Fair(rd')
    BY <1>0, <2>3, AskFair, ExpectIntegerKept, ChecksKept
  <2>. QED  BY <1>1, <2>1, <2>2, <2>3 DEF WholeNumber
<1>2. CASE Real  BY <1>0, <1>2, AskFair, ExpectRealKept DEF Real
<1>3. CASE Simple
  BY <1>0, <1>3, AskFair, ExpectNilKept, ExpectBoolKept, ExpectJustKept, ExpectTimestampKept DEF Simple
<1>. QED  BY <1>1, <1>2, <1>3

LEMMA ContainerFair == ASSUME Fair(rd), Container  PROVE Fair(rd')
<1>0. DOMAIN rd = Fields  BY DEF Fair
<1>1. PICK type \in DOMAIN OrNil :
         \/ Ask(Call(type, 0, Most_), ExpectCount(rd, type))
         \/ Ask(Call(OrNil[type], 0, Most_), ExpectOrNil(rd, type))
         \/ \E n \in Maxima :
               \/ Ask(Call(type, 0, n), Within(ExpectCount(rd, type), 0, n))
               \/ Ask(Call(type, n, n), Match(ExpectCount(rd, type), n))
               \/ Ask(Call(OrNil[type], 0, n), MaxOrNil(rd, type, n))
               \/ Ask(Call("array", 0, n), ArrayAlloc(rd, n, FALSE))
               \/ Ask(Call("array_or_nil", 0, n), ArrayAlloc(rd, n, TRUE))
  BY DEF Container, Whole
<1>2. KeptAll(ExpectCount(rd, type), rd) /\ KeptAll(ExpectOrNil(rd, type), rd)  BY <1>0, ExpectCountKept
<1>3. ASSUME NEW n
      PROVE  /\ KeptAll(Within(ExpectCount(rd, type), 0, n), rd) /\ KeptAll(Match(ExpectCount(rd, type), n), rd)
             /\ KeptAll(MaxOrNil(rd, type, n), rd) /\ KeptAll(ArrayAlloc(rd, n, FALSE), rd)
             /\ KeptAll(ArrayAlloc(rd, n, TRUE), rd)
  <2>1. KeptAll(Within(ExpectCount(rd, type), 0, n), rd) /\ KeptAll(Match(ExpectCount(rd, type), n), rd)
    <3>1. "type" # "ok"  OBVIOUS
    <3>. QED  BY <1>2, <3>1, ChecksKept
  <2>2. KeptAll(MaxOrNil(rd, type, n), rd)  BY <1>0, ExpectCountKept
  <2>3. KeptAll(ArrayAlloc(rd, n, FALSE), rd) /\ KeptAll(ArrayAlloc(rd, n, TRUE), rd)  BY <1>0, ArrayAllocKept
  <2>. QED  BY <2>1, <2>2, <2>3
<1>. QED  BY <1>1, <1>2, <1>3, AskFair

LEMMA HeadFair == ASSUME Fair(rd), Head_  PROVE Fair(rd')
<1>0. DOMAIN rd = Fields  BY DEF Fair
<1>1. KeptAll(ExpectStr(rd), rd) /\ KeptAll(ExpectCount(rd, "bin"), rd) /\ KeptAll(ExpectExt(rd), rd)
  BY <1>0, ExpectStrKept, ExpectCountKept, ExpectExtKept
<1>2. ASSUME NEW n
      PROVE  /\ KeptAll(AtMost(ExpectStr(rd), n, "too_big"), rd) /\ KeptAll(AtMost(ExpectCount(rd, "bin"), n, "type"), rd)
             /\ KeptAll(AtMost(ExpectExt(rd), n, "type"), rd) /\ KeptAll(Match(ExpectStr(rd), n), rd)
             /\ KeptAll(Match(ExpectCount(rd, "bin"), n), rd) /\ KeptAll(ExtSize(rd, n), rd)
  BY <1>0, <1>1, ExpectExtKept, ChecksKept
<1>3. \A tag : KeptAll(ExpectTag(rd, tag), rd)  BY <1>0, ExpectTagKept
<1>. QED  BY <1>1, <1>2, <1>3, AskFair DEF Head_, Open

LEMMA BytesFair == ASSUME Fair(rd), Bytes  PROVE Fair(rd')
<1>0. DOMAIN rd = Fields  BY DEF Fair
<1>1. PICK n \in Maxima :
       \/ Ask(Call("str_buf", 0, n), Buffered(ExpectStr(rd), n))
       \/ Ask(Call("utf8", 0, n), BufferedUtf8(ExpectStr(rd), n))
       \/ Ask(Call("bin_buf", 0, n), Buffered(ExpectCount(rd, "bin"), n))
       \/ Ask(Call("ext_buf", 0, n), ExtBuf(rd, n))
       \/ \E utf8 \in BOOLEAN : \E f : \/ Ask(Call(f, 0, n), ExpectCstr(rd, n, utf8))
                                       \/ Ask(Call(f, 0, n), CstrAlloc(rd, n, utf8))
       \/ Ask(Call("bin_alloc", 0, n), BinAlloc(rd, n))
       \/ Ask(Call("ext_alloc", 0, n), ExtAlloc(rd, n))
  BY DEF Bytes, Whole
<1>2. KeptAll(ExpectStr(rd), rd) /\ KeptAll(ExpectCount(rd, "bin"), rd)  BY <1>0, ExpectStrKept, ExpectCountKept
<1>3. /\ KeptAll(Buffered(ExpectStr(rd), n), rd) /\ KeptAll(Buffered(ExpectCount(rd, "bin"), n), rd)
      /\ KeptAll(BufferedUtf8(ExpectStr(rd), n), rd) /\ KeptAll(ExtBuf(rd, n), rd)
      /\ KeptAll(BinAlloc(rd, n), rd) /\ KeptAll(ExtAlloc(rd, n), rd)
      /\ \A utf8 : KeptAll(ExpectCstr(rd, n, utf8), rd) /\ KeptAll(CstrAlloc(rd, n, utf8), rd)
  BY <1>0, <1>2, BufferedKept, BufferedUtf8Kept, ExtBufKept, BinAllocKept, ExtAllocKept, ExpectCstrKept, CstrAllocKept
<1>. QED  BY <1>1, <1>3, AskFair

LEMMA NamesFair == ASSUME Fair(rd), Name \/ Key  PROVE Fair(rd')
<1>0. DOMAIN rd = Fields  BY DEF Fair
<1>1. \A n : KeptAll(Match(ExpectStr(rd), n), rd)  BY <1>0, ExpectStrKept, ChecksKept
<1>2. KeptAll(ExpectEnum(rd), rd) /\ KeptAll(EnumOptional(rd), rd) /\ KeptAll(KeyCstr(rd), rd)
  BY <1>0, ExpectEnumKept, EnumOptionalKept, KeyCstrKept
<1>3. \A count : KeptAll(KeyUint(rd, count), rd)  BY <1>0, KeyUintKept
<1>. QED  BY <1>1, <1>2, <1>3, AskFair DEF Name, Key, Open, Whole, Keyed

LEMMA MatchByteFair == ASSUME Fair(rd), MatchByte  PROVE Fair(rd')
BY MatchOneKept, FairKept DEF MatchByte, KeptAll, Fair

LEMMA ReaderCallFair == ASSUME Fair(rd), ReaderCall  PROVE Fair(rd')
<1>1. CASE Next  BY <1>1, NextFair DEF IInv
<1>2. CASE SkipRest
  <2>1. KeptAll(SkipBytes(rd, left), rd)  BY SkipBytesKept DEF Fair
  <2>. QED  BY <1>2, <2>1, DoFair DEF SkipRest
<1>3. CASE Discard  BY <1>3, NextFair DEF IInv, Next
<1>. QED  BY <1>1, <1>2, <1>3 DEF ReaderCall

LEMMA ExpectNextFair == ASSUME Fair(rd), [ExpectNext]_expectVars  PROVE Fair(rd')
<1>1. CASE UNCHANGED expectVars  BY <1>1 DEF expectVars, vars
<1>. QED
  BY <1>1, NumbersFair, ContainerFair, HeadFair, BytesFair, NamesFair, MatchByteFair, ReaderCallFair DEF ExpectNext

(* A program that expects hears of an error once, with the error that     *)
(* stays, and never while a block is held (expect.c:66-810)                *)
THEOREM ExpectToldOnce == ExpectSpec => []ErrorToldOnce
<1>1. ExpectInit => IInv  BY InitFair DEF ExpectInit
<1>2. IInv /\ [ExpectNext]_expectVars => IInv'  BY ExpectNextFair DEF IInv, Fair
<1>3. IInv => ErrorToldOnce  BY DEF IInv, Fair, ErrorToldOnce
<1>. QED  BY <1>1, <1>2, <1>3, PTL DEF ExpectSpec

-----------------------------------------------------------------------------
(* The numbers of a stream are integers, and a count fits in 32 bits *)

LEMMA BaseFacts == Base \in Nat /\ Base >= 8
BY BaseAssumption

LEMMA Joined ==
    ASSUME NEW b \in Nat, NEW c \in Nat, NEW x \in Nat, NEW y \in Nat, x < b, y < c
    PROVE  x * c + y \in Nat /\ x * c + y < b * c
<1>1. (b - 1 - x) * c \in Nat
  <2>1. b - 1 - x \in Nat  OBVIOUS

  <2>2. \A u, v \in Nat : u * v \in Nat  OBVIOUS
  <2>. QED  BY <2>1, <2>2
<1>2. (b - 1 - x) * c = b * c - c - x * c  OBVIOUS
<1>3. x * c \in Nat /\ b * c \in Nat  OBVIOUS
<1>. QED  BY <1>1, <1>2, <1>3

LEMMA Powers ==
    /\ Power(1) = Base /\ Power(2) = Base * Base
    /\ Power(4) = Power(2) * Power(2) /\ Power(8) = Power(4) * Power(4)
    /\ \A w \in {1, 2, 4, 8} : Power(w) \in Nat \ {0}
    /\ Base <= Power(4) /\ 16 < Power(4)
<1>1. /\ Power(1) = Base /\ Power(2) = Base * Base
      /\ Power(4) = (Base * Base) * (Base * Base)
      /\ Power(8) = (Base * Base) * (Base * Base) * (Base * Base) * (Base * Base)
  BY DEF Power, Squared
<1>2. PICK q \in Nat : q = Base * Base /\ q >= 8 * Base
  <2>1. Base * Base \in Nat /\ (Base - 8) * Base \in Nat
    <3>1. Base - 8 \in Nat /\ Base \in Nat  BY BaseFacts
    <3>2. \A u, v \in Nat : u * v \in Nat  OBVIOUS
    <3>. QED  BY <3>1, <3>2
  <2>2. (Base - 8) * Base = Base * Base - 8 * Base  BY BaseFacts
  <2>. QED  BY <2>1, <2>2, BaseFacts
<1>3. q >= 64  BY <1>2, BaseFacts
<1>4. PICK f \in Nat : f = q * q /\ f >= 64 * q
  <2>1. q - 64 \in Nat  BY <1>3
  <2>2. (q - 64) * q \in Nat /\ q * q \in Nat
    <3>1. \A u, v \in Nat : u * v \in Nat  OBVIOUS
    <3>. QED  BY <2>1, <3>1
  <2>3. (q - 64) * q = q * q - 64 * q  OBVIOUS
  <2>. QED  BY <2>2, <2>3
<1>5. Power(2) = q /\ Power(4) = f  BY <1>1, <1>2, <1>4
<1>6. Power(8) = f * f
  <2>1. \A x \in Nat : x * x * x * x = (x * x) * (x * x)  OBVIOUS
  <2>2. Power(8) = q * q * q * q  BY <1>1, <1>2
  <2>. QED  BY <1>4, <2>1, <2>2
<1>7. f * f \in Nat /\ f * f >= 1
  <2>1. f >= 1  BY <1>3, <1>4
  <2>2. \A x \in Nat : x >= 1 => x * x \in Nat /\ x * x >= 1  OBVIOUS
  <2>. QED  BY <2>1, <2>2
<1>8. Base <= q /\ q <= f /\ 16 < f /\ f >= 1 /\ q >= 1 /\ Base >= 1  BY <1>2, <1>3, <1>4, BaseFacts
<1>9. \A w \in {1, 2, 4, 8} : Power(w) \in Nat \ {0}
  <2>1. Power(1) \in Nat \ {0} /\ Power(2) \in Nat \ {0}  BY <1>1, <1>5, <1>8, BaseFacts
  <2>2. Power(4) \in Nat \ {0} /\ Power(8) \in Nat \ {0}  BY <1>5, <1>6, <1>7, <1>8
  <2>. QED  BY <2>1, <2>2
<1>. QED  BY <1>1, <1>2, <1>4, <1>5, <1>6, <1>8, <1>9, BaseFacts

(* The digits of a number: so many bytes make no more than so many bits *)
LEMMA NumberWithin ==
    ASSUME NEW m \in Seq(Cell), NEW w \in {1, 2, 4, 8}, Len(m) = w
    PROVE  Number(m) \in Nat /\ Number(m) < Power(w)
<1>1. \A i \in 1 .. w : Digit(m[i]) \in Nat /\ Digit(m[i]) < Base
  <2>. SUFFICES ASSUME NEW i \in 1 .. w  PROVE Digit(m[i]) \in Nat /\ Digit(m[i]) < Base  OBVIOUS
  <2>1. m[i] \in Cell  OBVIOUS
  <2>2. PICK n \in Int : n = m[i].n  BY <2>1 DEF Cell
  <2>3. n % Base \in Nat /\ n % Base < Base  BY BaseFacts
  <2>. QED  BY <2>2, <2>3 DEF Digit
<1>2. ASSUME NEW i \in 1 .. 7, i + 1 <= w  PROVE Load16(m, i) \in Nat /\ Load16(m, i) < Power(2)
  <2>1. i \in 1 .. w /\ i + 1 \in 1 .. w  BY <1>2
  <2>2. PICK x \in Nat : x = Digit(m[i]) /\ x < Base  BY <1>1, <2>1
  <2>3. PICK y \in Nat : y = Digit(m[i + 1]) /\ y < Base  BY <1>1, <2>1
  <2>4. x * Base + y \in Nat /\ x * Base + y < Base * Base  BY <2>2, <2>3, BaseFacts, Joined
  <2>. QED  BY <2>2, <2>3, <2>4, Powers DEF Load16
<1>3. ASSUME NEW i \in 1 .. 5, i + 3 <= w  PROVE Load32(m, i) \in Nat /\ Load32(m, i) < Power(4)
  <2>1. PICK x \in Nat : x = Load16(m, i) /\ x < Power(2)  BY <1>2, <1>3
  <2>2. PICK y \in Nat : y = Load16(m, i + 2) /\ y < Power(2)
    <3>1. i + 2 \in 1 .. 7 /\ i + 2 + 1 <= w  BY <1>3
    <3>. QED  BY <1>2, <3>1
  <2>3. PICK q \in Nat : q = Power(2)  BY Powers
  <2>4. x * q + y \in Nat /\ x * q + y < q * q  BY <2>1, <2>2, <2>3, Joined
  <2>5. Load32(m, i) = x * q + y  BY <2>1, <2>2, <2>3 DEF Load32
  <2>. QED  BY <2>3, <2>4, <2>5, Powers
<1>4. CASE w = 1
  <2>1. Number(m) = Digit(m[1])  BY <1>4 DEF Number
  <2>. QED  BY <1>1, <1>4, <2>1, Powers
<1>5. CASE w = 2
  <2>1. Number(m) = Load16(m, 1)  BY <1>5 DEF Number
  <2>. QED  BY <1>2, <1>5, <2>1
<1>6. CASE w = 4
  <2>1. Number(m) = Load32(m, 1)  BY <1>6 DEF Number
  <2>. QED  BY <1>3, <1>6, <2>1
<1>7. CASE w = 8
  <2>1. PICK x \in Nat : x = Load32(m, 1) /\ x < Power(4)  BY <1>3, <1>7
  <2>2. PICK y \in Nat : y = Load32(m, 1 + 4) /\ y < Power(4)
    <3>1. 1 + 4 \in 1 .. 5 /\ 1 + 4 + 3 <= w  BY <1>7
    <3>. QED  BY <1>3, <3>1
  <2>3. PICK q \in Nat : q = Power(4)  BY Powers
  <2>4. x * q + y \in Nat /\ x * q + y < q * q  BY <2>1, <2>2, <2>3, Joined
  <2>5. Load64(m, 1) = x * q + y  BY <2>1, <2>2, <2>3 DEF Load64
  <2>6. Number(m) = Load64(m, 1)  BY <1>7 DEF Number
  <2>. QED  BY <1>7, <2>3, <2>4, <2>5, <2>6, Powers
<1>. QED  BY <1>4, <1>5, <1>6, <1>7

LEMMA SignedType ==
    ASSUME NEW n \in Nat, NEW w \in {1, 2, 4, 8}
    PROVE  Signed(n, w) \in Int
<1>1. PICK b \in Nat \ {0} : b = Power(w)  BY Powers
<1>2. PICK x \in Nat : x = n % b  BY <1>1
<1>. QED  BY <1>1, <1>2 DEF Signed

Elem(p) == ParseTag(stream, p + 1)
Size(p) == TagSize(stream[p + 1].t)

(* An element begins at p *)
Starts(p) == Elements(stream) /\ p \in Nat /\ p < Len(stream) /\ stream[p + 1].t \in DOMAIN Width

Counted == {"map", "array", "str", "bin", "ext"}

LEMMA StreamCells ==
    ASSUME Elements(stream)
    PROVE  /\ stream \in Seq(StreamCell) /\ stream \in Seq(Cell)
           /\ \A i \in 1 .. Len(stream) : /\ stream[i].n \in -Base .. Base - 1
                                          /\ stream[i].t = "fixint" \/ stream[i].n \in 0 .. Base - 1
<1>1. stream \in Seq(StreamCell)  BY DEF Elements, StreamCell
<1>2. StreamCell \subseteq Cell  BY BaseFacts DEF StreamCell, Cell
<1>3. stream \in Seq(Cell)  BY <1>1, <1>2, SeqMonotonic
<1>4. \A i \in 1 .. Len(stream) : stream[i] \in StreamCell  BY <1>1
<1>5. \A i \in 1 .. Len(stream) : stream[i].n \in -Base .. Base - 1  BY <1>4 DEF StreamCell
<1>6. \A i \in 1 .. Len(stream) : stream[i].t = "fixint" \/ stream[i].n >= 0  BY <1>1 DEF Elements
<1>. QED  BY <1>1, <1>3, <1>5, <1>6, BaseFacts

(* A type is in the name of a first byte, but for a number of its own *)
LEMMA KindOf ==
    ASSUME NEW a, NEW b, a.t = b.t, a.t # "fixint"
    PROVE  TypeOf(a) = TypeOf(b)
<1>1. PICK x : x = a.t  OBVIOUS
<1>2. b.t = x /\ a.t = x /\ x # "fixint"  BY <1>1
<1>. QED  BY <1>2 DEF TypeOf

LEMMA KindsOfNumbers ==
    ASSUME NEW a
    PROVE  /\ a.t = "fixint" => TypeOf(a) \in {"uint", "int"}
           /\ a.t \in TwosComplement => TypeOf(a) = "int"
           /\ a.t \in Unsigned => TypeOf(a) = "uint"
           /\ a.t = "double" => TypeOf(a) = "double"
<1>1. PICK x : x = a.t  OBVIOUS
<1>2. PICK n : n = a.n  OBVIOUS
<1>3. TypeOf(a) =
    CASE x \in {"false", "true"}               -> "bool"
      [] x = "fixint"                          -> IF n >= 0 THEN "uint" ELSE "int"
      [] x \in Unsigned                        -> "uint"
      [] x \in TwosComplement                  -> "int"
      [] x \in {"fixstr", "str8", "str16", "str32"} -> "str"
      [] x \in {"bin8", "bin16", "bin32"}      -> "bin"
      [] x \in {"fixarray", "array16", "array32"} -> "array"
      [] x \in {"fixmap", "map16", "map32"}    -> "map"
      [] x \in ExtTags                         -> "ext"
      [] OTHER                                 -> x
  BY <1>1, <1>2, Zenon DEF TypeOf
<1>. QED  BY <1>1, <1>3 DEF Unsigned, TwosComplement, ExtTags

(* What the first byte of an element says of it *)
LEMMA ElemKind ==
    ASSUME NEW p, Starts(p)
    PROVE  Elem(p).tag = stream[p + 1].t /\ TagType(Elem(p)) = TypeOf(stream[p + 1])
<1>. DEFINE first == stream[p + 1]
            digits == SubSeq(stream, p + 1 + 1, p + 1 + Width[first.t])
<1>1. Elem(p).tag = first.t /\ Elem(p).n = TagNumber(first, digits)  BY DEF Elem, ParseTag
<1>. HIDE DEF digits
<1>2. first.t = "fixint" => TagNumber(first, digits) = first.n
  BY DEF TagNumber, Width, FixedSize
<1>3. TagType(Elem(p)) = TypeOf([t |-> first.t, n |-> Elem(p).n])  BY <1>1 DEF TagType
<1>4. first.t # "fixint" => TypeOf([t |-> first.t, n |-> Elem(p).n]) = TypeOf(first)
  <2>. DEFINE both == [t |-> first.t, n |-> Elem(p).n]
  <2>1. both.t = first.t  OBVIOUS
  <2>. HIDE DEF both
  <2>. QED  BY <2>1, KindOf
<1>5. first.t = "fixint" => TypeOf([t |-> first.t, n |-> Elem(p).n]) = TypeOf(first)
  BY <1>1, <1>2 DEF TypeOf
<1>. QED  BY <1>1, <1>3, <1>4, <1>5

LEMMA Widths ==
    /\ \A tag \in DOMAIN Width : Width[tag] \in {0, 1, 2, 4, 8}
    /\ \A tag \in DOMAIN FixedSize : FixedSize[tag] \in 0 .. 16
BY DEF Width, FixedSize

LEMMA ElemNumber ==
    ASSUME NEW p, Starts(p), p + Size(p) <= Len(stream)
    PROVE  /\ Elem(p).n \in Int
           /\ TagType(Elem(p)) \in Counted => Elem(p).n \in 0 .. Power(4) - 1
<1>. DEFINE first == stream[p + 1]
            width == Width[first.t]
            digits == SubSeq(stream, p + 1 + 1, p + 1 + width)
<1>1. /\ p \in Nat /\ p < Len(stream) /\ first.t \in DOMAIN Width /\ stream \in Seq(Cell)
      /\ first.n \in -Base .. Base - 1
      /\ first.t = "fixint" \/ first.n \in 0 .. Base - 1
  BY StreamCells DEF Starts
<1>2. width \in {0, 1, 2, 4, 8} /\ p + 1 + width <= Len(stream)
  BY <1>1, Widths, TagSizes DEF Size
<1>3. digits \in Seq(Cell) /\ Len(digits) = width
  <2>1. width \in Nat /\ p + 1 \in Nat  BY <1>1, <1>2
  <2>2. PICK q \in Nat : q = p + 1  BY <2>1
  <2>3. q + width <= Len(stream) /\ stream \in Seq(Cell)  BY <1>1, <1>2, <2>2
  <2>4. SubSeq(stream, q + 1, q + width) \in Seq(Cell) /\ Len(SubSeq(stream, q + 1, q + width)) = width
    BY <2>1, <2>2, <2>3, Part
  <2>. QED  BY <2>2, <2>4
<1>4. Elem(p).n = TagNumber(first, digits)  BY DEF Elem, ParseTag
<1>5. TagType(Elem(p)) = TypeOf(first)  BY ElemKind
<1>. HIDE DEF digits, width
<1>6. PICK f \in Nat : f = Power(4) /\ Base <= f /\ 16 < f  BY Powers
<1>7. CASE first.t \in DOMAIN FixedSize
  <2>1. Elem(p).n = FixedSize[first.t]  BY <1>4, <1>7 DEF TagNumber
  <2>. QED  BY <1>6, <1>7, <2>1, Widths
<1>8. CASE first.t = "true"
  <2>1. Elem(p).n = 1  BY <1>4, <1>8 DEF TagNumber, FixedSize
  <2>. QED  BY <1>6, <2>1
<1>9. CASE width = 0 /\ first.t \notin DOMAIN FixedSize /\ first.t # "true"
  <2>1. Elem(p).n = first.n  BY <1>4, <1>9 DEF TagNumber, width
  <2>2. first.t = "fixint" => TypeOf(first) \notin Counted  BY KindsOfNumbers DEF Counted
  <2>. QED  BY <1>1, <1>5, <1>6, <2>1, <2>2, BaseFacts
<1>10. CASE width # 0 /\ first.t \notin DOMAIN FixedSize /\ first.t # "true"
  <2>0. width \in {1, 2, 4, 8}  BY <1>2, <1>10
  <2>1. PICK k \in Nat : k = Number(digits) /\ k < Power(width)  BY <1>3, <2>0, NumberWithin
  <2>2. CASE first.t \in TwosComplement
    <3>1. Elem(p).n = Signed(k, width)  BY <1>4, <1>10, <2>1, <2>2 DEF TagNumber, width
    <3>2. TypeOf(first) = "int"  BY <2>2, KindsOfNumbers
    <3>. QED  BY <1>5, <2>0, <2>1, <3>1, <3>2, SignedType DEF Counted
  <2>3. CASE first.t \notin TwosComplement
    <3>1. Elem(p).n = k  BY <1>4, <1>10, <2>1, <2>3 DEF TagNumber, width
    <3>2. CASE width = 8
      <4>1. first.t \in {"u64", "i64", "double"}  BY <1>1, <3>2 DEF Width, width
      <4>2. TypeOf(first) \notin Counted  BY <4>1, KindsOfNumbers DEF Unsigned, TwosComplement, Counted
      <4>. QED  BY <1>5, <3>1, <4>2
    <3>3. CASE width # 8
      <4>1. Power(width) <= Power(4)
        <5>1. Power(1) <= Power(4) /\ Power(2) <= Power(4)
          <6>1. PICK q \in Nat : q = Power(2) /\ q >= 1  BY Powers
          <6>2. q <= q * q
            <7>1. (q - 1) * q \in Nat
              <8>1. q - 1 \in Nat  BY <6>1
              <8>2. \A u, v \in Nat : u * v \in Nat  OBVIOUS
              <8>. QED  BY <8>1, <8>2
            <7>2. (q - 1) * q = q * q - q  OBVIOUS
            <7>. QED  BY <7>1, <7>2
          <6>. QED  BY <6>1, <6>2, Powers
        <5>2. width \in {1, 2, 4}  BY <2>0, <3>3
        <5>. QED  BY <1>6, <5>1, <5>2
      <4>2. PICK z \in Nat : z = Power(width)  BY <2>0, Powers
      <4>. QED  BY <1>6, <2>1, <3>1, <4>1, <4>2
    <3>. QED  BY <3>2, <3>3
  <2>. QED  BY <2>2, <2>3
<1>. QED  BY <1>7, <1>8, <1>9, <1>10

-----------------------------------------------------------------------------
(* What each function wants and answers, one by one *)

Bounded(c, e) == e.n \in c.low .. c.high

LEMMA Integers10 == Integers_ = {"u8", "u16", "u32", "u64", "uint", "i8", "i16", "i32", "i64", "int"}
BY DEF Integers_, Lowest

LEMMA Accepts4 == DOMAIN Accepts = {"float", "double", "float_strict", "double_strict"}
BY DEF Accepts

LEMMA WantsNumber ==
    ASSUME NEW c, NEW e, NEW body, NEW u
    PROVE  LET wants == Wants(c, e, body, u)
           IN  /\ c.f = "match" => wants = (IsInteger(e) /\ Bounded(c, e))
               /\ c.f \in Integers_ =>
                     wants = (IsInteger(e) /\ Bounded(c, e) /\ e.n \in Lowest[c.f] .. Highest[c.f])
               /\ c.f \in DOMAIN Accepts => wants = (TagType(e) \in Accepts[c.f])
               /\ c.f \in {"nil", "bool"} => wants = (TagType(e) = c.f)
               /\ c.f \in {"true", "false"} => wants = (e.tag = c.f)
               /\ c.f = "timestamp" => wants = IsTime(e)
BY Integers10, Accepts4 DEF Wants, Bounded

LEMMA WantsCount ==
    ASSUME NEW c, NEW e, NEW body, NEW u
    PROVE  LET wants == Wants(c, e, body, u)
           IN  /\ c.f \in {"map", "array", "str", "bin", "ext"} => wants = (TagType(e) = c.f /\ Bounded(c, e))
               /\ c.f = "map_or_nil" => wants = (TagType(e) = "nil" \/ (TagType(e) = "map" /\ Bounded(c, e)))
               /\ c.f = "array_or_nil" => wants = (TagType(e) = "nil" \/ (TagType(e) = "array" /\ Bounded(c, e)))
               /\ c.f = "tag" => wants = TagEqual(Heads[c.low], e)
               /\ c.f \in {"str_max", "str_buf"} => wants = (TagType(e) = "str")
               /\ c.f = "bin_buf" => wants = (TagType(e) = "bin")
               /\ c.f = "bin_alloc" => wants = (TagType(e) = "bin" /\ Bounded(c, e))
               /\ c.f = "ext_buf" => wants = (TagType(e) = "ext")
               /\ c.f \in {"ext_max", "ext_alloc"} => wants = (TagType(e) = "ext" /\ Bounded(c, e))
BY Integers10, Accepts4 DEF Wants, Bounded

LEMMA WantsText ==
    ASSUME NEW c, NEW e, NEW body, NEW u
    PROVE  LET wants == Wants(c, e, body, u)
           IN  /\ c.f \in {"utf8", "cstr", "utf8_cstr"} =>
                     wants = (TagType(e) = "str" /\ Valid(body, c.f # "cstr", c.f # "utf8"))
               /\ c.f = "enum" => wants = (TagType(e) = "str" /\ \E i \in 1 .. Count : body = Names[i])
               /\ c.f \in {"enum_optional", "key_cstr", "key_uint"} => wants = TRUE
BY Integers10, Accepts4 DEF Wants, KeyFunctions

LEMMA WantsMatch ==
    ASSUME NEW c, NEW e, NEW body, NEW u, c.f = "str_match"
    PROVE  Wants(c, e, body, u) <=>
              /\ TagType(e) = "str" /\ e.n = Len(Names[c.low])
              /\ \A k \in 1 .. Len(Names[c.low]) - u : k \in DOMAIN body /\ body[k] = Names[c.low][k]
BY Integers10, Accepts4 DEF Wants

LEMMA AnswersForms ==
    ASSUME NEW c, NEW e, NEW body
    PROVE  /\ Answers(c, e, body, Null)
           /\ \A n : AnswersNumber(c, e, body, n) => Answers(c, e, body, Num(n))
           /\ \A n, s : AnswersNumber(c, e, body, n) => Answers(c, e, body, [some |-> s, num |-> n])
           /\ \A n, k : AnswersNumber(c, e, body, n) => Answers(c, e, body, [num |-> n, inside |-> k])
           /\ \A n, k : AnswersNumber(c, e, body, n) => Answers(c, e, body, [num |-> n, marked |-> k])
           /\ \A x : SaysNumber(c.f, TagType(e), e.n, x) => Answers(c, e, body, [real |-> x])
           /\ \A n : AnswersNumber(c, e, body, n) => Answers(c, e, body, [num |-> n, exttype |-> e.exttype])
           /\ \A x : x = e.exttype \/ c.f = "ext_alloc" => Answers(c, e, body, [exttype |-> x])
           /\ \A b : SubSeq(b, 1, e.n) = body => Answers(c, e, body, [bytes |-> b])
           /\ \A b : SubSeq(b, 1, e.n) = body => Answers(c, e, body, [bytes |-> b, exttype |-> e.exttype])
           /\ Answers(c, e, body, [time |-> Split(body)])
           /\ Answers(c, e, body, [bool |-> e.tag = "true"])
BY DEF Answers, Null, Num

LEMMA AnswersPlain ==
    ASSUME NEW c, NEW e, NEW body, NEW n, c.f \notin Lookups, c.f # "key_uint"
    PROVE  AnswersNumber(c, e, body, n) = (n = IF TagType(e) = "nil" THEN 0 ELSE e.n)
BY DEF AnswersNumber

-----------------------------------------------------------------------------
(* The head of an element *)

(* A reader that stands at an element *)
At(r, p) == Starts(p) /\ Stands(r, p) /\ r.error = "ok"

(* An outcome that has read the head of one *)
HeadRead(o, p) == p + Size(p) <= Len(stream) /\ Passed(o, p + Size(p))

LEMMA ReadTagElem ==
    ASSUME NEW r, NEW p, At(r, p), NEW o \in ReadTag(r), Good(o)
    PROVE  HeadRead(o, p) /\ o.v = Elem(p)
BY ReadTagTagged DEF At, Starts, HeadRead, Elem, Size, Tagged

LEMMA BadOutcomes ==
    ASSUME NEW r, NEW outcomes, KeptAll(outcomes, r), NEW o \in outcomes
    PROVE  /\ \A v : ~Good(Refused(o, v))
           /\ \A v, e : e # "ok" => ~Good(Out(FlagError(o.rd, e), v))
<1>1. DOMAIN o.rd = Fields  BY DEF KeptAll, Kept
<1>. QED  BY <1>1, RefusedBad, FlagBad DEF Good, Out

LEMMA AtKept == ASSUME NEW r, NEW p, At(r, p)  PROVE DOMAIN r = Fields
BY DEF At, Stands

LEMMA ExpectIntegerGood ==
    ASSUME NEW r, NEW p, At(r, p), NEW f, NEW o \in ExpectInteger(r, f), Good(o)
    PROVE  /\ HeadRead(o, p) /\ o.v = Num(Elem(p).n)
           /\ IsInteger(Elem(p)) /\ Fits(f, Elem(p).n)
<1>1. PICK q \in ReadTag(r) : o = IF IsInteger(q.v) /\ Fits(f, q.v.n) THEN Out(q.rd, Num(q.v.n)) ELSE Refused(q, Num(0))
  BY DEF ExpectInteger
<1>2. IsInteger(q.v) /\ Fits(f, q.v.n) /\ o = Out(q.rd, Num(q.v.n))
  BY <1>1, AtKept, ReadTagKept, BadOutcomes
<1>3. HeadRead(q, p) /\ q.v = Elem(p)  BY <1>2, ReadTagElem DEF Good, Out
<1>. QED  BY <1>2, <1>3 DEF Out, HeadRead, Passed

LEMMA ExpectRealGood ==
    ASSUME NEW r, NEW p, At(r, p), NEW f, NEW o \in ExpectReal(r, f), Good(o)
    PROVE  /\ HeadRead(o, p) /\ TagType(Elem(p)) \in Accepts[f]
           /\ o.v = [real |-> Converted(f, TagType(Elem(p)), Elem(p).n)]
<1>. DEFINE real(v) == [real |-> Converted(f, TagType(v), v.n)]
<1>1. PICK q \in ReadTag(r) :
         o = IF TagType(q.v) \in Accepts[f] THEN Out(q.rd, real(q.v)) ELSE Refused(q, ZeroReal(f))
  BY DEF ExpectReal
<1>2. TagType(q.v) \in Accepts[f] /\ o = Out(q.rd, real(q.v))
  BY <1>1, AtKept, ReadTagKept, BadOutcomes
<1>3. HeadRead(q, p) /\ q.v = Elem(p)  BY <1>2, ReadTagElem DEF Good, Out
<1>. QED  BY <1>2, <1>3 DEF Out, HeadRead, Passed

LEMMA ExpectCountGood ==
    ASSUME NEW r, NEW p, At(r, p), NEW type, NEW o \in ExpectCount(r, type), Good(o)
    PROVE  HeadRead(o, p) /\ o.v = Num(Elem(p).n) /\ TagType(Elem(p)) = type
<1>1. PICK q \in ReadTag(r) : o = IF TagType(q.v) = type THEN Out(q.rd, Num(q.v.n)) ELSE Refused(q, Num(0))
  BY DEF ExpectCount
<1>2. TagType(q.v) = type /\ o = Out(q.rd, Num(q.v.n))
  BY <1>1, AtKept, ReadTagKept, BadOutcomes
<1>3. HeadRead(q, p) /\ q.v = Elem(p)  BY <1>2, ReadTagElem DEF Good, Out
<1>. QED  BY <1>2, <1>3 DEF Out, HeadRead, Passed

LEMMA ExpectOrNilGood ==
    ASSUME NEW r, NEW p, At(r, p), NEW type, NEW o \in ExpectOrNil(r, type), Good(o)
    PROVE  /\ HeadRead(o, p)
           /\ \/ TagType(Elem(p)) = type /\ o.v = [some |-> TRUE, num |-> Elem(p).n]
              \/ TagType(Elem(p)) # type /\ TagType(Elem(p)) = "nil" /\ o.v = [some |-> FALSE, num |-> 0]
<1>1. PICK q \in ReadTag(r) :
         o = IF TagType(q.v) = type THEN Out(q.rd, [some |-> TRUE, num |-> q.v.n])
             ELSE IF TagType(q.v) = "nil" THEN Out(q.rd, [some |-> FALSE, num |-> 0])
             ELSE Refused(q, [some |-> FALSE, num |-> 0])
  BY DEF ExpectOrNil
<1>2. /\ o.rd = q.rd
      /\ \/ TagType(q.v) = type /\ o.v = [some |-> TRUE, num |-> q.v.n]
         \/ TagType(q.v) # type /\ TagType(q.v) = "nil" /\ o.v = [some |-> FALSE, num |-> 0]
  <2>1. ~Good(Refused(q, [some |-> FALSE, num |-> 0]))  BY AtKept, ReadTagKept, BadOutcomes
  <2>2. CASE TagType(q.v) = type  BY <1>1, <2>2 DEF Out
  <2>3. CASE TagType(q.v) # type /\ TagType(q.v) = "nil"  BY <1>1, <2>3 DEF Out
  <2>4. CASE TagType(q.v) # type /\ TagType(q.v) # "nil"  BY <1>1, <2>1, <2>4
  <2>. QED  BY <2>2, <2>3, <2>4
<1>3. HeadRead(q, p) /\ q.v = Elem(p)  BY <1>2, ReadTagElem DEF Good
<1>. QED  BY <1>2, <1>3 DEF HeadRead, Passed

LEMMA ExpectExtGood ==
    ASSUME NEW r, NEW p, At(r, p), NEW o \in ExpectExt(r), Good(o)
    PROVE  /\ HeadRead(o, p) /\ o.v = [num |-> Elem(p).n, exttype |-> Elem(p).exttype]
           /\ TagType(Elem(p)) = "ext"
<1>1. PICK q \in ReadTag(r) :
         o = IF TagType(q.v) = "ext" THEN Out(q.rd, [num |-> q.v.n, exttype |-> q.v.exttype])
             ELSE Refused(q, [num |-> 0, exttype |-> 0])
  BY DEF ExpectExt
<1>2. TagType(q.v) = "ext" /\ o = Out(q.rd, [num |-> q.v.n, exttype |-> q.v.exttype])
  BY <1>1, AtKept, ReadTagKept, BadOutcomes
<1>3. HeadRead(q, p) /\ q.v = Elem(p)  BY <1>2, ReadTagElem DEF Good, Out
<1>. QED  BY <1>2, <1>3 DEF Out, HeadRead, Passed

(* The checks let pass what they are for *)
LEMMA ChecksGood ==
    ASSUME NEW r, NEW outcomes, KeptAll(outcomes, r), NEW low, NEW high, NEW n, NEW e, e # "ok"
    PROVE  /\ \A o \in Within(outcomes, low, high) : Good(o) => o \in outcomes /\ o.v.num \in low .. high
           /\ \A o \in Match(outcomes, n) :
                 Good(o) => o.v = Null /\ \E q \in outcomes : Good(q) /\ q.rd = o.rd /\ q.v.num = n
           /\ \A o \in AtMost(outcomes, high, e) : Good(o) => o \in outcomes /\ ~(o.v.num > high)
<1>1. ASSUME NEW o \in Within(outcomes, low, high), Good(o)  PROVE o \in outcomes /\ o.v.num \in low .. high
  <2>1. PICK q \in outcomes : o = IF ~Good(q) THEN Out(q.rd, Num(low))
                                  ELSE IF q.v.num \notin low .. high THEN Refused(q, Num(low)) ELSE q
    BY <1>1 DEF Within
  <2>2. ~Good(Refused(q, Num(low)))  BY BadOutcomes
  <2>3. ~Good(q) => ~Good(Out(q.rd, Num(low)))  BY DEF Good, Out
  <2>. QED  BY <1>1, <2>1, <2>2, <2>3
<1>2. ASSUME NEW o \in Match(outcomes, n), Good(o)
      PROVE  o.v = Null /\ \E q \in outcomes : Good(q) /\ q.rd = o.rd /\ q.v.num = n
  <2>1. PICK q \in outcomes : o = IF q.v.num = n THEN Out(q.rd, Null) ELSE Refused(q, Null)
    BY <1>2 DEF Match
  <2>2. ~Good(Refused(q, Null))  BY BadOutcomes
  <2>. QED  BY <1>2, <2>1, <2>2 DEF Good, Out
<1>3. ASSUME NEW o \in AtMost(outcomes, high, e), Good(o)  PROVE o \in outcomes /\ ~(o.v.num > high)
  <2>1. PICK q \in outcomes : o = IF q.v.num > high THEN Out(FlagError(q.rd, e), [q.v EXCEPT !.num = 0]) ELSE q
    BY <1>3 DEF AtMost
  <2>2. ~Good(Out(FlagError(q.rd, e), [q.v EXCEPT !.num = 0]))  BY BadOutcomes
  <2>. QED  BY <1>3, <2>1, <2>2
<1>. QED  BY <1>1, <1>2, <1>3

LEMMA NativeGood ==
    ASSUME NEW r, NEW p, Stands(r, p), r.error = "ok", NEW width \in Nat, NEW o \in Native(r, width), Good(o)
    PROVE  /\ Passed(o, p + width) /\ p + width <= Len(stream)
           /\ o.v = Number(SubSeq(stream, p + 1, p + width))
<1>1. PICK q \in Ensure(r, width) :
         o = IF q.v THEN Out(Take(q.rd, width).rd, Number(Take(q.rd, width).v)) ELSE Out(q.rd, 0)
  BY DEF Native
<1>2. DOMAIN q.rd = Fields  BY EnsureKept DEF KeptAll, Kept, Stands
<1>3. Take(q.rd, width).rd.error = q.rd.error  BY <1>2 DEF Take, Out, Fields
<1>4. Good(q)  BY <1>1, <1>3 DEF Good, Out
<1>5. Stands(q.rd, p) /\ InBuffer(q.rd) >= width /\ q.v = TRUE /\ q.rd.error = "ok"  BY <1>4, EnsureStands
<1>6. width <= InBuffer(q.rd)
  <2>1. InBuffer(q.rd) \in Int  BY <1>5 DEF Stands, InBuffer
  <2>. QED  BY <1>5, <2>1
<1>7. Got(Take(q.rd, width), p, width)  BY <1>5, <1>6, TakeGot
<1>8. o.rd = Take(q.rd, width).rd /\ o.v = Number(Take(q.rd, width).v)  BY <1>1, <1>5 DEF Out
<1>9. Yields(Take(q.rd, width).v, p, width) /\ Len(Take(q.rd, width).v) = width /\ stream \in Seq(Cell)
  BY <1>5, <1>7 DEF Got, Stands
<1>10. Take(q.rd, width).v = SubSeq(stream, p + 1, p + width)  BY <1>9, ExactBytes
<1>. QED  BY <1>7, <1>8, <1>9, <1>10 DEF Got, Passed, Yields

LEMMA TypeByteGood ==
    ASSUME NEW r, NEW p, Stands(r, p), r.error = "ok", NEW o \in TypeByte(r), Good(o)
    PROVE  Passed(o, p + 1) /\ p + 1 <= Len(stream) /\ o.v = stream[p + 1]
<1>1. PICK q \in Ensure(r, 1) :
         o = IF q.v THEN Out(Take(q.rd, 1).rd, Take(q.rd, 1).v[1]) ELSE Out(q.rd, First("fixint", 0))
  BY DEF TypeByte
<1>2. DOMAIN q.rd = Fields  BY EnsureKept DEF KeptAll, Kept, Stands
<1>3. Take(q.rd, 1).rd.error = q.rd.error  BY <1>2 DEF Take, Out, Fields
<1>4. Good(q)  BY <1>1, <1>3 DEF Good, Out
<1>5. Stands(q.rd, p) /\ InBuffer(q.rd) >= 1 /\ q.v = TRUE /\ q.rd.error = "ok"  BY <1>4, EnsureStands
<1>6. 1 <= InBuffer(q.rd)
  <2>1. InBuffer(q.rd) \in Int  BY <1>5 DEF Stands, InBuffer
  <2>. QED  BY <1>5, <2>1
<1>7. Got(Take(q.rd, 1), p, 1)  BY <1>5, <1>6, TakeGot
<1>8. o.rd = Take(q.rd, 1).rd /\ o.v = Take(q.rd, 1).v[1]  BY <1>1, <1>5 DEF Out
<1>. QED  BY <1>7, <1>8 DEF Got, Passed, Yields

LEMMA KindsOfText ==
    ASSUME NEW a, a.t \in DOMAIN Width
    PROVE  /\ TypeOf(a) = "str" => a.t \in {"fixstr", "str8", "str16", "str32"}
           /\ TypeOf(a) = "nil" => a.t = "nil"
           /\ TypeOf(a) = "bool" => a.t \in {"true", "false"}
           /\ a.t \in {"fixstr", "str8", "str16", "str32"} => TypeOf(a) = "str"
           /\ a.t = "nil" => TypeOf(a) = "nil"
           /\ a.t \in {"true", "false"} => TypeOf(a) = "bool"
<1>1. PICK x : x = a.t  OBVIOUS
<1>2. PICK n : n = a.n  OBVIOUS
<1>3. TypeOf(a) =
    CASE x \in {"false", "true"}               -> "bool"
      [] x = "fixint"                          -> IF n >= 0 THEN "uint" ELSE "int"
      [] x \in Unsigned                        -> "uint"
      [] x \in TwosComplement                  -> "int"
      [] x \in {"fixstr", "str8", "str16", "str32"} -> "str"
      [] x \in {"bin8", "bin16", "bin32"}      -> "bin"
      [] x \in {"fixarray", "array16", "array32"} -> "array"
      [] x \in {"fixmap", "map16", "map32"}    -> "map"
      [] x \in ExtTags                         -> "ext"
      [] OTHER                                 -> x
  BY <1>1, <1>2, Zenon DEF TypeOf
<1>4. x \notin {"str", "bool"}  BY <1>1 DEF Width
<1>. QED  BY <1>1, <1>3, <1>4 DEF Unsigned, TwosComplement, ExtTags

LEMMA ExpectNilGood ==
    ASSUME NEW r, NEW p, At(r, p), NEW o \in ExpectNil(r), Good(o)
    PROVE  HeadRead(o, p) /\ o.v = Null /\ TagType(Elem(p)) = "nil"
<1>1. PICK q \in TypeByte(r) : o = IF q.v.t = "nil" THEN Out(q.rd, Null) ELSE Refused(q, Null)  BY DEF ExpectNil
<1>2. q.v.t = "nil" /\ o = Out(q.rd, Null)  BY <1>1, AtKept, NativeKept, BadOutcomes
<1>3. Passed(q, p + 1) /\ p + 1 <= Len(stream) /\ q.v = stream[p + 1]
  BY <1>2, TypeByteGood DEF At, Good, Out
<1>4. Size(p) = 1  BY <1>2, <1>3 DEF Size, TagSize, Width, ExtTags
<1>5. TagType(Elem(p)) = "nil"  BY <1>2, <1>3, ElemKind, KindsOfText DEF At, Starts
<1>. QED  BY <1>2, <1>3, <1>4, <1>5 DEF HeadRead, Passed, Out

LEMMA ExpectBoolGood ==
    ASSUME NEW r, NEW p, At(r, p), NEW o \in ExpectBool(r), Good(o)
    PROVE  /\ HeadRead(o, p) /\ TagType(Elem(p)) = "bool" /\ Elem(p).tag \in {"true", "false"}
           /\ o.v = [bool |-> Elem(p).tag = "true"]
<1>1. PICK q \in TypeByte(r) : o \in IF TypeOf(q.v) = "bool" THEN {Out(q.rd, [bool |-> q.v.t = "true"])}
                                     ELSE {Refused(q, [bool |-> b]) : b \in LowBit(q.v)}
  BY DEF ExpectBool
<1>2. TypeOf(q.v) = "bool" /\ o = Out(q.rd, [bool |-> q.v.t = "true"])
  <2>1. \A b : ~Good(Refused(q, [bool |-> b]))  BY AtKept, NativeKept, BadOutcomes
  <2>2. CASE TypeOf(q.v) = "bool"  BY <1>1, <2>2
  <2>3. CASE TypeOf(q.v) # "bool"
    <3>1. o \in {Refused(q, [bool |-> b]) : b \in LowBit(q.v)}  BY <1>1, <2>3
    <3>. QED  BY <2>1, <3>1
  <2>. QED  BY <2>2, <2>3
<1>3. Passed(q, p + 1) /\ p + 1 <= Len(stream) /\ q.v = stream[p + 1]
  BY <1>2, TypeByteGood DEF At, Good, Out
<1>4. stream[p + 1].t \in {"true", "false"}  BY <1>2, <1>3, KindsOfText DEF At, Starts
<1>5. Size(p) = 1  BY <1>4 DEF Size, TagSize, Width, ExtTags
<1>6. TagType(Elem(p)) = "bool" /\ Elem(p).tag = stream[p + 1].t  BY <1>2, <1>3, ElemKind DEF At
<1>. QED  BY <1>2, <1>3, <1>4, <1>5, <1>6 DEF HeadRead, Passed, Out

LEMMA ExpectJustGood ==
    ASSUME NEW r, NEW p, At(r, p), NEW want \in BOOLEAN, NEW o \in ExpectJust(r, want), Good(o)
    PROVE  HeadRead(o, p) /\ o.v = Null /\ Elem(p).tag = IF want THEN "true" ELSE "false"
<1>1. PICK q \in ExpectBool(r) : o = IF q.v.bool = want THEN Out(q.rd, Null) ELSE Refused(q, Null)
  BY DEF ExpectJust
<1>2. q.v.bool = want /\ o = Out(q.rd, Null)  BY <1>1, AtKept, ExpectBoolKept, BadOutcomes
<1>3. /\ HeadRead(q, p) /\ Elem(p).tag \in {"true", "false"} /\ q.v = [bool |-> Elem(p).tag = "true"]
  BY <1>2, ExpectBoolGood DEF Good, Out
<1>4. Elem(p).tag = IF want THEN "true" ELSE "false"  BY <1>2, <1>3
<1>. QED  BY <1>2, <1>3, <1>4 DEF HeadRead, Passed, Out

(* The head of a string, byte by byte, is the same *)
LEMMA ExpectStrGood ==
    ASSUME NEW r, NEW p, At(r, p), NEW o \in ExpectStr(r), Good(o)
    PROVE  HeadRead(o, p) /\ o.v = Num(Elem(p).n) /\ TagType(Elem(p)) = "str"
<1>. DEFINE first == stream[p + 1]
<1>1. PICK q \in TypeByte(r) :
         o \in IF q.v.t = "fixstr" THEN {Out(q.rd, Num(q.v.n))}
               ELSE IF TypeOf(q.v) = "str" THEN {Out(n.rd, Num(n.v)) : n \in Native(q.rd, Width[q.v.t])}
               ELSE {Refused(q, Num(0))}
  BY Zenon DEF ExpectStr
<1>2. ~Good(Refused(q, Num(0)))  BY AtKept, NativeKept, BadOutcomes
<1>3. Elem(p).n = TagNumber(first, SubSeq(stream, p + 1 + 1, p + 1 + Width[first.t])) /\ TagType(Elem(p)) = TypeOf(first)
  BY ElemKind DEF At, Elem, ParseTag
<1>4. CASE q.v.t = "fixstr"
  <2>1. o = Out(q.rd, Num(q.v.n))  BY <1>1, <1>4
  <2>2. Passed(q, p + 1) /\ p + 1 <= Len(stream) /\ q.v = first  BY <2>1, TypeByteGood DEF At, Good, Out
  <2>3. first.t = "fixstr"  BY <1>4, <2>2
  <2>4. Size(p) = 1 /\ Width[first.t] = 0  BY <2>3 DEF Size, TagSize, Width, ExtTags
  <2>5. Elem(p).n = first.n  BY <1>3, <2>3, <2>4 DEF TagNumber, FixedSize
  <2>6. TypeOf(first) = "str"  BY <2>3, KindsOfText DEF At, Starts
  <2>. QED  BY <1>3, <2>1, <2>2, <2>4, <2>5, <2>6 DEF HeadRead, Passed, Out
<1>5. CASE q.v.t # "fixstr" /\ TypeOf(q.v) = "str"
  <2>1. o \in {Out(n.rd, Num(n.v)) : n \in Native(q.rd, Width[q.v.t])}  BY <1>1, <1>5
  <2>2. PICK n \in Native(q.rd, Width[q.v.t]) : o = Out(n.rd, Num(n.v))  BY <2>1
  <2>3. Good(n)  BY <2>2 DEF Good, Out
  <2>4. DOMAIN q.rd = Fields  BY AtKept, NativeKept DEF KeptAll, Kept
  <2>5. Good(q)  BY <2>3, <2>4, NativeKept DEF KeptAll, Kept, Good
  <2>6. Passed(q, p + 1) /\ p + 1 <= Len(stream) /\ q.v = first  BY <2>5, TypeByteGood DEF At
  <2>7. first.t \in {"str8", "str16", "str32"}  BY <1>5, <2>6, KindsOfText DEF At, Starts
  <2>8. PICK w \in {1, 2, 4} : w = Width[first.t]  BY <2>7 DEF Width
  <2>9. Size(p) = 1 + w  BY <2>7, <2>8 DEF Size, TagSize, ExtTags
  <2>10. n \in Native(q.rd, w)  BY <2>2, <2>6, <2>8
  <2>11. /\ Passed(n, p + 1 + w) /\ p + 1 + w <= Len(stream)
         /\ n.v = Number(SubSeq(stream, p + 1 + 1, p + 1 + w))
    BY <2>3, <2>6, <2>8, <2>10, NativeGood DEF Passed
  <2>12. Elem(p).n = Number(SubSeq(stream, p + 1 + 1, p + 1 + w))
    BY <1>3, <2>7, <2>8 DEF TagNumber, FixedSize, TwosComplement
  <2>13. p + Size(p) = p + 1 + w  BY <2>8, <2>9 DEF At, Starts
  <2>. QED  BY <1>3, <1>5, <2>2, <2>6, <2>11, <2>12, <2>13 DEF HeadRead, Passed, Out
<1>6. CASE q.v.t # "fixstr" /\ TypeOf(q.v) # "str"  BY <1>1, <1>2, <1>6
<1>. QED  BY <1>4, <1>5, <1>6

-----------------------------------------------------------------------------
(* The bytes of an element *)

BodyAt(p) == LET from == p + Size(p)
                 to == from + Contents(Elem(p))
             IN  SubSeq(stream, from + 1, IF to <= Len(stream) THEN to ELSE Len(stream))

WholeRead(o, p) == p + Size(p) <= Len(stream) /\ Passed(o, p + Size(p) + Contents(Elem(p)))

Holding == {"str", "bin", "ext"}

LEMMA ElemContents ==
    ASSUME NEW p, Starts(p), p + Size(p) <= Len(stream)
    PROVE  /\ Contents(Elem(p)) \in Nat /\ p + Size(p) \in Nat
           /\ Contents(Elem(p)) = IF TagType(Elem(p)) \in Holding THEN Elem(p).n ELSE 0
           /\ Begins(stream, p + Size(p) + Contents(Elem(p)))
           /\ \A i \in p + 2 .. p + Size(p) + Contents(Elem(p)) : i <= Len(stream) => stream[i].t = "byte"
<1>1. p \in 0 .. Len(stream) - 1 /\ stream[p + 1].t \in DOMAIN Width  BY StreamCells DEF Starts
<1>2. /\ Contents(Elem(p)) \in Nat /\ Begins(stream, p + Size(p) + Contents(Elem(p)))
      /\ \A i \in p + 2 .. p + Size(p) + Contents(Elem(p)) : i <= Len(stream) => stream[i].t = "byte"
  BY <1>1 DEF Starts, Elements, Size, Elem
<1>3. p + Size(p) \in Nat  BY <1>1, TagSizes DEF Size, Starts
<1>. QED  BY <1>2, <1>3 DEF Contents, Holding

LEMMA BodyRead ==
    ASSUME NEW p, Starts(p), p + Size(p) <= Len(stream), NEW v, Yields(v, p + Size(p), Contents(Elem(p)))
    PROVE  /\ SubSeq(v, 1, Contents(Elem(p))) = BodyAt(p)
           /\ Len(v) = Contents(Elem(p)) => v = BodyAt(p)
<1>. DEFINE q == p + Size(p)
            n == Contents(Elem(p))
<1>1. stream \in Seq(Cell)  BY StreamCells DEF Starts
<1>2. q + n <= Len(stream)  BY DEF Yields
<1>3. BodyAt(p) = SubSeq(stream, q + 1, q + n)  BY <1>2 DEF BodyAt
<1>. HIDE DEF q, n
<1>4. Yields(v, q, n)  BY DEF q, n
<1>5. SubSeq(v, 1, n) = SubSeq(stream, q + 1, q + n)  BY <1>1, <1>4, YieldsSame DEF Same
<1>6. Len(v) = n => v = SubSeq(stream, q + 1, q + n)  BY <1>1, <1>4, ExactBytes
<1>. QED  BY <1>3, <1>5, <1>6 DEF n

(* A head whose bytes are read next, and how many *)
HeadKnown(o, p) == HeadRead(o, p) /\ o.v.num = Elem(p).n /\ TagType(Elem(p)) \in Holding

LEMMA HeadStands ==
    ASSUME NEW p, Starts(p), NEW o, HeadKnown(o, p)
    PROVE  /\ Stands(o.rd, p + Size(p)) /\ o.rd.error = "ok" /\ p + Size(p) <= Len(stream)
           /\ o.v.num = Contents(Elem(p)) /\ Contents(Elem(p)) \in Nat /\ Elem(p).n = Contents(Elem(p))
BY ElemContents DEF HeadKnown, HeadRead, Passed

LEMMA BufferedGood ==
    ASSUME NEW r, NEW p, At(r, p), NEW outcomes, KeptAll(outcomes, r),
           NEW type, \A q \in outcomes : Good(q) => HeadKnown(q, p) /\ TagType(Elem(p)) = type,
           NEW size, NEW o \in Buffered(outcomes, size), Good(o)
    PROVE  WholeRead(o, p) /\ o.v = [bytes |-> BodyAt(p)] /\ TagType(Elem(p)) = type
<1>0. Starts(p)  BY DEF At
<1>1. PICK q \in outcomes :
         o \in IF ~Good(q) THEN {Out(q.rd, [bytes |-> << >>])}
               ELSE IF q.v.num > size THEN {Out(FlagError(q.rd, "too_big"), [bytes |-> << >>])}
               ELSE {Out(b.rd, [bytes |-> IF Good(b) THEN b.v ELSE << >>]) : b \in ReadNative(q.rd, q.v.num)}
  BY DEF Buffered
<1>2. CASE ~Good(q)
  <2>1. o = Out(q.rd, [bytes |-> << >>])  BY <1>1, <1>2
  <2>. QED  BY <1>2, <2>1 DEF Good, Out
<1>3. CASE Good(q) /\ q.v.num > size
  <2>1. o = Out(FlagError(q.rd, "too_big"), [bytes |-> << >>])  BY <1>1, <1>3
  <2>. QED  BY <2>1, BadOutcomes
<1>4. CASE Good(q) /\ ~(q.v.num > size)
  <2>1. o \in {Out(b.rd, [bytes |-> IF Good(b) THEN b.v ELSE << >>]) : b \in ReadNative(q.rd, q.v.num)}
    BY <1>1, <1>4
  <2>2. PICK b \in ReadNative(q.rd, q.v.num) : o = Out(b.rd, [bytes |-> IF Good(b) THEN b.v ELSE << >>])
    BY <2>1
  <2>3. Good(b) /\ o.rd = b.rd /\ o.v = [bytes |-> b.v]  BY <2>2 DEF Good, Out
  <2>4. HeadKnown(q, p) /\ TagType(Elem(p)) = type  BY <1>4
  <2>5. /\ Stands(q.rd, p + Size(p)) /\ q.rd.error = "ok" /\ p + Size(p) <= Len(stream)
        /\ q.v.num = Contents(Elem(p)) /\ Contents(Elem(p)) \in Nat
    BY <1>0, <2>4, HeadStands
  <2>6. Got(b, p + Size(p), Contents(Elem(p)))  BY <2>2, <2>3, <2>5, ReadNativeGot
  <2>7. b.v = BodyAt(p)  BY <1>0, <2>5, <2>6, BodyRead DEF Got
  <2>. QED  BY <2>3, <2>4, <2>5, <2>6, <2>7 DEF Got, WholeRead, Passed
<1>. QED  BY <1>2, <1>3, <1>4

LEMMA BufferedUtf8Good ==
    ASSUME NEW r, NEW p, At(r, p), NEW outcomes, KeptAll(outcomes, r),
           NEW type, \A q \in outcomes : Good(q) => HeadKnown(q, p) /\ TagType(Elem(p)) = type,
           NEW size, NEW o \in BufferedUtf8(outcomes, size), Good(o)
    PROVE  /\ WholeRead(o, p) /\ o.v = [bytes |-> BodyAt(p)] /\ TagType(Elem(p)) = type
           /\ IsUtf8(BodyAt(p))
<1>1. PICK q \in Buffered(outcomes, size) : o = IF IsUtf8(q.v.bytes) THEN q ELSE Refused(q, [bytes |-> << >>])
  BY DEF BufferedUtf8
<1>2. o = q /\ IsUtf8(q.v.bytes)  BY <1>1, BufferedKept, BadOutcomes
<1>. QED  BY <1>2, BufferedGood

LEMMA ExtBufGood ==
    ASSUME NEW r, NEW p, At(r, p), NEW size, NEW o \in ExtBuf(r, size), Good(o)
    PROVE  /\ WholeRead(o, p) /\ o.v = [bytes |-> BodyAt(p), exttype |-> Elem(p).exttype]
           /\ TagType(Elem(p)) = "ext"
<1>1. PICK e \in ExpectExt(r) : o \in {WithType(q, e.v.exttype) : q \in Buffered({e}, size)}  BY DEF ExtBuf
<1>2. PICK q \in Buffered({e}, size) : o = WithType(q, e.v.exttype)  BY <1>1
<1>3. Good(q)  BY <1>2 DEF WithType, Out, Good
<1>4. KeptAll({e}, r)  BY AtKept, ExpectExtKept DEF KeptAll
<1>10. Good(e) => /\ HeadRead(e, p) /\ e.v = [num |-> Elem(p).n, exttype |-> Elem(p).exttype]
                  /\ TagType(Elem(p)) = "ext"
  BY <1>1, ExpectExtGood, Zenon
<1>5. Good(e) => HeadKnown(e, p) /\ TagType(Elem(p)) = "ext"
  <2>1. Good(e) => e.v.num = Elem(p).n  BY <1>10
  <2>. QED  BY <1>10, <2>1 DEF HeadKnown, Holding
<1>6. Good(e)
  <2>1. q \in IF ~Good(e) THEN {Out(e.rd, [bytes |-> << >>])}
              ELSE IF e.v.num > size THEN {Out(FlagError(e.rd, "too_big"), [bytes |-> << >>])}
              ELSE {Out(b.rd, [bytes |-> IF Good(b) THEN b.v ELSE << >>]) : b \in ReadNative(e.rd, e.v.num)}
    BY DEF Buffered
  <2>2. ~Good(e) => q = Out(e.rd, [bytes |-> << >>])  BY <2>1
  <2>. QED  BY <1>3, <2>2 DEF Good, Out
<1>7. WholeRead(q, p) /\ q.v = [bytes |-> BodyAt(p)]  BY <1>3, <1>4, <1>5, BufferedGood
<1>8. e.v.exttype = Elem(p).exttype /\ TagType(Elem(p)) = "ext"  BY <1>6, <1>10
<1>9. o = Out(q.rd, [bytes |-> q.v.bytes, exttype |-> e.v.exttype])  BY <1>2, <1>3 DEF WithType
<1>. QED  BY <1>7, <1>8, <1>9 DEF Out, WholeRead, Passed

LEMMA ExpectCstrGood ==
    ASSUME NEW r, NEW p, At(r, p), NEW size \in Nat, NEW utf8, NEW o \in ExpectCstr(r, size, utf8), Good(o)
    PROVE  /\ WholeRead(o, p) /\ TagType(Elem(p)) = "str"
           /\ \E b : o.v = [bytes |-> b] /\ SubSeq(b, 1, Elem(p).n) = BodyAt(p)
           /\ Valid(BodyAt(p), utf8, TRUE)
<1>0. Starts(p)  BY DEF At
<1>1. PICK q \in ExpectStr(r) : o \in ReadCstr(q.rd, size, q.v.num, utf8)  BY DEF ExpectCstr
<1>2. Good(q)
  <2>1. Kept(q.rd, r)  BY AtKept, ExpectStrKept DEF KeptAll
  <2>2. Kept(o.rd, q.rd)  BY <1>1, <2>1, ReadCstrKept DEF KeptAll, Kept
  <2>. QED  BY <2>2 DEF Kept, Good
<1>3. HeadRead(q, p) /\ q.v = Num(Elem(p).n) /\ TagType(Elem(p)) = "str"  BY <1>2, ExpectStrGood
<1>4. HeadKnown(q, p)  BY <1>3 DEF HeadKnown, Holding, Num
<1>5. /\ Stands(q.rd, p + Size(p)) /\ q.rd.error = "ok" /\ p + Size(p) <= Len(stream)
      /\ q.v.num = Contents(Elem(p)) /\ Contents(Elem(p)) \in Nat /\ Elem(p).n = Contents(Elem(p))
  BY <1>0, <1>4, HeadStands
<1>6. o \in ReadCstr(q.rd, size, Contents(Elem(p)), utf8)  BY <1>1, <1>5
<1>7. /\ Reads(o, p + Size(p), Contents(Elem(p))) /\ o.v = [bytes |-> o.v.bytes]
      /\ Valid(SubSeq(stream, p + Size(p) + 1, p + Size(p) + Contents(Elem(p))), utf8, TRUE)
  BY <1>5, <1>6, ReadCstrReads
<1>10. o.v # Null  BY <1>7 DEF Null
<1>8. p + Size(p) + Contents(Elem(p)) <= Len(stream)  BY <1>7, <1>10 DEF Reads, Yields
<1>9. Valid(BodyAt(p), utf8, TRUE)  BY <1>7, <1>8 DEF BodyAt
<1>11. SubSeq(o.v.bytes, 1, Elem(p).n) = BodyAt(p)  BY <1>0, <1>5, <1>7, <1>10, BodyRead DEF Reads
<1>. QED  BY <1>3, <1>5, <1>7, <1>9, <1>11 DEF WholeRead, Reads

(* What is allocated for an element whose head was read *)
LEMMA AllocatedGood ==
    ASSUME NEW p, Starts(p), NEW q, HeadKnown(q, p), NEW terminated \in BOOLEAN,
           NEW o \in BytesAlloc(q.rd, q.v.num, terminated), Good(o)
    PROVE  /\ WholeRead(o, p)
           /\ o.v # Null => o.v = [bytes |-> o.v.bytes] /\ SubSeq(o.v.bytes, 1, Elem(p).n) = BodyAt(p)
           /\ terminated => o.v # Null
<1>1. /\ Stands(q.rd, p + Size(p)) /\ q.rd.error = "ok" /\ p + Size(p) <= Len(stream)
      /\ q.v.num = Contents(Elem(p)) /\ Contents(Elem(p)) \in Nat /\ Elem(p).n = Contents(Elem(p))
  BY HeadStands
<1>2. o \in BytesAlloc(q.rd, Contents(Elem(p)), terminated)  BY <1>1
<1>3. /\ Reads(o, p + Size(p), Contents(Elem(p)))
      /\ IF Contents(Elem(p)) = 0 /\ ~terminated THEN o.v = Null ELSE o.v = [bytes |-> o.v.bytes]
  BY <1>1, <1>2, BytesAllocReads
<1>4. terminated => o.v # Null  BY <1>3 DEF Null
<1>5. o.v # Null => SubSeq(o.v.bytes, 1, Elem(p).n) = BodyAt(p)  BY <1>1, <1>3, BodyRead DEF Reads
<1>. QED  BY <1>1, <1>3, <1>4, <1>5 DEF WholeRead, Reads

LEMMA CstrAllocGood ==
    ASSUME NEW r, NEW p, At(r, p), NEW size, NEW utf8, NEW o \in CstrAlloc(r, size, utf8), Good(o), Fair(r)
    PROVE  /\ WholeRead(o, p) /\ TagType(Elem(p)) = "str"
           /\ \E b : o.v = [bytes |-> b] /\ SubSeq(b, 1, Elem(p).n) = BodyAt(p)
           /\ Valid(BodyAt(p), utf8, TRUE)
<1>0. Starts(p) /\ DOMAIN r = Fields  BY AtKept DEF At
<1>. DEFINE heads == AtMost(ExpectStr(r), size - 1, "too_big")
            checked(q, b) == IF b.v # Null /\ ~Valid(SubSeq(b.v.bytes, 1, q.v.num), utf8, TRUE)
                             THEN Refused(b, Null) ELSE b
<1>1. KeptAll(ExpectStr(r), r) /\ KeptAll(heads, r)
  <2>1. KeptAll(ExpectStr(r), r)  BY <1>0, ExpectStrKept
  <2>. QED  BY <2>1, ChecksKept
<1>2. \A q \in heads : Good(q) => q \in ExpectStr(r)  BY <1>1, ChecksGood
<1>3. CstrAlloc(r, size, utf8) =
        IF size < 1 THEN {Out(FlagError(r, "bug"), Null)}
        ELSE UNION {{checked(q, b) : b \in BytesAlloc(q.rd, q.v.num, TRUE)} : q \in heads}
  BY DEF CstrAlloc
<1>. HIDE DEF heads
<1>4. o # Out(FlagError(r, "bug"), Null)  BY <1>0, FlagBad DEF Good, Out
<1>5. o \in UNION {{checked(q, b) : b \in BytesAlloc(q.rd, q.v.num, TRUE)} : q \in heads}  BY <1>3, <1>4
<1>6. PICK q \in heads : o \in {checked(q, b) : b \in BytesAlloc(q.rd, q.v.num, TRUE)}  BY <1>5
<1>7. PICK b \in BytesAlloc(q.rd, q.v.num, TRUE) : o = checked(q, b)  BY <1>6
<1>8. DOMAIN b.rd = Fields
  <2>1. Kept(b.rd, r)  BY <1>1, AllocatedKept
  <2>. QED  BY <2>1 DEF Kept
<1>9. o = b /\ (b.v # Null => Valid(SubSeq(b.v.bytes, 1, q.v.num), utf8, TRUE))  BY <1>7, <1>8, RefusedBad
<1>10. Good(q)
  <2>1. Kept(q.rd, r) /\ Fair(q.rd)  BY <1>1, FairKept DEF KeptAll
  <2>2. Kept(b.rd, q.rd)  BY <2>1, BytesAllocKept DEF KeptAll
  <2>. QED  BY <1>9, <2>2 DEF Kept, Good
<1>11. HeadRead(q, p) /\ q.v = Num(Elem(p).n) /\ TagType(Elem(p)) = "str"
  BY <1>2, <1>10, ExpectStrGood
<1>12. HeadKnown(q, p) /\ q.v.num = Elem(p).n  BY <1>11 DEF HeadKnown, Holding, Num
<1>13. /\ WholeRead(b, p) /\ b.v = [bytes |-> b.v.bytes] /\ SubSeq(b.v.bytes, 1, Elem(p).n) = BodyAt(p) /\ b.v # Null
  BY <1>0, <1>7, <1>9, <1>12, AllocatedGood
<1>. QED  BY <1>9, <1>11, <1>12, <1>13

LEMMA BinAllocGood ==
    ASSUME NEW r, NEW p, At(r, p), NEW max, NEW o \in BinAlloc(r, max), Good(o), Fair(r)
    PROVE  /\ WholeRead(o, p) /\ TagType(Elem(p)) = "bin" /\ ~(Elem(p).n > max)
           /\ o.v # Null => \E b : o.v = [bytes |-> b] /\ SubSeq(b, 1, Elem(p).n) = BodyAt(p)
<1>0. Starts(p) /\ DOMAIN r = Fields  BY AtKept DEF At
<1>. DEFINE heads == AtMost(ExpectCount(r, "bin"), max, "type")
<1>1. KeptAll(ExpectCount(r, "bin"), r) /\ KeptAll(heads, r)
  <2>1. KeptAll(ExpectCount(r, "bin"), r)  BY <1>0, ExpectCountKept
  <2>. QED  BY <2>1, ChecksKept
<1>2. \A q \in heads : Good(q) => q \in ExpectCount(r, "bin") /\ ~(q.v.num > max)  BY <1>1, ChecksGood
<1>3. PICK q \in heads : o \in BytesAlloc(q.rd, q.v.num, FALSE)  BY DEF BinAlloc
<1>4. Good(q)
  <2>1. Kept(q.rd, r) /\ Fair(q.rd)  BY <1>1, FairKept DEF KeptAll
  <2>2. Kept(o.rd, q.rd)  BY <1>3, <2>1, BytesAllocKept DEF KeptAll
  <2>. QED  BY <2>2 DEF Kept, Good
<1>5. HeadRead(q, p) /\ q.v = Num(Elem(p).n) /\ TagType(Elem(p)) = "bin" /\ ~(q.v.num > max)
  BY <1>2, <1>4, ExpectCountGood
<1>6. HeadKnown(q, p) /\ q.v.num = Elem(p).n  BY <1>5 DEF HeadKnown, Holding, Num
<1>. QED  BY <1>0, <1>3, <1>5, <1>6, AllocatedGood

LEMMA ExtAllocGood ==
    ASSUME NEW r, NEW p, At(r, p), NEW max, NEW o \in ExtAlloc(r, max), Good(o), Fair(r)
    PROVE  /\ WholeRead(o, p) /\ TagType(Elem(p)) = "ext" /\ ~(Elem(p).n > max)
           /\ \/ o.v = [exttype |-> 0]
              \/ \E b : o.v = [exttype |-> Elem(p).exttype, bytes |-> b] /\ SubSeq(b, 1, Elem(p).n) = BodyAt(p)
<1>0. Starts(p) /\ DOMAIN r = Fields  BY AtKept DEF At
<1>. DEFINE heads == AtMost(ExpectExt(r), max, "type")
<1>1. KeptAll(ExpectExt(r), r) /\ KeptAll(heads, r)
  <2>1. KeptAll(ExpectExt(r), r)  BY <1>0, ExpectExtKept
  <2>. QED  BY <2>1, ChecksKept
<1>2. \A q \in heads : Good(q) => q \in ExpectExt(r) /\ ~(q.v.num > max)  BY <1>1, ChecksGood
<1>3. PICK e \in heads :
         o \in IF ~Good(e) THEN {Out(e.rd, [exttype |-> e.v.exttype])}
               ELSE {IF a.v = Null THEN Out(a.rd, [exttype |-> 0])
                     ELSE Out(a.rd, [exttype |-> e.v.exttype, bytes |-> a.v.bytes]) :
                     a \in BytesAlloc(e.rd, e.v.num, FALSE)}
  BY DEF ExtAlloc
<1>4. Good(e)
  <2>1. ~Good(e) => o = Out(e.rd, [exttype |-> e.v.exttype])  BY <1>3
  <2>. QED  BY <2>1 DEF Good, Out
<1>5. PICK a \in BytesAlloc(e.rd, e.v.num, FALSE) :
         o = IF a.v = Null THEN Out(a.rd, [exttype |-> 0])
             ELSE Out(a.rd, [exttype |-> e.v.exttype, bytes |-> a.v.bytes])
  BY <1>3, <1>4
<1>6. /\ HeadRead(e, p) /\ e.v = [num |-> Elem(p).n, exttype |-> Elem(p).exttype]
      /\ TagType(Elem(p)) = "ext" /\ ~(e.v.num > max)
  BY <1>2, <1>4, ExpectExtGood
<1>7. HeadKnown(e, p) /\ e.v.num = Elem(p).n /\ e.v.exttype = Elem(p).exttype  BY <1>6 DEF HeadKnown, Holding
<1>8. o.rd = a.rd /\ Good(a)
  <2>1. CASE a.v = Null  BY <1>5, <2>1 DEF Good, Out
  <2>2. CASE a.v # Null  BY <1>5, <2>2 DEF Good, Out
  <2>. QED  BY <2>1, <2>2
<1>9. WholeRead(a, p) /\ (a.v # Null => SubSeq(a.v.bytes, 1, Elem(p).n) = BodyAt(p))
  BY <1>0, <1>5, <1>7, <1>8, AllocatedGood
<1>10. CASE a.v = Null  BY <1>5, <1>6, <1>7, <1>8, <1>9, <1>10 DEF Out, WholeRead, Passed
<1>11. CASE a.v # Null  BY <1>5, <1>6, <1>7, <1>8, <1>9, <1>11 DEF Out, WholeRead, Passed
<1>. QED  BY <1>10, <1>11

LEMMA ExpectTimestampGood ==
    ASSUME NEW r, NEW p, At(r, p), NEW o \in ExpectTimestamp(r), Good(o)
    PROVE  /\ WholeRead(o, p) /\ TagType(Elem(p)) = "ext" /\ Elem(p).exttype = TimestampType
           /\ o.v = [time |-> Split(BodyAt(p))]
<1>0. Starts(p)  BY DEF At
<1>1. PICK q \in ReadTag(r) : o \in IF TagType(q.v) = "ext" /\ q.v.exttype = TimestampType
                                    THEN ReadTimestamp(q.rd, q.v.n) ELSE {Refused(q, [time |-> NoTime])}
  BY DEF ExpectTimestamp
<1>2. /\ TagType(q.v) = "ext" /\ q.v.exttype = TimestampType /\ o \in ReadTimestamp(q.rd, q.v.n)
  <2>1. ~Good(Refused(q, [time |-> NoTime]))  BY AtKept, ReadTagKept, BadOutcomes
  <2>. QED  BY <1>1, <2>1
<1>3. DOMAIN q.rd = Fields  BY AtKept, ReadTagKept DEF KeptAll, Kept
<1>4. Good(q)  BY <1>2, <1>3, ReadTimestampKept DEF KeptAll, Kept, Good
<1>5. HeadRead(q, p) /\ q.v = Elem(p)  BY <1>4, ReadTagElem
<1>6. /\ Contents(Elem(p)) = Elem(p).n /\ Contents(Elem(p)) \in Nat
  BY <1>0, <1>2, <1>5, ElemContents DEF HeadRead, Holding
<1>7. PICK n \in Nat : n = Contents(Elem(p)) /\ n = q.v.n  BY <1>5, <1>6
<1>8. ~Good(Out(FlagError(q.rd, "invalid"), [time |-> NoTime]))  BY <1>3, FlagBad DEF Good, Out
<1>9. PICK s \in ReadNative(q.rd, n) : o = Stamp(s)  BY <1>2, <1>7, <1>8 DEF ReadTimestamp
<1>10. DOMAIN s.rd = Fields  BY <1>3, ReadNativeKept DEF KeptAll, Kept
<1>11. ~Good(Out(FlagError(s.rd, "invalid"), [time |-> NoTime]))  BY <1>10, FlagBad DEF Good, Out
<1>12. ~Good(s) => ~Good(Out(s.rd, [time |-> NoTime]))  BY DEF Good, Out
<1>13. o = Out(s.rd, [time |-> Split(s.v)])
  <2>1. Stamp(s) \in {Out(s.rd, [time |-> NoTime]), Out(FlagError(s.rd, "invalid"), [time |-> NoTime]),
                      Out(s.rd, [time |-> Split(s.v)])}
    BY DEF Stamp
  <2>2. ~Good(s) => Stamp(s) = Out(s.rd, [time |-> NoTime])  BY DEF Stamp
  <2>3. Good(s) => Stamp(s) # Out(s.rd, [time |-> NoTime]) \/ Stamp(s) = Out(s.rd, [time |-> Split(s.v)])
    <3>1. Good(s) => Stamp(s) \in {Out(FlagError(s.rd, "invalid"), [time |-> NoTime]), Out(s.rd, [time |-> Split(s.v)])}
      BY DEF Stamp
    <3>2. Good(s) => Out(FlagError(s.rd, "invalid"), [time |-> NoTime]) # Out(s.rd, [time |-> NoTime])
      BY <1>11 DEF Good, Out
    <3>. QED  BY <3>1, <3>2
  <2>. QED  BY <1>9, <1>11, <1>12, <2>1, <2>2, <2>3
<1>14. Good(s)  BY <1>13 DEF Good, Out
<1>15. Stands(q.rd, p + Size(p)) /\ q.rd.error = "ok" /\ p + Size(p) <= Len(stream)  BY <1>5 DEF HeadRead, Passed
<1>16. Got(s, p + Size(p), n)  BY <1>9, <1>14, <1>15, ReadNativeGot
<1>17. s.v = BodyAt(p)  BY <1>0, <1>7, <1>15, <1>16, BodyRead DEF Got
<1>. QED  BY <1>2, <1>5, <1>7, <1>13, <1>15, <1>16, <1>17 DEF WholeRead, Passed, Got, Out

-----------------------------------------------------------------------------
(* Tags, names and keys *)

LEMMA ExpectTagGood ==
    ASSUME NEW r, NEW p, At(r, p), NEW tag, NEW o \in ExpectTag(r, tag), Good(o)
    PROVE  HeadRead(o, p) /\ o.v = Null /\ TagEqual(tag, Elem(p))
<1>1. PICK q \in ReadTag(r) : o = IF TagEqual(q.v, tag) THEN Out(q.rd, Null) ELSE Refused(q, Null)
  BY DEF ExpectTag
<1>2. TagEqual(q.v, tag) /\ o = Out(q.rd, Null)  BY <1>1, AtKept, ReadTagKept, BadOutcomes
<1>3. HeadRead(q, p) /\ q.v = Elem(p)  BY <1>2, ReadTagElem DEF Good, Out
<1>4. \A a, b : TagEqual(a, b) => TagEqual(b, a)  BY DEF TagEqual, SameType
<1>. QED  BY <1>2, <1>3, <1>4 DEF HeadRead, Passed, Out

LEMMA IndexOfIs ==
    ASSUME NEW bytes
    PROVE  /\ IndexOf(bytes) \in 0 .. Count
           /\ IndexOf(bytes) < Count => Names[IndexOf(bytes) + 1] = bytes
           /\ IndexOf(bytes) = Count => \A i \in 1 .. Count : bytes # Names[i]
           /\ Count \in Nat
<1>1. Count \in Nat  BY NamesAssumption DEF Count
<1>2. CASE \E i \in 1 .. Count : Names[i] = bytes
  <2>1. PICK k : k = CHOOSE i \in 1 .. Count : Names[i] = bytes  OBVIOUS
  <2>2. k \in 1 .. Count /\ Names[k] = bytes  BY <1>2, <2>1
  <2>3. IndexOf(bytes) = k - 1  BY <1>2, <2>1 DEF IndexOf
  <2>4. k - 1 \in 0 .. Count /\ k - 1 < Count /\ k - 1 + 1 = k  BY <1>1, <2>2
  <2>. QED  BY <1>1, <2>2, <2>3, <2>4
<1>3. CASE ~\E i \in 1 .. Count : Names[i] = bytes
  <2>1. IndexOf(bytes) = Count  BY <1>3 DEF IndexOf
  <2>. QED  BY <1>1, <1>3, <2>1
<1>. QED  BY <1>2, <1>3

LEMMA FoundGood ==
    ASSUME NEW r, NEW p, At(r, p), NEW o \in Found(r), Good(o)
    PROVE  WholeRead(o, p) /\ o.v = Num(IndexOf(BodyAt(p))) /\ TagType(Elem(p)) = "str"
<1>0. Starts(p)  BY DEF At
<1>1. PICK s \in ExpectStr(r) :
         o \in {Out(q.rd, Num(IF Good(q) THEN IndexOf(q.v.bytes) ELSE Count)) : q \in BytesInplace(s.rd, s.v.num)}
  BY DEF Found
<1>2. PICK q \in BytesInplace(s.rd, s.v.num) : o = Out(q.rd, Num(IF Good(q) THEN IndexOf(q.v.bytes) ELSE Count))
  BY <1>1
<1>3. Good(q) /\ o.rd = q.rd /\ o.v = Num(IndexOf(q.v.bytes))  BY <1>2 DEF Good, Out
<1>4. Good(s)
  <2>1. DOMAIN s.rd = Fields  BY AtKept, ExpectStrKept DEF KeptAll, Kept
  <2>. QED  BY <1>2, <1>3, <2>1, BytesInplaceKept DEF KeptAll, Kept, Good
<1>5. HeadRead(s, p) /\ s.v = Num(Elem(p).n) /\ TagType(Elem(p)) = "str"  BY <1>4, ExpectStrGood
<1>6. HeadKnown(s, p)  BY <1>5 DEF HeadKnown, Holding, Num
<1>7. /\ Stands(s.rd, p + Size(p)) /\ s.rd.error = "ok" /\ p + Size(p) <= Len(stream)
      /\ s.v.num = Contents(Elem(p)) /\ Contents(Elem(p)) \in Nat
  BY <1>0, <1>6, HeadStands
<1>8. q \in BytesInplace(s.rd, Contents(Elem(p)))  BY <1>2, <1>7
<1>9. /\ Reads(q, p + Size(p), Contents(Elem(p)))
      /\ q.v = [bytes |-> q.v.bytes] /\ Len(q.v.bytes) = Contents(Elem(p))
  BY <1>3, <1>7, <1>8, BytesInplaceReads
<1>10. q.v # Null  BY <1>9 DEF Null
<1>11. q.v.bytes = BodyAt(p)  BY <1>0, <1>7, <1>9, <1>10, BodyRead DEF Reads
<1>. QED  BY <1>3, <1>5, <1>7, <1>9, <1>11 DEF WholeRead, Reads, Passed

LEMMA ExpectEnumGood ==
    ASSUME NEW r, NEW p, At(r, p), NEW o \in ExpectEnum(r), Good(o)
    PROVE  /\ WholeRead(o, p) /\ o.v = Num(IndexOf(BodyAt(p))) /\ TagType(Elem(p)) = "str"
           /\ \E i \in 1 .. Count : BodyAt(p) = Names[i]
<1>1. PICK q \in Found(r) : o = IF q.v.num = Count THEN Refused(q, q.v) ELSE q  BY DEF ExpectEnum
<1>2. q.v.num # Count /\ o = q  BY <1>1, AtKept, FoundKept, BadOutcomes
<1>3. WholeRead(o, p) /\ o.v = Num(IndexOf(BodyAt(p))) /\ TagType(Elem(p)) = "str"  BY <1>2, FoundGood
<1>4. PICK k \in 0 .. Count : k = IndexOf(BodyAt(p)) /\ k # Count  BY <1>2, <1>3, IndexOfIs DEF Num
<1>5. k + 1 \in 1 .. Count /\ Names[k + 1] = BodyAt(p)  BY <1>4, IndexOfIs
<1>. QED  BY <1>3, <1>5

LEMMA IgnoredGood ==
    ASSUME NEW r, NEW p, At(r, p), NEW o \in Ignored(r), Good(o)
    PROVE  WholeRead(o, p) /\ \E k : o.v = [num |-> Count, inside |-> k]
<1>1. PICK q \in DiscardOne(r) : o = Out(q.rd, [num |-> Count, inside |-> q.v])  BY DEF Ignored
<1>2. Good(q)  BY <1>1 DEF Good, Out
<1>3. Passed(q, p + Size(p) + Contents(Elem(p)))
  BY <1>2, DiscardOnePassed DEF At, Starts, Size, Elem
<1>4. p + Size(p) <= Len(stream)
  <2>1. PICK tag \in ReadTag(r) : q \in {Out(s.rd, Inside(tag.v)) : s \in SkipBytes(tag.rd, Contents(tag.v))}
    BY <1>1 DEF DiscardOne
  <2>2. PICK s \in SkipBytes(tag.rd, Contents(tag.v)) : q = Out(s.rd, Inside(tag.v))  BY <2>1
  <2>3. DOMAIN tag.rd = Fields  BY AtKept, ReadTagKept DEF KeptAll, Kept
  <2>4. Kept(s.rd, tag.rd)  BY <2>2, <2>3, SkipBytesKept DEF KeptAll
  <2>5. s.rd.error = "ok"  BY <1>2, <2>2 DEF Good, Out
  <2>6. tag.rd.error = "ok"  BY <2>4, <2>5 DEF Kept
  <2>7. Good(tag)  BY <2>6 DEF Good
  <2>. QED  BY <2>7, ReadTagElem DEF HeadRead
<1>. QED  BY <1>1, <1>3, <1>4 DEF WholeRead, Passed, Out

(* A lookup answers with the place of the name, or with how many there are *)
Looked(o, p) ==
    /\ WholeRead(o, p)
    /\ \E n : /\ o.v.num = n
              /\ \/ TagType(Elem(p)) = "str" /\ n = IndexOf(BodyAt(p)) /\ o.v \in {Num(n), [num |-> n, marked |-> n]}
                 \/ TagType(Elem(p)) # "str" /\ n = Count /\ \E k : o.v = [num |-> n, inside |-> k]

LEMMA PeekAt ==
    ASSUME NEW r, NEW p, At(r, p), NEW q \in PeekTag(r), Good(q)
    PROVE  At(q.rd, p) /\ q.v = Elem(p)
BY PeekTagTagged DEF At, Starts, Tagged, Elem

LEMMA EnumOptionalGood ==
    ASSUME NEW r, NEW p, At(r, p), NEW o \in EnumOptional(r), Good(o)
    PROVE  Looked(o, p)
<1>1. r.error = "ok"  BY DEF At
<1>2. PICK q \in PeekTag(r) : o \in IF TagType(q.v) = "str" THEN Found(q.rd) ELSE Ignored(q.rd)
  BY <1>1 DEF EnumOptional
<1>3. DOMAIN q.rd = Fields  BY AtKept, PeekTagKept DEF KeptAll, Kept
<1>4. Good(q)  BY <1>2, <1>3, FoundKept, IgnoredKept DEF KeptAll, Kept, Good
<1>5. At(q.rd, p) /\ q.v = Elem(p)  BY <1>4, PeekAt
<1>6. CASE TagType(Elem(p)) = "str"
  <2>1. WholeRead(o, p) /\ o.v = Num(IndexOf(BodyAt(p)))  BY <1>2, <1>5, <1>6, FoundGood
  <2>. QED  BY <1>6, <2>1 DEF Looked, Num
<1>7. CASE TagType(Elem(p)) # "str"
  <2>1. WholeRead(o, p) /\ \E k : o.v = [num |-> Count, inside |-> k]  BY <1>2, <1>5, <1>7, IgnoredGood
  <2>2. PICK k : o.v = [num |-> Count, inside |-> k]  BY <2>1
  <2>3. o.v.num = Count  BY <2>2
  <2>. QED  BY <1>7, <2>1, <2>2, <2>3, Zenon DEF Looked
<1>. QED  BY <1>6, <1>7

(* .. and marks nothing; a failure is none of the names *)
LEMMA FoundUnmarked ==
    ASSUME NEW r, NEW o \in Found(r)
    PROVE  "marked" \notin DOMAIN o.v /\ (~Good(o) => o.v.num = Count)
<1>1. PICK s \in ExpectStr(r) :
         o \in {Out(q.rd, Num(IF Good(q) THEN IndexOf(q.v.bytes) ELSE Count)) : q \in BytesInplace(s.rd, s.v.num)}
  BY DEF Found
<1>2. PICK q \in BytesInplace(s.rd, s.v.num) : o = Out(q.rd, Num(IF Good(q) THEN IndexOf(q.v.bytes) ELSE Count))
  BY <1>1
<1>. QED  BY <1>2 DEF Out, Num, Good

LEMMA IgnoredUnmarked ==
    ASSUME NEW r, NEW o \in Ignored(r)
    PROVE  "marked" \notin DOMAIN o.v /\ o.v.num = Count
BY DEF Ignored, Out

LEMMA EnumUnmarked ==
    ASSUME NEW r, NEW o \in EnumOptional(r)
    PROVE  "marked" \notin DOMAIN o.v /\ (~Good(o) => o.v.num = Count)
<1>1. CASE o = Out(r, Num(Count))  BY <1>1 DEF Out, Num
<1>2. ASSUME NEW p \in PeekTag(r), o \in Found(p.rd) \/ o \in Ignored(p.rd)
      PROVE  "marked" \notin DOMAIN o.v /\ (~Good(o) => o.v.num = Count)
  BY <1>2, FoundUnmarked, IgnoredUnmarked
<1>. QED  BY <1>1, <1>2 DEF EnumOptional

LEMMA UniqueGood ==
    ASSUME NEW r, NEW outcomes, KeptAll(outcomes, r), NEW q \in outcomes, NEW count, Good(Unique(q, count))
    PROVE  /\ Good(q) /\ Unique(q, count) = Out(q.rd, [num |-> q.v.num, marked |-> q.v.num])
           /\ q.v.num \notin found
<1>1. ~Good(Out(FlagError(q.rd, "invalid"), Num(count)))  BY BadOutcomes
<1>2. q.v.num \notin found /\ Unique(q, count) = Out(q.rd, [num |-> q.v.num, marked |-> q.v.num])
  BY <1>1 DEF Unique
<1>3. Good(q)  BY <1>2 DEF Good, Out
<1>. QED  BY <1>2, <1>3

(* What a key function answers: none of the keys, or one that is marked now *)
Keys(o) == \/ o.v.num = Count /\ "marked" \notin DOMAIN o.v
           \/ /\ o.v = [num |-> o.v.num, marked |-> o.v.num]
              /\ o.v.num \in (0 .. Count - 1) \ found

LEMMA MarkedKeys ==
    ASSUME NEW r, NEW outcomes, KeptAll(outcomes, r), NEW q \in outcomes, NEW n \in 0 .. Count - 1, q.v.num = n,
           NEW o, o = Unique(q, Count), Good(o)
    PROVE  Good(q) /\ o = Out(q.rd, [num |-> n, marked |-> n]) /\ Keys(o)
<1>1. Good(q) /\ o = Out(q.rd, [num |-> n, marked |-> n]) /\ n \notin found  BY UniqueGood
<1>2. o.v = [num |-> n, marked |-> n] /\ o.v.num = n  BY <1>1 DEF Out
<1>. QED  BY <1>1, <1>2 DEF Keys

LEMMA NoKey == ASSUME NEW o, o.v = Num(Count) \/ \E k : o.v = [num |-> Count, inside |-> k]  PROVE Keys(o)
<1>1. CASE o.v = [num |-> Count]
  <2>1. o.v.num = Count /\ DOMAIN o.v = {"num"}  BY <1>1
  <2>. QED  BY <2>1 DEF Keys
<1>2. CASE \E k : o.v = [num |-> Count, inside |-> k]
  <2>1. o.v.num = Count /\ DOMAIN o.v = {"num", "inside"}  BY <1>2
  <2>. QED  BY <2>1 DEF Keys
<1>. QED  BY <1>1, <1>2 DEF Num

LEMMA KeyCstrGood ==
    ASSUME NEW r, NEW p, At(r, p), NEW o \in KeyCstr(r), Good(o)
    PROVE  Looked(o, p) /\ Keys(o)
<1>1. PICK q \in EnumOptional(r) : o = IF q.v.num = Count THEN q ELSE Unique(q, Count)  BY DEF KeyCstr
<1>2. KeptAll(EnumOptional(r), r)  BY AtKept, EnumOptionalKept
<1>3. Good(q)  BY <1>1, <1>2, UniqueGood
<1>4. Looked(q, p)  BY <1>3, EnumOptionalGood
<1>5. PICK n : /\ q.v.num = n
               /\ \/ TagType(Elem(p)) = "str" /\ n = IndexOf(BodyAt(p)) /\ q.v \in {Num(n), [num |-> n, marked |-> n]}
                  \/ TagType(Elem(p)) # "str" /\ n = Count /\ \E k : q.v = [num |-> n, inside |-> k]
  BY <1>4 DEF Looked
<1>6. CASE n = Count
  <2>1. o = q  BY <1>1, <1>5, <1>6
  <2>2. "marked" \notin DOMAIN q.v  BY <1>1, EnumUnmarked
  <2>. QED  BY <1>4, <1>5, <1>6, <2>1, <2>2 DEF Keys
<1>7. CASE n # Count
  <2>1. n \in 0 .. Count - 1 /\ TagType(Elem(p)) = "str" /\ n = IndexOf(BodyAt(p))  BY <1>5, <1>7, IndexOfIs
  <2>2. o = Unique(q, Count)  BY <1>1, <1>5, <1>7
  <2>3. o = Out(q.rd, [num |-> n, marked |-> n]) /\ Keys(o)  BY <1>2, <1>5, <2>1, <2>2, MarkedKeys
  <2>4. WholeRead(o, p)  BY <1>4, <2>3 DEF Looked, WholeRead, Passed, Out
  <2>5. o.v = [num |-> n, marked |-> n] /\ o.v.num = n  BY <2>3 DEF Out
  <2>. QED  BY <2>1, <2>3, <2>4, <2>5 DEF Looked
<1>. QED  BY <1>6, <1>7

LEMMA KeyUintGood ==
    ASSUME NEW r, NEW p, At(r, p), NEW count \in {0, Count}, NEW o \in KeyUint(r, count), Good(o)
    PROVE  LET num == IF TagType(Elem(p)) = "uint" /\ Elem(p).n < Count THEN Elem(p).n ELSE Count
           IN  /\ WholeRead(o, p) /\ Keys(o)
               /\ \/ o.v \in {Num(num), [num |-> num, marked |-> num]}
                  \/ \E k : o.v = [num |-> num, inside |-> k]
<1>0. Starts(p) /\ r.error = "ok" /\ Count \in Nat  BY IndexOfIs DEF At
<1>1. count # 0 /\ count = Count
  <2>1. ~Good(Out(FlagError(r, "bug"), Num(count)))  BY AtKept, FlagBad DEF Good, Out
  <2>. QED  BY <1>0, <2>1 DEF KeyUint
<1>2. PICK q \in PeekTag(r) :
         o \in IF TagType(q.v) # "uint" THEN Ignored(q.rd)
               ELSE {IF ~Good(s) \/ s.v.num >= count THEN Out(s.rd, Num(count)) ELSE Unique(s, count) :
                     s \in ExpectInteger(q.rd, "u64")}
  BY <1>0, <1>1 DEF KeyUint
<1>3. DOMAIN q.rd = Fields  BY AtKept, PeekTagKept DEF KeptAll, Kept
<1>4. CASE TagType(q.v) # "uint"
  <2>1. o \in Ignored(q.rd)  BY <1>2, <1>4
  <2>2. Good(q)  BY <1>3, <2>1, IgnoredKept DEF KeptAll, Kept, Good
  <2>3. At(q.rd, p) /\ q.v = Elem(p)  BY <2>2, PeekAt
  <2>4. WholeRead(o, p) /\ \E k : o.v = [num |-> Count, inside |-> k]  BY <2>1, <2>3, IgnoredGood
  <2>5. Keys(o)  BY <2>4, NoKey
  <2>. QED  BY <1>4, <2>3, <2>4, <2>5
<1>5. CASE TagType(q.v) = "uint"
  <2>1. o \in {IF ~Good(s) \/ s.v.num >= count THEN Out(s.rd, Num(count)) ELSE Unique(s, count) :
               s \in ExpectInteger(q.rd, "u64")}
    BY <1>2, <1>5
  <2>2. PICK s \in ExpectInteger(q.rd, "u64") :
           o = IF ~Good(s) \/ s.v.num >= count THEN Out(s.rd, Num(count)) ELSE Unique(s, count)
    BY <2>1
  <2>3. KeptAll(ExpectInteger(q.rd, "u64"), q.rd)  BY <1>3, ExpectIntegerKept
  <2>4. Good(s)
    <3>1. ~Good(s) => o = Out(s.rd, Num(count))  BY <2>2
    <3>. QED  BY <3>1 DEF Good, Out
  <2>5. Good(q)  BY <1>3, <2>3, <2>4 DEF KeptAll, Kept, Good
  <2>6. At(q.rd, p) /\ q.v = Elem(p)  BY <2>5, PeekAt
  <2>7. HeadRead(s, p) /\ s.v = Num(Elem(p).n) /\ Fits("u64", Elem(p).n)  BY <2>4, <2>6, ExpectIntegerGood
  <2>8. Contents(Elem(p)) = 0 /\ p + Size(p) \in Nat /\ Elem(p).n \in Int /\ Lowest["u64"] = 0
    BY <1>0, <1>5, <2>6, <2>7, ElemContents, ElemNumber DEF HeadRead, Holding, Lowest
  <2>9. WholeRead(s, p)  BY <2>7, <2>8 DEF WholeRead, HeadRead
  <2>10. s.v.num = Elem(p).n /\ 0 <= Elem(p).n  BY <2>7, <2>8 DEF Num, Fits
  <2>11. CASE Elem(p).n < Count
    <3>. DEFINE n == Elem(p).n
    <3>1. o = Unique(s, Count)  BY <1>0, <1>1, <2>2, <2>4, <2>8, <2>10, <2>11
    <3>2. n \in 0 .. Count - 1 /\ s.v.num = n  BY <1>0, <2>8, <2>10, <2>11
    <3>. HIDE DEF n
    <3>3. o = Out(s.rd, [num |-> n, marked |-> n]) /\ Keys(o)  BY <2>3, <3>1, <3>2, MarkedKeys
    <3>4. WholeRead(o, p) /\ o.v = [num |-> n, marked |-> n]  BY <2>9, <3>3 DEF WholeRead, Passed, Out
    <3>. QED  BY <1>5, <2>6, <2>11, <3>3, <3>4 DEF n
  <2>12. CASE ~(Elem(p).n < Count)
    <3>1. o = Out(s.rd, Num(Count))  BY <1>0, <1>1, <2>2, <2>4, <2>8, <2>10, <2>12
    <3>2. WholeRead(o, p) /\ o.v = Num(Count)  BY <2>9, <3>1 DEF WholeRead, Passed, Out
    <3>3. Keys(o)  BY <3>2, NoKey
    <3>. QED  BY <2>12, <3>2, <3>3
  <2>. QED  BY <2>11, <2>12
<1>. QED  BY <1>4, <1>5

(* One byte of a name *)
LEMMA MatchOneGood ==
    ASSUME NEW r, NEW p, Stands(r, p), r.error = "ok", Elements(stream), p < Len(stream) => stream[p + 1].t = "byte",
           NEW byte \in [t : {"byte"}, n : 0 .. Base - 1], NEW o \in MatchOne(r, byte), Good(o)
    PROVE  Passed(o, p + 1) /\ p + 1 <= Len(stream) /\ stream[p + 1] = byte /\ o.v = Null
<1>0. p \in Nat /\ DOMAIN r = Fields /\ stream \in Seq(Cell)  BY DEF Stands
<1>1. PICK q \in Native(r, 1) : o = IF q.v = byte.n THEN Out(q.rd, Null) ELSE Refused(q, Null)  BY DEF MatchOne
<1>2. q.v = byte.n /\ o = Out(q.rd, Null)  BY <1>0, <1>1, NativeKept, BadOutcomes
<1>3. Passed(q, p + 1) /\ p + 1 <= Len(stream) /\ q.v = Number(SubSeq(stream, p + 1, p + 1))
  BY <1>2, NativeGood DEF Good, Out
<1>4. PICK m : m = SubSeq(stream, p + 1, p + 1)  OBVIOUS
<1>5. Len(m) = 1 /\ m[1] = stream[p + 1]
  <2>1. /\ Len(SubSeq(stream, p + 1, p + 1)) = 1 /\ \A i \in 1 .. 1 : SubSeq(stream, p + 1, p + 1)[i] = stream[p + i]
    <3>1. \A n \in Nat : p + n <= Len(stream) =>
             /\ Len(SubSeq(stream, p + 1, p + n)) = n
             /\ \A i \in 1 .. n : SubSeq(stream, p + 1, p + n)[i] = stream[p + i]
      BY <1>0, Part
    <3>. QED  BY <1>3, <3>1
  <2>2. Len(m) = 1 /\ \A i \in 1 .. 1 : m[i] = stream[p + i]  BY <1>4, <2>1
  <2>3. 1 \in 1 .. 1  OBVIOUS
  <2>. QED  BY <2>2, <2>3
<1>6. q.v = stream[p + 1].n % Base
  <2>1. Number(m) = Digit(m[1])  BY <1>5 DEF Number
  <2>. QED  BY <1>3, <1>4, <1>5, <2>1 DEF Digit
<1>7. p + 1 \in 1 .. Len(stream) /\ p < Len(stream)  BY <1>0, <1>3
<1>8. stream[p + 1].t = "byte" /\ stream[p + 1].n \in 0 .. Base - 1 /\ stream[p + 1] \in StreamCell
  BY <1>7, StreamCells
<1>9. \A n \in 0 .. Base - 1 : n % Base = n  BY BaseFacts
<1>10. stream[p + 1].n = byte.n  BY <1>2, <1>6, <1>8, <1>9
<1>11. stream[p + 1] = byte
  <2>1. stream[p + 1] = [t |-> stream[p + 1].t, n |-> stream[p + 1].n]  BY <1>8 DEF StreamCell
  <2>2. byte = [t |-> "byte", n |-> byte.n]  OBVIOUS
  <2>. QED  BY <1>8, <1>10, <2>1, <2>2
<1>. QED  BY <1>2, <1>3, <1>11 DEF Passed, Out

-----------------------------------------------------------------------------
(* The inductive invariant: what the last call was made for stays known     *)
(* while the program reads what is left of it                              *)

Answered ==
    rd.error = "ok" /\ Expects(asked) =>
        /\ Starts(asked.from) /\ asked.from + Size(asked.from) <= Len(stream)
        /\ Wants(asked, Elem(asked.from), BodyAt(asked.from), left)
        /\ Answers(asked, Elem(asked.from), BodyAt(asked.from), result)
        /\ asked.f \in Opening => pos = asked.from + Size(asked.from)
        /\ pos + left = asked.from + Size(asked.from) + Contents(Elem(asked.from))
        /\ left <= Contents(Elem(asked.from))
        /\ asked.f = "str_match" => asked.low \in 1 .. Count

EInv == Fair(rd) /\ Ordered /\ Answered /\ (asked.f = "str_match" => Expects(asked))

LEMMA AnsweredExpected == Answered => ExpectedOrFlagged
<1>. SUFFICES ASSUME Answered, rd.error = "ok", Expects(asked)  PROVE ExpectedOrFlagged
  BY DEF ExpectedOrFlagged
<1>1. Element(asked) = Elem(asked.from)  BY DEF Element, Elem
<1>2. TagSize(Elem(asked.from).tag) = Size(asked.from)  BY DEF Elem, Size, ParseTag
<1>3. Body(asked) = BodyAt(asked.from)  BY <1>1, <1>2 DEF Body, BodyAt
<1>. QED  BY <1>1, <1>2, <1>3 DEF Answered, ExpectedOrFlagged

ReaderCalls == {"read_bytes", "read_cstr", "remaining", "read_tag"}

(* A call of an expectation that has read d bytes behind the head and leaves l *)
Met(call, o, d, l) ==
    /\ pos + Size(pos) <= Len(stream) /\ Passed(o, pos + Size(pos) + d)
    /\ d \in Nat /\ l \in Nat /\ d + l = Contents(Elem(pos)) /\ (call.f \in Opening => d = 0)
    /\ Wants(call, Elem(pos), BodyAt(pos), l) /\ Answers(call, Elem(pos), BodyAt(pos), o.v)

LEMMA ExpectsAt ==
    ASSUME Ordered, AtElement, rd.error = "ok"
    PROVE  At(rd, pos)
<1>1. left = 0 /\ pos < Len(stream)  BY DEF AtElement
<1>2. Elements(stream) /\ stream[pos + 1].t \in DOMAIN Width /\ pos \in Nat  BY <1>1, AtTag
<1>3. Stands(rd, pos)  BY DEF Ordered
<1>. QED  BY <1>1, <1>2, <1>3 DEF At, Starts

LEMMA AskAnswered ==
    ASSUME EInv, NEW call, NEW outcomes, Ask(call, outcomes), Expects(call), call.from = pos,
           call.f \notin ReaderCalls, call.f = "str_match" => call.low \in 1 .. Count,
           KeptAll(outcomes, rd), NEW d, NEW l,
           rd'.error = "ok" => left' = l,
           \A o \in outcomes : Good(o) /\ At(rd, pos) => Met(call, o, d, l)
    PROVE  EInv'
<1>1. PICK o \in outcomes : rd' = o.rd /\ result' = o.v /\ pos' = IF Good(o) THEN o.rd.drawn - InBuffer(o.rd) ELSE pos
  BY DEF Ask
<1>2. stream' = stream /\ asked' = call  BY DEF Ask
<1>3. Fair(rd)'  BY AskFair DEF EInv, Fair
<1>4. (asked.f = "str_match" => Expects(asked))'  BY <1>2 DEF Expects
<1>5. stream' \in Streams  BY <1>2 DEF EInv, Ordered
<1>6. CASE ~Good(o)
  <2>1. rd'.error # "ok"  BY <1>1, <1>6 DEF Good
  <2>. QED  BY <1>3, <1>4, <1>5, <2>1 DEF EInv, Ordered, Answered
<1>7. CASE Good(o)
  <2>1. rd.error = "ok"  BY <1>7 DEF KeptAll, Kept, Good
  <2>2. At(rd, pos)  BY <2>1, ExpectsAt DEF EInv, Ask
  <2>3. Met(call, o, d, l)  BY <1>7, <2>2
  <2>4. Starts(pos)  BY <2>2 DEF At
  <2>. DEFINE q == pos + Size(pos) + d
  <2>5. Stands(o.rd, q) /\ o.rd.error = "ok"  BY <2>3 DEF Met, Passed
  <2>6. o.rd.drawn - InBuffer(o.rd) = q /\ q \in Nat
    <3>. HIDE DEF q
    <3>1. PICK a \in Nat, b \in Nat, c \in Nat : a = o.rd.data /\ b = o.rd.end /\ c = o.rd.drawn  BY <2>5 DEF Stands
    <3>2. q \in Nat /\ q + (b - a) = c  BY <2>5, <3>1 DEF Stands
    <3>3. o.rd.drawn - InBuffer(o.rd) = c - (b - a)  BY <3>1 DEF InBuffer
    <3>. QED  BY <3>1, <3>2, <3>3
  <2>7. pos' = q /\ left' = l  BY <1>1, <1>7, <2>6 DEF Good
  <2>8. /\ pos + Size(pos) <= Len(stream) /\ d \in Nat /\ l \in Nat /\ d + l = Contents(Elem(pos))
        /\ call.f \in Opening => d = 0
    BY <2>3 DEF Met
  <2>9. pos + Size(pos) \in Nat /\ Begins(stream, pos + Size(pos) + Contents(Elem(pos)))
    BY <2>4, <2>8, ElemContents
  <2>10. q + l = pos + Size(pos) + Contents(Elem(pos))  BY <2>8, <2>9
  <2>11. call.f \in Opening => q = pos + Size(pos)  BY <2>8, <2>9
  <2>. HIDE DEF q
  <2>12. Ordered'
    <3>1. Stands(rd, pos)'  BY <1>1, <1>2, <2>5, <2>7 DEF Stands
    <3>2. left' \in Nat /\ Begins(stream, pos + left)'  BY <1>2, <2>7, <2>8, <2>9, <2>10 DEF Begins
    <3>3. Says(asked.f, asked.num, result, asked.from)'  BY <1>2 DEF Says, ReaderCalls
    <3>. QED  BY <1>5, <3>1, <3>2, <3>3 DEF Ordered
  <2>13. Answered'
    <3>1. asked'.from = pos  BY <1>2
    <3>2. Starts(asked.from)' /\ (asked.from + Size(asked.from) <= Len(stream))'
      BY <1>2, <2>4, <2>8, <3>1 DEF Starts, Size
    <3>3. Elem(asked.from)' = Elem(pos)  BY <1>2, <3>1 DEF Elem
    <3>4. Size(asked.from)' = Size(pos)  BY <1>2, <3>1 DEF Size
    <3>5. BodyAt(asked.from)' = BodyAt(pos)  BY <1>2, <3>1, <3>3, <3>4 DEF BodyAt
    <3>6. Wants(asked, Elem(asked.from), BodyAt(asked.from), left)'
      BY <1>2, <2>3, <2>7, <3>3, <3>5 DEF Met
    <3>7. Answers(asked, Elem(asked.from), BodyAt(asked.from), result)'
      BY <1>1, <1>2, <2>3, <3>3, <3>5 DEF Met
    <3>8. l <= Contents(Elem(pos))  BY <2>8
    <3>. QED  BY <1>2, <2>7, <2>10, <2>11, <3>1, <3>2, <3>3, <3>4, <3>6, <3>7, <3>8 DEF Answered
  <2>. QED  BY <1>3, <1>4, <2>12, <2>13 DEF EInv
<1>. QED  BY <1>6, <1>7

(* A call that reads all of its element, and one that reads its head *)
WholeMeets(call, outcomes) ==
    \A o \in outcomes : Good(o) /\ At(rd, pos) =>
        /\ WholeRead(o, pos) /\ Wants(call, Elem(pos), BodyAt(pos), 0)
        /\ Answers(call, Elem(pos), BodyAt(pos), o.v)
HeadMeets(call, outcomes) ==
    \A o \in outcomes : Good(o) /\ At(rd, pos) =>
        /\ HeadRead(o, pos) /\ Wants(call, Elem(pos), BodyAt(pos), Contents(Elem(pos)))
        /\ Answers(call, Elem(pos), BodyAt(pos), o.v)

LEMMA WholeAnswered ==
    ASSUME EInv, NEW f, NEW low, NEW high, NEW outcomes,
           Whole(Call(f, low, high), outcomes) \/ Keyed(Call(f, low, high), outcomes),
           f \notin ReaderCalls, f \notin Opening, f # "str_match",
           KeptAll(outcomes, rd), WholeMeets(Call(f, low, high), outcomes)
    PROVE  EInv'
<1>. DEFINE call == Call(f, low, high)
<1>1. Expects(call) /\ call.from = pos /\ call.f = f  BY DEF Expects, Call
<1>2. Ask(call, outcomes) /\ left' = 0  BY DEF Whole, Keyed, Ask, AtElement
<1>3. ASSUME NEW o \in outcomes, Good(o), At(rd, pos)  PROVE Met(call, o, Contents(Elem(pos)), 0)
  <2>. HIDE DEF call
  <2>1. /\ WholeRead(o, pos) /\ Wants(call, Elem(pos), BodyAt(pos), 0)
        /\ Answers(call, Elem(pos), BodyAt(pos), o.v)
    BY <1>3 DEF WholeMeets, call
  <2>2. pos + Size(pos) <= Len(stream) /\ Starts(pos)  BY <1>3, <2>1 DEF WholeRead, At
  <2>3. Contents(Elem(pos)) \in Nat  BY <2>2, ElemContents
  <2>. QED  BY <1>1, <2>1, <2>3 DEF Met, WholeRead
<1>. HIDE DEF call
<1>. QED  BY <1>1, <1>2, <1>3, AskAnswered

LEMMA OpenAnswered ==
    ASSUME EInv, NEW f, NEW low, NEW high, NEW outcomes, Open(Call(f, low, high), outcomes),
           f \notin ReaderCalls, f = "str_match" => low \in 1 .. Count,
           KeptAll(outcomes, rd), HeadMeets(Call(f, low, high), outcomes)
    PROVE  EInv'
<1>. DEFINE call == Call(f, low, high)
<1>1. Expects(call) /\ call.from = pos /\ call.f = f /\ call.low = low  BY DEF Expects, Call
<1>2. Ask(call, outcomes) /\ (rd'.error = "ok" => left' = Contents(Elem(pos)))  BY DEF Open, Elem
<1>3. ASSUME NEW o \in outcomes, Good(o), At(rd, pos)  PROVE Met(call, o, 0, Contents(Elem(pos)))
  <2>. HIDE DEF call
  <2>1. /\ HeadRead(o, pos) /\ Wants(call, Elem(pos), BodyAt(pos), Contents(Elem(pos)))
        /\ Answers(call, Elem(pos), BodyAt(pos), o.v)
    BY <1>3 DEF HeadMeets, call
  <2>2. pos + Size(pos) <= Len(stream) /\ Starts(pos)  BY <1>3, <2>1 DEF HeadRead, At
  <2>3. Contents(Elem(pos)) \in Nat /\ pos + Size(pos) \in Nat  BY <2>2, ElemContents
  <2>4. pos + Size(pos) + 0 = pos + Size(pos) /\ 0 + Contents(Elem(pos)) = Contents(Elem(pos))  BY <2>3
  <2>. QED  BY <2>1, <2>3, <2>4 DEF Met, HeadRead
<1>. HIDE DEF call
<1>. QED  BY <1>1, <1>2, <1>3, AskAnswered

LEMMA NothingHeld ==
    ASSUME NEW p, Starts(p), NEW o, HeadRead(o, p), TagType(Elem(p)) \notin Holding
    PROVE  WholeRead(o, p)
<1>1. Contents(Elem(p)) = 0 /\ p + Size(p) \in Nat  BY ElemContents DEF HeadRead
<1>2. p + Size(p) + 0 = p + Size(p)  BY <1>1
<1>. QED  BY <1>1, <1>2 DEF HeadRead, WholeRead

-----------------------------------------------------------------------------
(* Numbers of 64 bits, and the floating point ones nearest to them          *)

LEMMA PowersGrow ==
    \E d \in Nat : d = Power(8) /\ Base <= d /\ \A w \in {1, 2, 4, 8} : Power(w) <= d
<1>1. \A x \in Nat : x * x \in Nat /\ (x >= 1 => x <= x * x /\ x * x >= 1)
  <2>. SUFFICES ASSUME NEW x \in Nat  PROVE x * x \in Nat /\ (x >= 1 => x <= x * x /\ x * x >= 1)  OBVIOUS
  <2>1. x * x \in Nat
    <3>1. \A u, v \in Nat : u * v \in Nat  OBVIOUS
    <3>. QED  BY <3>1
  <2>2. ASSUME x >= 1  PROVE x <= x * x
    <3>1. x - 1 \in Nat  BY <2>2
    <3>2. (x - 1) * x \in Nat
      <4>1. \A u, v \in Nat : u * v \in Nat  OBVIOUS
      <4>. QED  BY <3>1, <4>1
    <3>3. (x - 1) * x = x * x - x  OBVIOUS
    <3>. QED  BY <3>2, <3>3
  <2>. QED  BY <2>1, <2>2
<1>2. PICK a \in Nat : a = Base /\ a >= 1 /\ a = Power(1)  BY Powers
<1>3. PICK b \in Nat : b = a * a /\ b = Power(2) /\ a <= b /\ b >= 1  BY <1>1, <1>2, Powers
<1>4. PICK c \in Nat : c = b * b /\ c = Power(4) /\ b <= c /\ c >= 1  BY <1>1, <1>3, Powers
<1>5. PICK d \in Nat : d = c * c /\ d = Power(8) /\ c <= d  BY <1>1, <1>4, Powers
<1>6. a <= d /\ b <= d  BY <1>3, <1>4, <1>5
<1>. QED  BY <1>2, <1>3, <1>4, <1>5, <1>6

(* Every unsigned number is within the largest type *)
LEMMA UintFits ==
    ASSUME NEW p, Starts(p), p + Size(p) <= Len(stream), TagType(Elem(p)) = "uint"
    PROVE  IsInteger(Elem(p)) /\ Fits("u64", Elem(p).n)
<1>. DEFINE first == stream[p + 1]
            width == Width[first.t]
            digits == SubSeq(stream, p + 1 + 1, p + 1 + width)
<1>1. /\ p \in Nat /\ p < Len(stream) /\ first.t \in DOMAIN Width /\ stream \in Seq(Cell)
      /\ first.n \in -Base .. Base - 1
  BY StreamCells DEF Starts
<1>2. width \in {0, 1, 2, 4, 8} /\ p + 1 + width <= Len(stream)
  BY <1>1, Widths, TagSizes DEF Size
<1>3. digits \in Seq(Cell) /\ Len(digits) = width
  <2>1. width \in Nat /\ p + 1 \in Nat  BY <1>1, <1>2
  <2>2. PICK q \in Nat : q = p + 1  BY <2>1
  <2>3. q + width <= Len(stream) /\ stream \in Seq(Cell)  BY <1>1, <1>2, <2>2
  <2>4. SubSeq(stream, q + 1, q + width) \in Seq(Cell) /\ Len(SubSeq(stream, q + 1, q + width)) = width
    BY <2>1, <2>2, <2>3, Part
  <2>. QED  BY <2>2, <2>4
<1>4. Elem(p).n = TagNumber(first, digits)  BY DEF Elem, ParseTag
<1>5. TypeOf(first) = "uint"  BY ElemKind
<1>6. (first.t = "fixint" /\ first.n >= 0) \/ first.t \in Unsigned  BY <1>1, <1>5 DEF TypeOf, ExtTags, Width
<1>7. PICK d \in Nat : d = Power(8) /\ Base <= d /\ \A w \in {1, 2, 4, 8} : Power(w) <= d  BY PowersGrow
<1>. HIDE DEF digits, width
<1>8. Elem(p).n \in Nat /\ Elem(p).n < d
  <2>1. CASE first.t = "fixint" /\ first.n >= 0
    <3>1. width = 0  BY <2>1 DEF width, Width
    <3>2. Elem(p).n = first.n  BY <1>4, <2>1, <3>1 DEF TagNumber, FixedSize, width
    <3>. HIDE DEF first
    <3>. QED  BY <1>1, <1>7, <2>1, <3>2, BaseFacts
  <2>2. CASE first.t \in Unsigned
    <3>1. width \in {1, 2, 4, 8}  BY <2>2 DEF width, Width, Unsigned
    <3>2. PICK k \in Nat : k = Number(digits) /\ k < Power(width)  BY <1>3, <3>1, NumberWithin
    <3>3. Elem(p).n = k  BY <1>4, <2>2, <3>1, <3>2 DEF TagNumber, FixedSize, Unsigned, TwosComplement, width
    <3>4. PICK z \in Nat : z = Power(width) /\ z <= d  BY <1>7, <3>1, Powers
    <3>5. k < d  BY <3>2, <3>4
    <3>. QED  BY <3>3, <3>5
  <2>. QED  BY <1>6, <2>1, <2>2
<1>9. Lowest["u64"] = 0 /\ Highest["u64"] = d - 1  BY <1>7 DEF Lowest, Highest
<1>10. 0 <= Elem(p).n /\ Elem(p).n <= d - 1  BY <1>7, <1>8
<1>. QED  BY <1>9, <1>10 DEF Fits, IsInteger

LEMMA Halves == \A w \in {1, 2, 4, 8} : \E h \in Nat : Power(w) = 2 * h /\ Power(w) \div 2 = h
<1>1. ASSUME NEW a \in Nat, NEW h \in Nat, a = 2 * h  PROVE \E m \in Nat : a * a = 2 * m
  <2>1. h * a \in Nat
    <3>1. \A u, v \in Nat : u * v \in Nat  OBVIOUS
    <3>. QED  BY <3>1
  <2>2. (2 * h) * a = 2 * (h * a)  OBVIOUS
  <2>3. a * a = 2 * (h * a)  BY <1>1, <2>2
  <2>. QED  BY <2>1, <2>3
<1>2. PICK g \in Nat : Base = 2 * g
  <2>1. Base \in Nat /\ Base % 8 = 0  BY BaseAssumption
  <2>2. Base = 2 * (Base \div 2) /\ Base \div 2 \in Nat  BY <2>1
  <2>. QED  BY <2>2
<1>3. PICK p1 \in Nat, p2 \in Nat, p4 \in Nat :
         /\ p1 = Power(1) /\ p2 = Power(2) /\ p4 = Power(4)
         /\ p1 = Base /\ p2 = p1 * p1 /\ p4 = p2 * p2 /\ Power(8) = p4 * p4
  BY Powers
<1>4. p1 = 2 * g  BY <1>2, <1>3
<1>5. PICK g2 \in Nat : p2 = 2 * g2  BY <1>1, <1>3, <1>4
<1>6. PICK g4 \in Nat : p4 = 2 * g4  BY <1>1, <1>3, <1>5
<1>7. PICK g8 \in Nat : Power(8) = 2 * g8  BY <1>1, <1>3, <1>6
<1>8. \A h \in Nat : (2 * h) \div 2 = h  OBVIOUS
<1>. QED  BY <1>3, <1>4, <1>5, <1>6, <1>7, <1>8

(* Every signed number is within the largest signed type *)
LEMMA IntFits ==
    ASSUME NEW p, Starts(p), p + Size(p) <= Len(stream), TagType(Elem(p)) = "int"
    PROVE  IsInteger(Elem(p)) /\ Fits("i64", Elem(p).n)
<1>. DEFINE first == stream[p + 1]
            width == Width[first.t]
            digits == SubSeq(stream, p + 1 + 1, p + 1 + width)
<1>1. /\ p \in Nat /\ p < Len(stream) /\ first.t \in DOMAIN Width /\ stream \in Seq(Cell)
      /\ first.n \in -Base .. Base - 1
  BY StreamCells DEF Starts
<1>2. width \in {0, 1, 2, 4, 8} /\ p + 1 + width <= Len(stream)
  BY <1>1, Widths, TagSizes DEF Size
<1>3. digits \in Seq(Cell) /\ Len(digits) = width
  <2>1. width \in Nat /\ p + 1 \in Nat  BY <1>1, <1>2
  <2>2. PICK q \in Nat : q = p + 1  BY <2>1
  <2>3. q + width <= Len(stream) /\ stream \in Seq(Cell)  BY <1>1, <1>2, <2>2
  <2>4. SubSeq(stream, q + 1, q + width) \in Seq(Cell) /\ Len(SubSeq(stream, q + 1, q + width)) = width
    BY <2>1, <2>2, <2>3, Part
  <2>. QED  BY <2>2, <2>4
<1>4. Elem(p).n = TagNumber(first, digits)  BY DEF Elem, ParseTag
<1>5. TypeOf(first) = "int"  BY ElemKind
<1>6. (first.t = "fixint" /\ first.n < 0) \/ first.t \in TwosComplement
  BY <1>1, <1>5 DEF TypeOf, ExtTags, Width
<1>7. PICK d \in Nat : d = Power(8) /\ Base <= d /\ \A w \in {1, 2, 4, 8} : Power(w) <= d  BY PowersGrow
<1>8. PICK h \in Nat : d = 2 * h /\ d \div 2 = h  BY <1>7, Halves
<1>. HIDE DEF digits, width
<1>9. Elem(p).n \in Int /\ -h <= Elem(p).n /\ Elem(p).n <= h - 1
  <2>1. CASE first.t = "fixint" /\ first.n < 0
    <3>1. width = 0  BY <2>1 DEF width, Width
    <3>2. Elem(p).n = first.n  BY <1>4, <2>1, <3>1 DEF TagNumber, FixedSize, width
    <3>3. Base <= h
      <4>1. PICK b \in Nat : b = Base /\ b >= 8 /\ b * b = Power(2)  BY BaseFacts, Powers
      <4>2. PICK s \in Nat : s = Power(2) /\ s <= d  BY <1>7, Powers
      <4>3. 2 * b <= b * b
        <5>1. b - 2 \in Nat  BY <4>1
        <5>2. \A u, v \in Nat : u * v \in Nat  OBVIOUS
        <5>3. (b - 2) * b \in Nat  BY <5>1, <5>2
        <5>4. (b - 2) * b = b * b - 2 * b  OBVIOUS
        <5>. QED  BY <5>3, <5>4
      <4>4. 2 * b <= s  BY <4>1, <4>2, <4>3
      <4>5. 2 * b <= 2 * h  BY <1>8, <4>2, <4>4
      <4>. QED  BY <4>1, <4>5
    <3>. HIDE DEF first
    <3>. QED  BY <1>1, <2>1, <3>2, <3>3, BaseFacts
  <2>2. CASE first.t \in TwosComplement
    <3>1. width \in {1, 2, 4, 8}  BY <2>2 DEF width, Width, TwosComplement
    <3>2. PICK k \in Nat : k = Number(digits) /\ k < Power(width)  BY <1>3, <3>1, NumberWithin
    <3>3. first.t \notin DOMAIN FixedSize /\ first.t # "true" /\ width # 0
      BY <2>2, <3>1 DEF FixedSize, TwosComplement
    <3>4. Elem(p).n = Signed(k, width)  BY <1>4, <2>2, <3>2, <3>3 DEF TagNumber, width
    <3>5. PICK z \in Nat : z = Power(width) /\ z <= d /\ z # 0  BY <1>7, <3>1, Powers
    <3>6. PICK g \in Nat : z = 2 * g /\ z \div 2 = g  BY <3>1, <3>5, Halves
    <3>7. k % z = k  BY <3>2, <3>5
    <3>8. Signed(k, width) = IF k >= g THEN k - z ELSE k  BY <3>5, <3>6, <3>7 DEF Signed
    <3>9. g <= h  BY <1>8, <3>5, <3>6
    <3>10. k < 2 * g  BY <3>2, <3>5, <3>6
    <3>. QED  BY <3>4, <3>6, <3>8, <3>9, <3>10
  <2>. QED  BY <1>6, <2>1, <2>2
<1>10. Lowest["i64"] = -h /\ Highest["i64"] = h - 1  BY <1>7, <1>8 DEF Lowest, Highest
<1>. QED  BY <1>9, <1>10 DEF Fits, IsInteger

(* A set of natural numbers has a least one *)
LEMMA Least ==
    ASSUME NEW S, S \subseteq Nat, S # {}
    PROVE  \E n \in S : \A m \in S : n <= m
<1>. DEFINE R == OpToRel(<, Nat)
<1>1. IsWellFoundedOn(R, Nat)  BY NatLessThanWellFounded
<1>2. PICK n \in S : \A m \in S : <<m, n>> \notin R
  <2>. HIDE DEF R
  <2>. QED  BY <1>1, WFMin
<1>3. ASSUME NEW m \in S, m < n  PROVE FALSE
  <2>1. <<m, n>> \in Nat \X Nat  OBVIOUS
  <2>2. <<m, n>> \in R  BY <2>1, <1>3 DEF OpToRel
  <2>. QED  BY <1>2, <2>2
<1>. QED  BY <1>3

LEMMA Divided ==
    ASSUME NEW a \in Int, NEW m \in Nat \ {0}
    PROVE  a = m * (a \div m) + (a % m) /\ a % m \in 0 .. (m - 1) /\ a \div m \in Int
OBVIOUS

LEMMA NoMultiple ==
    ASSUME NEW m \in Nat \ {0}, NEW d \in Int, -m < m * d, m * d < m
    PROVE  d = 0
<1>1. CASE d >= 1
  <2>1. m * d >= m * 1  BY <1>1
  <2>. QED  BY <2>1
<1>2. CASE d <= -1
  <2>1. m * d <= m * (-1)  BY <1>2
  <2>. QED  BY <2>1
<1>. QED  BY <1>1, <1>2

(* The quotient and the rest are the only ones *)
LEMMA Quotient ==
    ASSUME NEW a \in Int, NEW m \in Nat \ {0}, NEW q \in Int, NEW r \in 0 .. (m - 1), a = q * m + r
    PROVE  a \div m = q /\ a % m = r
<1>. DEFINE e == a \div m  d == e - q  s == a % m
<1>1. a = m * e + s /\ s \in 0 .. (m - 1) /\ e \in Int  BY Divided
<1>2. m * d = r - s
  <2>1. m * d = m * e - m * q  BY <1>1
  <2>. QED  BY <2>1, <1>1
<1>3. d = 0  BY <1>1, <1>2, NoMultiple
<1>. QED  BY <1>1, <1>2, <1>3

LEMMA Downwards ==
    ASSUME NEW m \in Nat \ {0}, NEW q \in Int, q <= -1, NEW x \in Int, x = m * q
    PROVE  x <= -m
<1>1. m * q <= m * (-1)  OBVIOUS
<1>. QED  BY <1>1

LEMMA Products ==
    /\ \A x, y \in Int : x * y \in Int
    /\ \A x, y \in Nat \ {0} : x * y \in Nat \ {0}
OBVIOUS

LEMMA Significands == \A to \in {"float", "double"} : Significand[to] \in Nat \ {0}
<1>1. PICK b \in Nat \ {0} : b = Base /\ b % 8 = 0  BY BaseFacts, BaseAssumption
<1>2. PICK s \in Nat \ {0} : s = Squared  BY <1>1, Products DEF Squared
<1>3. PICK c \in Nat \ {0} : c = s * s * s  BY Products
<1>4. Power(3) = s * b /\ Power(7) = c * b  BY <1>1, <1>2, <1>3 DEF Power
<1>5. Power(3) \in Nat \ {0}  BY <1>4, Products
<1>6. Power(7) \div 8 \in Nat \ {0}
  <2>1. PICK q \in Int : b = 8 * q  BY <1>1, Divided
  <2>2. q \in Nat \ {0}  BY <2>1
  <2>3. PICK x \in Nat \ {0} : x = c * q  BY <2>2, Products
  <2>4. c * (8 * q) = 8 * (c * q)  BY <2>2
  <2>5. Power(7) = 8 * x  BY <1>4, <2>1, <2>3, <2>4
  <2>6. (8 * x) \div 8 = x  OBVIOUS
  <2>. QED  BY <2>3, <2>5, <2>6
<1>. QED  BY <1>5, <1>6 DEF Significand

(* The last place of a number is among those there are *)
LEMMA UlpIs ==
    ASSUME NEW a \in Nat, a < Power(8), NEW p \in Nat \ {0}
    PROVE  Ulp(a, p) \in Ulps /\ a < p * Ulp(a, p) /\ (Ulp(a, p) = 1 \/ p * Ulp(a, p) <= 2 * a)
<1>. DEFINE S == {u \in Ulps : a < p * u}
<1>1. Ulps \subseteq Nat \ {0}  BY UlpsAssumption
<1>2. S # {}
  <2>1. PICK u \in Ulps : Power(8) <= u  BY UlpsAssumption
  <2>2. PICK P \in Nat : P = Power(8)  BY Powers
  <2>3. u \in Nat /\ a < u  BY <1>1, <2>1, <2>2
  <2>4. p * u >= 1 * u  BY <2>3
  <2>5. PICK x \in Int : x = p * u  BY <2>3, Products
  <2>. QED  BY <2>1, <2>3, <2>4, <2>5
<1>3. PICK u \in S : \A v \in S : u <= v
  <2>1. S \subseteq Nat  BY <1>1
  <2>. HIDE DEF S
  <2>. QED  BY <1>2, <2>1, Least
<1>4. u = 1 \/ p * u <= 2 * a
  <2>. SUFFICES ASSUME u # 1  PROVE p * u <= 2 * a  OBVIOUS
  <2>1. PICK h \in Ulps : u = 2 * h  BY UlpsAssumption
  <2>2. h \in Nat \ {0} /\ u \in Nat  BY <1>1
  <2>3. h \notin S  BY <1>3, <2>1, <2>2
  <2>4. PICK x \in Int : x = p * h  BY <2>2, Products
  <2>5. x <= a  BY <2>3, <2>4
  <2>6. p * u = 2 * x
    <3>1. p * (2 * h) = 2 * (p * h)  BY <2>2
    <3>. QED  BY <2>1, <2>4, <3>1
  <2>. QED  BY <2>5, <2>6
<1>. QED  BY <1>3, <1>4 DEF Ulp

(* What is rounded is nearest *)
LEMMA RoundedUpNearest ==
    ASSUME NEW a \in Nat, a < Power(8), NEW p \in Nat \ {0}
    PROVE  \E u \in Ulps : LET x == RoundedUp(a, p)
                           IN  /\ u \in Nat \ {0} /\ x \in Nat /\ x % u = 0 /\ (-x) % u = 0 /\ x <= p * u
                               /\ u = 1 \/ p * u <= 2 * a
                               /\ 2 * (x - a) <= u /\ 2 * (a - x) <= u
<1>1. PICK u \in Nat \ {0} : u = Ulp(a, p) /\ u \in Ulps /\ a < p * u /\ (u = 1 \/ p * u <= 2 * a)
  BY UlpIs, UlpsAssumption
<1>2. PICK q \in Int, r \in 0 .. (u - 1) : a = u * q + r /\ q = a \div u /\ r = a % u
  <2>1. a = u * (a \div u) + (a % u) /\ a % u \in 0 .. (u - 1) /\ a \div u \in Int  BY Divided, a \in Int
  <2>. QED  BY <2>1
<1>3. q >= 0
  <2>1. PICK x \in Int : x = u * q  BY Products
  <2>2. ~(q <= -1 /\ x <= -u)  BY <1>2, <2>1
  <2>. QED  BY <2>1, <2>2, Downwards
<1>4. q + 1 <= p
  <2>. SUFFICES ASSUME q >= p  PROVE FALSE  BY <1>2
  <2>1. u * q >= u * p  OBVIOUS
  <2>2. u * p = p * u  OBVIOUS
  <2>3. PICK x \in Int, y \in Int : x = u * q /\ y = p * u  BY Products
  <2>. QED  BY <1>1, <1>2, <2>1, <2>2, <2>3
<1>5. PICK m \in {q, q + 1} : /\ RoundedUp(a, p) = m * u
                              /\ m = q => 2 * r <= u
                              /\ m = q + 1 => 2 * r >= u
  <2>1. RoundedUp(a, p) = IF 2 * r < u \/ (2 * r = u /\ q % 2 = 0) THEN q * u ELSE (q + 1) * u
    BY <1>1, <1>2 DEF RoundedUp
  <2>2. CASE 2 * r < u \/ (2 * r = u /\ q % 2 = 0)
    <3>1. RoundedUp(a, p) = q * u /\ 2 * r <= u /\ q # q + 1  BY <2>1, <2>2
    <3>. QED  BY <3>1
  <2>3. CASE ~(2 * r < u \/ (2 * r = u /\ q % 2 = 0))
    <3>1. RoundedUp(a, p) = (q + 1) * u /\ 2 * r >= u /\ q # q + 1  BY <2>1, <2>3
    <3>. QED  BY <3>1
  <2>. QED  BY <2>2, <2>3
<1>6. PICK x \in Int, y \in Int : x = m * u /\ y = u * q  BY <1>2, <1>5, Products
<1>7. m \in Nat /\ m <= p  BY <1>2, <1>3, <1>4, <1>5
<1>8. x \in Nat /\ x <= p * u
  <2>1. m * u <= p * u /\ m * u >= 0  BY <1>7
  <2>. QED  BY <1>6, <2>1
<1>9. x % u = 0 /\ (-x) % u = 0
  <2>1. x = m * u + 0 /\ 0 \in 0 .. (u - 1)  BY <1>6
  <2>2. -x = (-m) * u + 0 /\ -m \in Int  BY <1>6, <1>7
  <2>3. x % u = 0  BY <1>7, <2>1, Quotient
  <2>4. -x \in Int  OBVIOUS
  <2>. QED  BY <2>1, <2>2, <2>3, <2>4, Quotient
<1>10. 2 * (x - a) <= u /\ 2 * (a - x) <= u
  <2>1. CASE m = q
    <3>1. x = y  BY <1>2, <1>6, <2>1
    <3>. QED  BY <1>2, <1>5, <1>6, <2>1, <3>1
  <2>2. CASE m = q + 1
    <3>1. (q + 1) * u = u * q + u  BY <1>2
    <3>2. x = y + u  BY <1>6, <2>2, <3>1
    <3>. QED  BY <1>2, <1>5, <1>6, <2>2, <3>2
  <2>. QED  BY <1>5, <2>1, <2>2
<1>. QED  BY <1>1, <1>5, <1>6, <1>8, <1>9, <1>10

LEMMA RoundedNearest ==
    ASSUME NEW to \in {"float", "double"}, NEW n \in Int, -Power(8) < n, n < Power(8)
    PROVE  Nearest(to, n, Rounded(n, Significand[to]))
<1>1. PICK p \in Nat \ {0} : p = Significand[to]  BY Significands
<1>2. PICK P \in Nat \ {0} : P = Power(8)  BY Powers
<1>3. CASE n >= 0
  <2>1. n \in Nat /\ n < P  BY <1>2, <1>3
  <2>2. PICK u \in Ulps : LET x == RoundedUp(n, p)
                          IN  /\ u \in Nat \ {0} /\ x \in Nat /\ x % u = 0 /\ x <= p * u
                              /\ u = 1 \/ p * u <= 2 * n
                              /\ 2 * (x - n) <= u /\ 2 * (n - x) <= u
    BY <1>2, <2>1, RoundedUpNearest
  <2>3. PICK x \in Nat : x = RoundedUp(n, p)  BY <2>2
  <2>4. Rounded(n, p) = x /\ Magnitude(x) = x /\ Magnitude(n) = n  BY <1>3, <2>3 DEF Rounded, Magnitude
  <2>5. 2 * Magnitude(x - n) <= u
    <3>1. Magnitude(x - n) \in {x - n, n - x}  BY DEF Magnitude
    <3>. QED  BY <2>2, <2>3, <3>1
  <2>. QED  BY <1>1, <2>2, <2>3, <2>4, <2>5 DEF Nearest
<1>4. CASE n < 0
  <2>1. PICK a \in Nat : a = -n /\ a < P  BY <1>2, <1>4
  <2>2. PICK u \in Ulps : LET x == RoundedUp(a, p)
                          IN  /\ u \in Nat \ {0} /\ x \in Nat /\ (-x) % u = 0 /\ x <= p * u
                              /\ u = 1 \/ p * u <= 2 * a
                              /\ 2 * (x - a) <= u /\ 2 * (a - x) <= u
    BY <1>2, <2>1, RoundedUpNearest
  <2>3. PICK x \in Nat : x = RoundedUp(a, p)  BY <2>2
  <2>4. Rounded(n, p) = -x /\ Magnitude(-x) = x /\ Magnitude(n) = a  BY <1>4, <2>1, <2>3 DEF Rounded, Magnitude
  <2>5. 2 * Magnitude((-x) - n) <= u
    <3>1. Magnitude((-x) - n) \in {x - a, a - x}  BY <2>1 DEF Magnitude
    <3>. QED  BY <2>1, <2>2, <2>3, <3>1
  <2>. QED  BY <1>1, <2>2, <2>3, <2>4, <2>5 DEF Nearest
<1>. QED  BY <1>3, <1>4

LEMMA ConvertedSays ==
    ASSUME NEW f \in DOMAIN Accepts, NEW type \in Accepts[f], NEW n,
           type \in {"uint", "int"} => n \in Int /\ -Power(8) < n /\ n < Power(8)
    PROVE  SaysNumber(f, type, n, Converted(f, type, n))
<1>1. AnswersIn[f] \in {"float", "double"}  BY Accepts4 DEF AnswersIn
<1>2. type \in {"uint", "int", "float", "double"}  BY Accepts4 DEF Accepts
<1>3. CASE type \in {"uint", "int"}
  <2>1. Converted(f, type, n) = <<"whole", Rounded(n, Significand[AnswersIn[f]])>>  BY <1>3 DEF Converted
  <2>2. Nearest(AnswersIn[f], n, Rounded(n, Significand[AnswersIn[f]]))  BY <1>1, <1>3, RoundedNearest
  <2>3. PICK x : x = Rounded(n, Significand[AnswersIn[f]])  OBVIOUS
  <2>4. <<"whole", x>>[1] = "whole" /\ <<"whole", x>>[2] = x  OBVIOUS
  <2>. QED  BY <1>3, <2>1, <2>2, <2>3, <2>4 DEF SaysNumber
<1>4. CASE type = "float"  BY <1>4 DEF Converted, SaysNumber
<1>5. CASE type = "double"  BY <1>1, <1>5 DEF Converted, SaysNumber
<1>. QED  BY <1>2, <1>3, <1>4, <1>5

(* A number of an element is in the range of 64 bits *)
LEMMA RealSays ==
    ASSUME NEW p, Starts(p), p + Size(p) <= Len(stream),
           NEW f \in DOMAIN Accepts, TagType(Elem(p)) \in Accepts[f]
    PROVE  LET type == TagType(Elem(p))
               n == Elem(p).n
           IN  SaysNumber(f, type, n, Converted(f, type, n))
<1>1. PICK d \in Nat : d = Power(8) /\ Base <= d  BY PowersGrow
<1>2. PICK h \in Nat : d = 2 * h /\ d \div 2 = h  BY <1>1, Halves
<1>3. h >= 1  BY <1>1, <1>2, BaseFacts
<1>4. /\ Lowest["u64"] = 0 /\ Highest["u64"] = d - 1
      /\ Lowest["i64"] = -h /\ Highest["i64"] = h - 1
  BY <1>1, <1>2 DEF Lowest, Highest
<1>5. PICK n \in Int : n = Elem(p).n  BY ElemNumber
<1>6. TagType(Elem(p)) \in {"uint", "int"} => -d < n /\ n < d
  <2>1. TagType(Elem(p)) = "uint" => 0 <= n /\ n <= d - 1  BY <1>4, <1>5, UintFits DEF Fits
  <2>2. TagType(Elem(p)) = "int" => -h <= n /\ n <= h - 1  BY <1>4, <1>5, IntFits DEF Fits
  <2>. QED  BY <1>2, <1>3, <2>1, <2>2
<1>. QED  BY <1>1, <1>5, <1>6, ConvertedSays

-----------------------------------------------------------------------------
(* The invariant and the functions, one after the other: the numbers *)

(* A call whose answer is the number that the element holds *)
Direct(call) == call.f \notin Lookups /\ call.f # "key_uint"

LEMMA PlainAnswers ==
    ASSUME NEW c, Direct(c), NEW e, NEW body, TagType(e) # "nil"
    PROVE  /\ Answers(c, e, body, Num(e.n))
           /\ Answers(c, e, body, [some |-> TRUE, num |-> e.n])
           /\ Answers(c, e, body, [num |-> e.n, exttype |-> e.exttype])
BY AnswersForms, AnswersPlain DEF Direct

LEMMA NilAnswers ==
    ASSUME NEW c, Direct(c), NEW e, NEW body, TagType(e) = "nil"
    PROVE  Answers(c, e, body, Num(0)) /\ Answers(c, e, body, [some |-> FALSE, num |-> 0])
<1>1. AnswersNumber(c, e, body, 0)  BY DEF Direct, AnswersNumber
<1>. QED  BY <1>1, AnswersForms

LEMMA IntegerMeets ==
    ASSUME NEW f, NEW o \in ExpectInteger(rd, f), Good(o), At(rd, pos)
    PROVE  /\ WholeRead(o, pos) /\ o.v = Num(Elem(pos).n) /\ IsInteger(Elem(pos))
           /\ Elem(pos).n \in Int /\ Fits(f, Elem(pos).n)
           /\ \A call : Direct(call) => Answers(call, Elem(pos), BodyAt(pos), o.v)
<1>1. /\ HeadRead(o, pos) /\ o.v = Num(Elem(pos).n) /\ IsInteger(Elem(pos)) /\ Fits(f, Elem(pos).n)
      /\ Starts(pos)
  BY ExpectIntegerGood DEF At
<1>2. TagType(Elem(pos)) \notin Holding /\ TagType(Elem(pos)) # "nil"  BY <1>1 DEF IsInteger, Holding
<1>3. WholeRead(o, pos)  BY <1>1, <1>2, NothingHeld
<1>4. Elem(pos).n \in Int  BY <1>1, ElemNumber DEF HeadRead
<1>. QED  BY <1>1, <1>2, <1>3, <1>4, PlainAnswers

LEMMA MatchGood ==
    ASSUME NEW r, NEW outcomes, KeptAll(outcomes, r), NEW n, NEW o \in Match(outcomes, n), Good(o)
    PROVE  o.v = Null /\ \E q \in outcomes : Good(q) /\ q.rd = o.rd /\ q.v.num = n
<1>1. PICK q \in outcomes : o = IF q.v.num = n THEN Out(q.rd, Null) ELSE Refused(q, Null)  BY DEF Match
<1>2. ~Good(Refused(q, Null))  BY BadOutcomes
<1>. QED  BY <1>1, <1>2 DEF Out, Good

LEMMA IntegersKept ==
    ASSUME Fair(rd), NEW f, NEW low, NEW high
    PROVE  /\ KeptAll(ExpectInteger(rd, f), rd) /\ KeptAll(Within(ExpectInteger(rd, f), low, high), rd)
           /\ KeptAll(Match(ExpectInteger(rd, f), low), rd)
<1>1. DOMAIN rd = Fields  BY DEF Fair
<1>2. "type" # "ok"  OBVIOUS
<1>. QED  BY <1>1, <1>2, ExpectIntegerKept, ChecksKept

LEMMA IntegerAnswered ==
    ASSUME EInv, NEW f \in Integers_, Whole(Call(f, Lowest[f], Highest[f]), ExpectInteger(rd, f))
    PROVE  EInv'
<1>1. /\ f \notin ReaderCalls /\ f \notin Opening /\ f # "str_match" /\ f \notin Lookups /\ f # "key_uint"
  BY Integers10 DEF ReaderCalls, Opening, Lookups
<1>2. KeptAll(ExpectInteger(rd, f), rd)  BY IntegersKept DEF EInv
<1>3. WholeMeets(Call(f, Lowest[f], Highest[f]), ExpectInteger(rd, f))
  <2>. DEFINE call == Call(f, Lowest[f], Highest[f])
  <2>. SUFFICES ASSUME NEW o \in ExpectInteger(rd, f), Good(o), At(rd, pos)
                PROVE  /\ WholeRead(o, pos) /\ Wants(call, Elem(pos), BodyAt(pos), 0)
                       /\ Answers(call, Elem(pos), BodyAt(pos), o.v)
    BY DEF WholeMeets
  <2>1. /\ call.f = f /\ call.low = Lowest[f] /\ call.high = Highest[f]  BY DEF Call
  <2>2. /\ WholeRead(o, pos) /\ IsInteger(Elem(pos)) /\ Elem(pos).n \in Int /\ Fits(f, Elem(pos).n)
        /\ \A c : Direct(c) => Answers(c, Elem(pos), BodyAt(pos), o.v)
    BY IntegerMeets
  <2>3. Elem(pos).n \in Lowest[f] .. Highest[f]
    <3>1. Lowest[f] \in Int /\ Highest[f] \in Int
      <4>1. \A w \in {1, 2, 4, 8} : Power(w) \in Nat /\ Power(w) \div 2 \in Int  BY Powers
      <4>2. Base \in Nat  BY BaseFacts
      <4>. QED  BY <4>1, <4>2, Integers10 DEF Lowest, Highest
    <3>. QED  BY <2>2, <3>1 DEF Fits
  <2>. HIDE DEF call
  <2>4. Bounded(call, Elem(pos))  BY <2>1, <2>3 DEF Bounded
  <2>5. Wants(call, Elem(pos), BodyAt(pos), 0)  BY <2>1, <2>2, <2>3, <2>4, WantsNumber
  <2>. QED  BY <1>1, <2>1, <2>2, <2>5 DEF Direct
<1>. QED  BY <1>1, <1>2, <1>3, WholeAnswered

LEMMA WithinAnswered ==
    ASSUME EInv, NEW f \in {"u8", "i16", "u64"}, NEW low, NEW high,
           Whole(Call(f, low, high), Within(ExpectInteger(rd, f), low, high))
    PROVE  EInv'
<1>1. /\ f \notin ReaderCalls /\ f \notin Opening /\ f # "str_match" /\ f \notin Lookups /\ f # "key_uint"
      /\ f \in Integers_
  BY Integers10 DEF ReaderCalls, Opening, Lookups
<1>2. KeptAll(ExpectInteger(rd, f), rd) /\ KeptAll(Within(ExpectInteger(rd, f), low, high), rd)
  BY IntegersKept DEF EInv
<1>3. WholeMeets(Call(f, low, high), Within(ExpectInteger(rd, f), low, high))
  <2>. DEFINE call == Call(f, low, high)
  <2>. SUFFICES ASSUME NEW o \in Within(ExpectInteger(rd, f), low, high), Good(o), At(rd, pos)
                PROVE  /\ WholeRead(o, pos) /\ Wants(call, Elem(pos), BodyAt(pos), 0)
                       /\ Answers(call, Elem(pos), BodyAt(pos), o.v)
    BY DEF WholeMeets
  <2>0. o \in ExpectInteger(rd, f) /\ o.v.num \in low .. high
    <3>1. "type" # "ok"  OBVIOUS
    <3>. QED  BY <1>2, <3>1, ChecksGood
  <2>1. /\ call.f = f /\ call.low = low /\ call.high = high  BY DEF Call
  <2>2. /\ WholeRead(o, pos) /\ IsInteger(Elem(pos)) /\ Elem(pos).n \in Int /\ Fits(f, Elem(pos).n)
        /\ o.v = Num(Elem(pos).n) /\ \A c : Direct(c) => Answers(c, Elem(pos), BodyAt(pos), o.v)
    BY <2>0, IntegerMeets
  <2>3. Elem(pos).n \in Lowest[f] .. Highest[f]
    <3>1. Lowest[f] \in Int /\ Highest[f] \in Int
      <4>1. \A w \in {1, 2, 4, 8} : Power(w) \in Nat /\ Power(w) \div 2 \in Int  BY Powers
      <4>2. Base \in Nat  BY BaseFacts
      <4>. QED  BY <4>1, <4>2 DEF Lowest, Highest
    <3>. QED  BY <2>2, <3>1 DEF Fits
  <2>. HIDE DEF call
  <2>4. Bounded(call, Elem(pos))  BY <2>0, <2>1, <2>2 DEF Bounded, Num
  <2>5. Wants(call, Elem(pos), BodyAt(pos), 0)  BY <1>1, <2>1, <2>2, <2>3, <2>4, WantsNumber
  <2>. QED  BY <1>1, <2>1, <2>2, <2>5 DEF Direct
<1>. QED  BY <1>1, <1>2, <1>3, WholeAnswered

LEMMA MatchAnswered ==
    ASSUME EInv, NEW f, NEW n \in Int, Whole(Call("match", n, n), Match(ExpectInteger(rd, f), n))
    PROVE  EInv'
<1>. DEFINE outcomes == Match(ExpectInteger(rd, f), n)
<1>1. "match" \notin ReaderCalls /\ "match" \notin Opening  BY DEF ReaderCalls, Opening
<1>2. KeptAll(ExpectInteger(rd, f), rd) /\ KeptAll(outcomes, rd)  BY IntegersKept DEF EInv
<1>3. WholeMeets(Call("match", n, n), outcomes)
  <2>. DEFINE call == Call("match", n, n)
  <2>. SUFFICES ASSUME NEW o \in outcomes, Good(o), At(rd, pos)
                PROVE  /\ WholeRead(o, pos) /\ Wants(call, Elem(pos), BodyAt(pos), 0)
                       /\ Answers(call, Elem(pos), BodyAt(pos), o.v)
    BY DEF WholeMeets
  <2>0. o.v = Null /\ \E q \in ExpectInteger(rd, f) : Good(q) /\ q.rd = o.rd /\ q.v.num = n
    BY <1>2, MatchGood
  <2>1. PICK q \in ExpectInteger(rd, f) : Good(q) /\ q.rd = o.rd /\ q.v.num = n  BY <2>0
  <2>2. call.f = "match" /\ call.low = n /\ call.high = n  BY DEF Call
  <2>3. WholeRead(q, pos) /\ IsInteger(Elem(pos)) /\ q.v = Num(Elem(pos).n)  BY <2>1, IntegerMeets
  <2>4. WholeRead(o, pos)  BY <2>1, <2>3 DEF WholeRead, Passed
  <2>. HIDE DEF call
  <2>5. Bounded(call, Elem(pos))  BY <2>1, <2>2, <2>3 DEF Bounded, Num
  <2>6. Wants(call, Elem(pos), BodyAt(pos), 0)  BY <2>2, <2>3, <2>5, WantsNumber
  <2>. QED  BY <2>0, <2>4, <2>6, AnswersForms
<1>. HIDE DEF outcomes
<1>4. Whole(Call("match", n, n), outcomes)  BY DEF outcomes
<1>. QED  BY <1>1, <1>2, <1>3, <1>4, WholeAnswered

LEMMA NumbersAnswered == ASSUME EInv, WholeNumber  PROVE EInv'
<1>1. \A n \in Maxima : n \in Int /\ -n \in Int  BY MaximaAssumption
<1>. QED  BY <1>1, IntegerAnswered, WithinAnswered, MatchAnswered DEF WholeNumber

LEMMA RealAnswered == ASSUME EInv, Real  PROVE EInv'
<1>1. PICK f \in DOMAIN Accepts : Whole(Call(f, 0, 0), ExpectReal(rd, f))  BY DEF Real
<1>2. /\ f \notin ReaderCalls /\ f \notin Opening /\ f # "str_match" /\ f \notin Lookups /\ f # "key_uint"
  BY Accepts4 DEF ReaderCalls, Opening, Lookups
<1>3. KeptAll(ExpectReal(rd, f), rd)  BY ExpectRealKept DEF EInv, Fair
<1>4. WholeMeets(Call(f, 0, 0), ExpectReal(rd, f))
  <2>. DEFINE call == Call(f, 0, 0)
  <2>. SUFFICES ASSUME NEW o \in ExpectReal(rd, f), Good(o), At(rd, pos)
                PROVE  /\ WholeRead(o, pos) /\ Wants(call, Elem(pos), BodyAt(pos), 0)
                       /\ Answers(call, Elem(pos), BodyAt(pos), o.v)
    BY DEF WholeMeets
  <2>1. call.f = f  BY DEF Call
  <2>2. /\ HeadRead(o, pos) /\ TagType(Elem(pos)) \in Accepts[f] /\ Starts(pos)
        /\ o.v = [real |-> Converted(f, TagType(Elem(pos)), Elem(pos).n)]
    BY ExpectRealGood DEF At
  <2>3. TagType(Elem(pos)) \in {"uint", "int", "float", "double"}  BY <2>2, Accepts4 DEF Accepts
  <2>4. WholeRead(o, pos)  BY <2>2, <2>3, NothingHeld DEF Holding
  <2>. HIDE DEF call
  <2>5. Wants(call, Elem(pos), BodyAt(pos), 0)  BY <2>1, <2>2, WantsNumber
  <2>6. SaysNumber(call.f, TagType(Elem(pos)), Elem(pos).n, Converted(f, TagType(Elem(pos)), Elem(pos).n))
    <3>1. pos + Size(pos) <= Len(stream)  BY <2>2 DEF HeadRead
    <3>. QED  BY <2>1, <2>2, <3>1, RealSays
  <2>7. Answers(call, Elem(pos), BodyAt(pos), o.v)
    <3>1. \A x : SaysNumber(call.f, TagType(Elem(pos)), Elem(pos).n, x)
                  => Answers(call, Elem(pos), BodyAt(pos), [real |-> x])
      BY AnswersForms
    <3>. QED  BY <2>2, <2>6, <3>1
  <2>. QED  BY <2>4, <2>5, <2>7
<1>. QED  BY <1>1, <1>2, <1>3, <1>4, WholeAnswered

(* The values of one byte, and a timestamp *)
LEMMA WholeHead ==
    ASSUME At(rd, pos), NEW o, HeadRead(o, pos), TagType(Elem(pos)) \notin Holding
    PROVE  WholeRead(o, pos)
BY NothingHeld DEF At

LEMMA SimpleAnswered == ASSUME EInv, Simple  PROVE EInv'
<1>0. DOMAIN rd = Fields  BY DEF EInv, Fair
<1>1. CASE Whole(Call("nil", 0, 0), ExpectNil(rd))
  <2>1. WholeMeets(Call("nil", 0, 0), ExpectNil(rd))
    <3>. DEFINE call == Call("nil", 0, 0)
    <3>1. call.f = "nil"  BY DEF Call
    <3>. HIDE DEF call
    <3>2. ASSUME NEW o \in ExpectNil(rd), Good(o), At(rd, pos)
          PROVE  /\ WholeRead(o, pos) /\ Wants(call, Elem(pos), BodyAt(pos), 0)
                 /\ Answers(call, Elem(pos), BodyAt(pos), o.v)
      <4>1. HeadRead(o, pos) /\ o.v = Null /\ TagType(Elem(pos)) = "nil"  BY <3>2, ExpectNilGood
      <4>2. WholeRead(o, pos)  BY <3>2, <4>1, WholeHead DEF Holding
      <4>. QED  BY <3>1, <4>1, <4>2, WantsNumber, AnswersForms
    <3>. QED  BY <3>2 DEF WholeMeets, call
  <2>. QED  BY <1>0, <1>1, <2>1, WholeAnswered, ExpectNilKept DEF ReaderCalls, Opening
<1>2. CASE Whole(Call("bool", 0, 0), ExpectBool(rd))
  <2>1. WholeMeets(Call("bool", 0, 0), ExpectBool(rd))
    <3>. DEFINE call == Call("bool", 0, 0)
    <3>1. call.f = "bool"  BY DEF Call
    <3>. HIDE DEF call
    <3>2. ASSUME NEW o \in ExpectBool(rd), Good(o), At(rd, pos)
          PROVE  /\ WholeRead(o, pos) /\ Wants(call, Elem(pos), BodyAt(pos), 0)
                 /\ Answers(call, Elem(pos), BodyAt(pos), o.v)
      <4>1. HeadRead(o, pos) /\ o.v = [bool |-> Elem(pos).tag = "true"] /\ TagType(Elem(pos)) = "bool"
        BY <3>2, ExpectBoolGood
      <4>2. WholeRead(o, pos)  BY <3>2, <4>1, WholeHead DEF Holding
      <4>3. Wants(call, Elem(pos), BodyAt(pos), 0)  BY <3>1, <4>1, WantsNumber
      <4>4. Answers(call, Elem(pos), BodyAt(pos), [bool |-> Elem(pos).tag = "true"])  BY AnswersForms
      <4>. QED  BY <4>1, <4>2, <4>3, <4>4
    <3>. QED  BY <3>2 DEF WholeMeets, call
  <2>. QED  BY <1>0, <1>2, <2>1, WholeAnswered, ExpectBoolKept DEF ReaderCalls, Opening
<1>3. ASSUME NEW want \in BOOLEAN, NEW f, f = IF want THEN "true" ELSE "false",
             Whole(Call(f, 0, 0), ExpectJust(rd, want))
      PROVE  EInv'
  <2>1. WholeMeets(Call(f, 0, 0), ExpectJust(rd, want))
    <3>. DEFINE call == Call(f, 0, 0)
    <3>1. call.f = f  BY DEF Call
    <3>. HIDE DEF call
    <3>2. ASSUME NEW o \in ExpectJust(rd, want), Good(o), At(rd, pos)
          PROVE  /\ WholeRead(o, pos) /\ Wants(call, Elem(pos), BodyAt(pos), 0)
                 /\ Answers(call, Elem(pos), BodyAt(pos), o.v)
      <4>1. HeadRead(o, pos) /\ o.v = Null /\ Elem(pos).tag = f  BY <1>3, <3>2, ExpectJustGood
      <4>2. TagType(Elem(pos)) = "bool"
        <5>1. TagType(Elem(pos)) = TypeOf(stream[pos + 1]) /\ stream[pos + 1].t = f
          BY <3>2, <4>1, ElemKind DEF At
        <5>2. stream[pos + 1].t \in DOMAIN Width /\ f \in {"true", "false"}
          BY <1>3, <3>2 DEF At, Starts
        <5>. QED  BY <5>1, <5>2, KindsOfText
      <4>3. WholeRead(o, pos)  BY <3>2, <4>1, <4>2, WholeHead DEF Holding
      <4>4. f \in {"true", "false"}  BY <1>3
      <4>5. Wants(call, Elem(pos), BodyAt(pos), 0)  BY <3>1, <4>1, <4>4, WantsNumber
      <4>6. Answers(call, Elem(pos), BodyAt(pos), Null)  BY AnswersForms
      <4>. QED  BY <4>1, <4>3, <4>5, <4>6
    <3>. QED  BY <3>2 DEF WholeMeets, call
  <2>. QED  BY <1>0, <1>3, <2>1, WholeAnswered, ExpectJustKept DEF ReaderCalls, Opening
<1>4. CASE Whole(Call("timestamp", 0, 0), ExpectTimestamp(rd))
  <2>1. WholeMeets(Call("timestamp", 0, 0), ExpectTimestamp(rd))
    <3>. DEFINE call == Call("timestamp", 0, 0)
    <3>1. call.f = "timestamp"  BY DEF Call
    <3>. HIDE DEF call
    <3>2. ASSUME NEW o \in ExpectTimestamp(rd), Good(o), At(rd, pos)
          PROVE  /\ WholeRead(o, pos) /\ Wants(call, Elem(pos), BodyAt(pos), 0)
                 /\ Answers(call, Elem(pos), BodyAt(pos), o.v)
      <4>1. /\ WholeRead(o, pos) /\ o.v = [time |-> Split(BodyAt(pos))]
            /\ TagType(Elem(pos)) = "ext" /\ Elem(pos).exttype = TimestampType
        BY <3>2, ExpectTimestampGood
      <4>2. Wants(call, Elem(pos), BodyAt(pos), 0)  BY <3>1, <4>1, WantsNumber DEF IsTime
      <4>3. Answers(call, Elem(pos), BodyAt(pos), [time |-> Split(BodyAt(pos))])  BY AnswersForms
      <4>. QED  BY <4>1, <4>2, <4>3
    <3>. QED  BY <3>2 DEF WholeMeets, call
  <2>. QED  BY <1>0, <1>4, <2>1, WholeAnswered, ExpectTimestampKept DEF ReaderCalls, Opening
<1>. QED  BY <1>1, <1>2, <1>3, <1>4 DEF Simple

-----------------------------------------------------------------------------
(* Containers *)

LEMMA CountMeets ==
    ASSUME NEW type \in Counted, NEW o \in ExpectCount(rd, type), Good(o), At(rd, pos)
    PROVE  /\ HeadRead(o, pos) /\ o.v = Num(Elem(pos).n) /\ TagType(Elem(pos)) = type
           /\ Elem(pos).n \in 0 .. Power(4) - 1
           /\ type \notin Holding => WholeRead(o, pos)
           /\ \A call : Direct(call) => Answers(call, Elem(pos), BodyAt(pos), o.v)
<1>1. HeadRead(o, pos) /\ o.v = Num(Elem(pos).n) /\ TagType(Elem(pos)) = type  BY ExpectCountGood
<1>2. Elem(pos).n \in 0 .. Power(4) - 1  BY <1>1, ElemNumber DEF At, HeadRead
<1>3. type # "nil"  BY DEF Counted
<1>. QED  BY <1>1, <1>2, <1>3, WholeHead, PlainAnswers

LEMMA MaxOrNilGood ==
    ASSUME NEW r, DOMAIN r = Fields, NEW type, NEW max, NEW o \in MaxOrNil(r, type, max), Good(o)
    PROVE  o \in ExpectOrNil(r, type) /\ ~(o.v.some /\ o.v.num > max)
<1>. DEFINE none == [some |-> FALSE, num |-> 0]
<1>1. PICK q \in ExpectOrNil(r, type) : o = IF q.v.some /\ q.v.num > max THEN Refused(q, none) ELSE q
  BY DEF MaxOrNil
<1>2. ~Good(Refused(q, none))  BY ExpectCountKept, BadOutcomes
<1>. QED  BY <1>1, <1>2

LEMMA OrNilMeets ==
    ASSUME NEW type \in {"map", "array"}, NEW o \in ExpectOrNil(rd, type), Good(o), At(rd, pos)
    PROVE  /\ WholeRead(o, pos)
           /\ \/ /\ TagType(Elem(pos)) = type /\ o.v = [some |-> TRUE, num |-> Elem(pos).n]
                 /\ Elem(pos).n \in 0 .. Power(4) - 1
              \/ TagType(Elem(pos)) = "nil" /\ o.v = [some |-> FALSE, num |-> 0]
<1>1. /\ HeadRead(o, pos)
      /\ \/ TagType(Elem(pos)) = type /\ o.v = [some |-> TRUE, num |-> Elem(pos).n]
         \/ TagType(Elem(pos)) = "nil" /\ o.v = [some |-> FALSE, num |-> 0]
  BY ExpectOrNilGood
<1>2. TagType(Elem(pos)) = type => Elem(pos).n \in 0 .. Power(4) - 1
  BY <1>1, ElemNumber DEF At, HeadRead, Counted
<1>3. WholeRead(o, pos)  BY <1>1, WholeHead DEF Holding
<1>. QED  BY <1>1, <1>2, <1>3

-----------------------------------------------------------------------------
(* Containers, and the heads of what has bytes *)

Apart(f) == f \notin ReaderCalls /\ f # "str_match" /\ f \notin Lookups /\ f # "key_uint"

LEMMA CountsKept ==
    ASSUME Fair(rd), NEW type, NEW n, NEW orNil
    PROVE  /\ KeptAll(ExpectCount(rd, type), rd) /\ KeptAll(ExpectOrNil(rd, type), rd)
           /\ KeptAll(Within(ExpectCount(rd, type), 0, n), rd) /\ KeptAll(Match(ExpectCount(rd, type), n), rd)
           /\ KeptAll(MaxOrNil(rd, type, n), rd) /\ KeptAll(ArrayAlloc(rd, n, orNil), rd)
           /\ KeptAll(AtMost(ExpectCount(rd, type), n, "type"), rd)
<1>1. DOMAIN rd = Fields  BY DEF Fair
<1>2. "type" # "ok"  OBVIOUS
<1>3. KeptAll(ExpectCount(rd, type), rd) /\ KeptAll(ExpectOrNil(rd, type), rd) /\ KeptAll(MaxOrNil(rd, type, n), rd)
  BY <1>1, ExpectCountKept
<1>4. KeptAll(Within(ExpectCount(rd, type), 0, n), rd) /\ KeptAll(Match(ExpectCount(rd, type), n), rd)
      /\ KeptAll(AtMost(ExpectCount(rd, type), n, "type"), rd)
  BY <1>2, <1>3, ChecksKept
<1>5. KeptAll(ArrayAlloc(rd, n, orNil), rd)  BY <1>1, ArrayAllocKept
<1>. QED  BY <1>3, <1>4, <1>5

LEMMA WithinGood ==
    ASSUME NEW r, NEW outcomes, KeptAll(outcomes, r), NEW low, NEW high,
           NEW o \in Within(outcomes, low, high), Good(o)
    PROVE  o \in outcomes /\ o.v.num \in low .. high
<1>1. PICK q \in outcomes :
         o = IF ~Good(q) THEN Out(q.rd, Num(low)) ELSE IF q.v.num \notin low .. high THEN Refused(q, Num(low)) ELSE q
  BY DEF Within
<1>2. ~Good(Refused(q, Num(low)))  BY BadOutcomes
<1>. QED  BY <1>1, <1>2 DEF Out, Good

LEMMA AtMostGood ==
    ASSUME NEW r, NEW outcomes, KeptAll(outcomes, r), NEW max, NEW e, e # "ok",
           NEW o \in AtMost(outcomes, max, e), Good(o)
    PROVE  o \in outcomes /\ ~(o.v.num > max)
<1>1. PICK q \in outcomes : o = IF q.v.num > max THEN Out(FlagError(q.rd, e), [q.v EXCEPT !.num = 0]) ELSE q
  BY DEF AtMost
<1>2. ~Good(Out(FlagError(q.rd, e), [q.v EXCEPT !.num = 0]))  BY BadOutcomes
<1>. QED  BY <1>1, <1>2

LEMMA CountWanted ==
    ASSUME NEW call, call.f \in Counted, NEW e, TagType(e) = call.f, e.n \in call.low .. call.high,
           NEW body, NEW u
    PROVE  Wants(call, e, body, u)
BY WantsCount DEF Counted, Bounded

LEMMA MostIs == Most_ \in Nat /\ Most_ = Power(4) - 1
BY Powers DEF Most_

LEMMA ArrayAllocGood ==
    ASSUME Fair(rd), At(rd, pos), NEW max \in Nat, NEW orNil, NEW o \in ArrayAlloc(rd, max, orNil), Good(o)
    PROVE  /\ WholeRead(o, pos)
           /\ \/ TagType(Elem(pos)) = "array" /\ o.v = Num(Elem(pos).n) /\ Elem(pos).n \in 0 .. max
              \/ orNil /\ TagType(Elem(pos)) = "nil" /\ o.v = Num(0)
<1>. DEFINE S == IF orNil THEN MaxOrNil(rd, "array", max) ELSE Within(ExpectCount(rd, "array"), 0, max)
<1>1. PICK q \in S : o \in IF ~Good(q) \/ q.v.num = 0 THEN {Out(q.rd, Num(0))}
                           ELSE {Out(FlagError(q.rd, "memory"), Num(0)), Out(q.rd, Num(q.v.num))}
  BY DEF ArrayAlloc
<1>2. KeptAll(MaxOrNil(rd, "array", max), rd) /\ KeptAll(Within(ExpectCount(rd, "array"), 0, max), rd)
      /\ KeptAll(ExpectCount(rd, "array"), rd)
  BY CountsKept
<1>3. KeptAll(S, rd)  BY <1>2
<1>4. o.rd = q.rd /\ Good(q) /\ o.v = Num(q.v.num)
  <2>. HIDE DEF S
  <2>1. ~Good(Out(FlagError(q.rd, "memory"), Num(0)))
    <3>1. "memory" # "ok"  OBVIOUS
    <3>. QED  BY <1>3, <3>1, BadOutcomes
  <2>2. CASE ~Good(q) \/ q.v.num = 0
    <3>1. o = Out(q.rd, Num(0))  BY <1>1, <2>2
    <3>. QED  BY <2>2, <3>1 DEF Out, Good
  <2>3. CASE Good(q) /\ q.v.num # 0
    <3>1. o = Out(q.rd, Num(q.v.num))  BY <1>1, <2>1, <2>3
    <3>. QED  BY <2>3, <3>1 DEF Out
  <2>. QED  BY <2>2, <2>3
<1>5. CASE orNil
  <2>1. q \in MaxOrNil(rd, "array", max)  BY <1>1, <1>5
  <2>2. q \in ExpectOrNil(rd, "array") /\ ~(q.v.some /\ q.v.num > max)
    BY <1>4, <2>1, AtKept, MaxOrNilGood
  <2>3. /\ WholeRead(q, pos)
        /\ \/ /\ TagType(Elem(pos)) = "array" /\ q.v = [some |-> TRUE, num |-> Elem(pos).n]
              /\ Elem(pos).n \in 0 .. Power(4) - 1
           \/ TagType(Elem(pos)) = "nil" /\ q.v = [some |-> FALSE, num |-> 0]
    BY <1>4, <2>2, OrNilMeets
  <2>4. WholeRead(o, pos)  BY <1>4, <2>3 DEF WholeRead, Passed
  <2>5. TagType(Elem(pos)) = "array" =>
          Elem(pos).n \in 0 .. max /\ o.v = Num(Elem(pos).n)
    <3>. SUFFICES ASSUME TagType(Elem(pos)) = "array"  PROVE Elem(pos).n \in 0 .. max /\ o.v = Num(Elem(pos).n)
      OBVIOUS
    <3>1. Elem(pos).n \in Nat /\ ~(Elem(pos).n > max) /\ q.v.num = Elem(pos).n  BY <2>2, <2>3, MostIs
    <3>. QED  BY <1>4, <3>1
  <2>6. TagType(Elem(pos)) = "nil" => o.v = Num(0)  BY <1>4, <2>3
  <2>. QED  BY <1>5, <2>3, <2>4, <2>5, <2>6
<1>6. CASE ~orNil
  <2>1. q \in ExpectCount(rd, "array") /\ q.v.num \in 0 .. max  BY <1>1, <1>2, <1>4, <1>6, WithinGood
  <2>2. WholeRead(q, pos) /\ q.v = Num(Elem(pos).n) /\ TagType(Elem(pos)) = "array"
    BY <1>4, <2>1, CountMeets DEF Counted, Holding
  <2>3. WholeRead(o, pos)  BY <1>4, <2>2 DEF WholeRead, Passed
  <2>. QED  BY <1>4, <2>1, <2>2, <2>3 DEF Num
<1>. QED  BY <1>5, <1>6

LEMMA ContainerCountAnswered ==
    ASSUME EInv, NEW type \in {"map", "array"}, NEW n \in Nat,
           \/ Whole(Call(type, 0, Most_), ExpectCount(rd, type))
           \/ Whole(Call(type, 0, n), Within(ExpectCount(rd, type), 0, n))
           \/ Whole(Call(type, n, n), Match(ExpectCount(rd, type), n))
    PROVE  EInv'
<1>0. /\ Apart(type) /\ type \notin Opening /\ type \in Counted /\ type \notin Holding
  BY DEF Apart, ReaderCalls, Opening, Lookups, Counted, Holding
<1>1. /\ KeptAll(ExpectCount(rd, type), rd) /\ KeptAll(Within(ExpectCount(rd, type), 0, n), rd)
      /\ KeptAll(Match(ExpectCount(rd, type), n), rd)
  BY CountsKept DEF EInv
<1>2. ASSUME NEW low, NEW high, NEW o, NEW q \in ExpectCount(rd, type), Good(q), At(rd, pos),
             q.v.num \in low .. high, q.rd = o.rd, o.v = q.v \/ o.v = Null
      PROVE  /\ WholeRead(o, pos) /\ Wants(Call(type, low, high), Elem(pos), BodyAt(pos), 0)
             /\ Answers(Call(type, low, high), Elem(pos), BodyAt(pos), o.v)
  <2>. DEFINE call == Call(type, low, high)
  <2>1. call.f = type /\ call.low = low /\ call.high = high  BY DEF Call
  <2>. HIDE DEF call
  <2>2. /\ WholeRead(q, pos) /\ q.v = Num(Elem(pos).n) /\ TagType(Elem(pos)) = type
        /\ \A c : Direct(c) => Answers(c, Elem(pos), BodyAt(pos), q.v)
    BY <1>0, <1>2, CountMeets
  <2>3. WholeRead(o, pos)  BY <1>2, <2>2 DEF WholeRead, Passed
  <2>4. Wants(call, Elem(pos), BodyAt(pos), 0)  BY <1>0, <1>2, <2>1, <2>2, CountWanted DEF Num
  <2>5. Direct(call)  BY <1>0, <2>1 DEF Direct, Apart
  <2>6. Answers(call, Elem(pos), BodyAt(pos), o.v)  BY <1>2, <2>2, <2>5, AnswersForms
  <2>. QED  BY <2>3, <2>4, <2>6 DEF call
<1>3. WholeMeets(Call(type, 0, Most_), ExpectCount(rd, type))
  <2>1. ASSUME NEW o \in ExpectCount(rd, type), Good(o), At(rd, pos)  PROVE o.v.num \in 0 .. Most_
    BY <1>0, <2>1, CountMeets, MostIs DEF Num
  <2>. QED  BY <1>2, <2>1 DEF WholeMeets
<1>4. WholeMeets(Call(type, 0, n), Within(ExpectCount(rd, type), 0, n))
  BY <1>1, <1>2, WithinGood DEF WholeMeets
<1>5. WholeMeets(Call(type, n, n), Match(ExpectCount(rd, type), n))
  <2>1. ASSUME NEW o \in Match(ExpectCount(rd, type), n), Good(o)
        PROVE  o.v = Null /\ \E q \in ExpectCount(rd, type) : Good(q) /\ q.rd = o.rd /\ q.v.num \in n .. n
    BY <1>1, <2>1, MatchGood
  <2>. QED  BY <1>2, <2>1 DEF WholeMeets
<1>. QED  BY <1>0, <1>1, <1>3, <1>4, <1>5, WholeAnswered DEF Apart

LEMMA ContainerNilAnswered ==
    ASSUME EInv, NEW type \in {"map", "array"}, NEW n \in Nat,
           \/ Whole(Call(OrNil[type], 0, Most_), ExpectOrNil(rd, type))
           \/ Whole(Call(OrNil[type], 0, n), MaxOrNil(rd, type, n))
    PROVE  EInv'
<1>0. OrNil[type] = IF type = "map" THEN "map_or_nil" ELSE "array_or_nil"  BY DEF OrNil
<1>1. Apart(OrNil[type]) /\ OrNil[type] \notin Opening  BY <1>0 DEF Apart, ReaderCalls, Opening, Lookups
<1>2. KeptAll(ExpectOrNil(rd, type), rd) /\ KeptAll(MaxOrNil(rd, type, n), rd)  BY CountsKept DEF EInv
<1>3. ASSUME NEW max \in Nat, NEW o, Good(o), At(rd, pos),
             \/ max = Most_ /\ o \in ExpectOrNil(rd, type)
             \/ o \in MaxOrNil(rd, type, max)
      PROVE  /\ WholeRead(o, pos) /\ Wants(Call(OrNil[type], 0, max), Elem(pos), BodyAt(pos), 0)
             /\ Answers(Call(OrNil[type], 0, max), Elem(pos), BodyAt(pos), o.v)
  <2>. DEFINE call == Call(OrNil[type], 0, max)
  <2>1. call.f = OrNil[type] /\ call.low = 0 /\ call.high = max  BY DEF Call
  <2>. HIDE DEF call
  <2>2. /\ WholeRead(o, pos)
        /\ \/ /\ TagType(Elem(pos)) = type /\ o.v = [some |-> TRUE, num |-> Elem(pos).n]
              /\ Elem(pos).n \in 0 .. max
           \/ TagType(Elem(pos)) = "nil" /\ o.v = [some |-> FALSE, num |-> 0]
    <3>1. CASE max = Most_ /\ o \in ExpectOrNil(rd, type)  BY <1>3, <3>1, OrNilMeets, MostIs
    <3>2. CASE o \in MaxOrNil(rd, type, max)
      <4>1. DOMAIN rd = Fields  BY DEF EInv, Fair
      <4>3. o \in ExpectOrNil(rd, type) /\ ~(o.v.some /\ o.v.num > max)  BY <1>3, <3>2, <4>1, MaxOrNilGood
      <4>4. /\ WholeRead(o, pos)
            /\ \/ /\ TagType(Elem(pos)) = type /\ o.v = [some |-> TRUE, num |-> Elem(pos).n]
                  /\ Elem(pos).n \in 0 .. Power(4) - 1
               \/ TagType(Elem(pos)) = "nil" /\ o.v = [some |-> FALSE, num |-> 0]
        BY <1>3, <4>3, OrNilMeets
      <4>5. TagType(Elem(pos)) = type /\ o.v = [some |-> TRUE, num |-> Elem(pos).n]
              /\ Elem(pos).n \in 0 .. Power(4) - 1 => Elem(pos).n \in 0 .. max
        <5>. SUFFICES ASSUME o.v = [some |-> TRUE, num |-> Elem(pos).n], Elem(pos).n \in 0 .. Power(4) - 1
                      PROVE  Elem(pos).n \in 0 .. max
          OBVIOUS
        <5>1. Elem(pos).n \in Nat /\ ~(Elem(pos).n > max)  BY <4>3, MostIs
        <5>. QED  BY <5>1
      <4>. QED  BY <4>4, <4>5
    <3>. QED  BY <1>3, <3>1, <3>2
  <2>3. Wants(call, Elem(pos), BodyAt(pos), 0)  BY <1>0, <2>1, <2>2, WantsCount DEF Bounded
  <2>4. Direct(call)  BY <1>1, <2>1 DEF Direct, Apart
  <2>5. Answers(call, Elem(pos), BodyAt(pos), o.v)
    <3>1. CASE TagType(Elem(pos)) = type /\ o.v = [some |-> TRUE, num |-> Elem(pos).n]
      <4>1. TagType(Elem(pos)) # "nil"  BY <3>1
      <4>. QED  BY <2>4, <3>1, <4>1, PlainAnswers
    <3>2. CASE TagType(Elem(pos)) = "nil" /\ o.v = [some |-> FALSE, num |-> 0]
      <4>1. TagType(Elem(pos)) = "nil" /\ o.v = [some |-> FALSE, num |-> 0]  BY <3>2
      <4>2. Answers(call, Elem(pos), BodyAt(pos), [some |-> FALSE, num |-> 0])  BY <2>4, <4>1, NilAnswers
      <4>. QED  BY <4>1, <4>2
    <3>. QED  BY <2>2, <3>1, <3>2
  <2>. QED  BY <2>2, <2>3, <2>5 DEF call
<1>4. WholeMeets(Call(OrNil[type], 0, Most_), ExpectOrNil(rd, type))  BY <1>3, MostIs DEF WholeMeets
<1>5. WholeMeets(Call(OrNil[type], 0, n), MaxOrNil(rd, type, n))  BY <1>3 DEF WholeMeets
<1>. QED  BY <1>1, <1>2, <1>4, <1>5, WholeAnswered DEF Apart

LEMMA ArrayAllocAnswered ==
    ASSUME EInv, NEW n \in Nat, NEW orNil \in BOOLEAN, NEW f, f = IF orNil THEN "array_or_nil" ELSE "array",
           Whole(Call(f, 0, n), ArrayAlloc(rd, n, orNil))
    PROVE  EInv'
<1>1. Apart(f) /\ f \notin Opening  BY DEF Apart, ReaderCalls, Opening, Lookups
<1>2. KeptAll(ArrayAlloc(rd, n, orNil), rd)  BY CountsKept DEF EInv
<1>3. ASSUME NEW o \in ArrayAlloc(rd, n, orNil), Good(o), At(rd, pos)
      PROVE  /\ WholeRead(o, pos) /\ Wants(Call(f, 0, n), Elem(pos), BodyAt(pos), 0)
             /\ Answers(Call(f, 0, n), Elem(pos), BodyAt(pos), o.v)
  <2>. DEFINE call == Call(f, 0, n)
  <2>1. call.f = f /\ call.low = 0 /\ call.high = n  BY DEF Call
  <2>. HIDE DEF call
  <2>2. /\ WholeRead(o, pos)
        /\ \/ TagType(Elem(pos)) = "array" /\ o.v = Num(Elem(pos).n) /\ Elem(pos).n \in 0 .. n
           \/ orNil /\ TagType(Elem(pos)) = "nil" /\ o.v = Num(0)
    BY <1>3, ArrayAllocGood DEF EInv
  <2>3. Direct(call)  BY <1>1, <2>1 DEF Direct, Apart
  <2>4. CASE TagType(Elem(pos)) = "array" /\ o.v = Num(Elem(pos).n) /\ Elem(pos).n \in 0 .. n
    <3>1. Wants(call, Elem(pos), BodyAt(pos), 0)  BY <2>1, <2>4, WantsCount DEF Bounded
    <3>2. Answers(call, Elem(pos), BodyAt(pos), o.v)  BY <2>3, <2>4, PlainAnswers
    <3>. QED  BY <2>2, <3>1, <3>2 DEF call
  <2>5. CASE orNil /\ TagType(Elem(pos)) = "nil" /\ o.v = Num(0)
    <3>1. Wants(call, Elem(pos), BodyAt(pos), 0)  BY <2>1, <2>5, WantsCount
    <3>2. TagType(Elem(pos)) = "nil" /\ o.v = Num(0)  BY <2>5
    <3>3. Answers(call, Elem(pos), BodyAt(pos), Num(0))  BY <2>3, <3>2, NilAnswers
    <3>. QED  BY <2>2, <3>1, <3>2, <3>3 DEF call
  <2>. QED  BY <2>2, <2>4, <2>5
<1>4. WholeMeets(Call(f, 0, n), ArrayAlloc(rd, n, orNil))  BY <1>3 DEF WholeMeets
<1>. QED  BY <1>1, <1>2, <1>4, WholeAnswered DEF Apart

LEMMA ContainerAnswered == ASSUME EInv, Container  PROVE EInv'
<1>1. PICK type \in {"map", "array"} :
         \/ Whole(Call(type, 0, Most_), ExpectCount(rd, type))
         \/ Whole(Call(OrNil[type], 0, Most_), ExpectOrNil(rd, type))
         \/ \E n \in Maxima :
               \/ Whole(Call(type, 0, n), Within(ExpectCount(rd, type), 0, n))
               \/ Whole(Call(type, n, n), Match(ExpectCount(rd, type), n))
               \/ Whole(Call(OrNil[type], 0, n), MaxOrNil(rd, type, n))
               \/ Whole(Call("array", 0, n), ArrayAlloc(rd, n, FALSE))
               \/ Whole(Call("array_or_nil", 0, n), ArrayAlloc(rd, n, TRUE))
  <2>1. DOMAIN OrNil = {"map", "array"}  BY DEF OrNil
  <2>. QED  BY <2>1 DEF Container
<1>2. \A n \in Maxima : n \in Nat  BY MaximaAssumption
<1>3. 0 \in Nat  OBVIOUS
<1>4. ASSUME NEW n \in Nat, \/ Whole(Call("array", 0, n), ArrayAlloc(rd, n, FALSE))
                            \/ Whole(Call("array_or_nil", 0, n), ArrayAlloc(rd, n, TRUE))
      PROVE  EInv'
  BY <1>4, ArrayAllocAnswered
<1>. QED  BY <1>1, <1>2, <1>3, <1>4, ContainerCountAnswered, ContainerNilAnswered

-----------------------------------------------------------------------------
(* The heads of strings, blobs and exts *)

(* A head that is read, and what is answered of it *)
HeadTold(o, type) ==
    /\ HeadRead(o, pos) /\ TagType(Elem(pos)) = type
    /\ o.v = Num(Elem(pos).n) \/ o.v = [num |-> Elem(pos).n, exttype |-> Elem(pos).exttype]
Tells(outcomes, type) == \A o \in outcomes : Good(o) /\ At(rd, pos) => HeadTold(o, type)

LEMMA HeadsTold ==
    /\ Tells(ExpectStr(rd), "str") /\ Tells(ExpectCount(rd, "bin"), "bin") /\ Tells(ExpectExt(rd), "ext")
BY ExpectStrGood, ExpectCountGood, ExpectExtGood DEF Tells, HeadTold

LEMMA HeadMet ==
    ASSUME At(rd, pos), NEW type \in Holding, NEW o, HeadTold(o, type)
    PROVE  /\ HeadRead(o, pos) /\ TagType(Elem(pos)) = type /\ o.v.num = Elem(pos).n
           /\ Elem(pos).n \in 0 .. Most_ /\ Most_ \in Nat /\ HeadKnown(o, pos)
           /\ \A call : Direct(call) => Answers(call, Elem(pos), BodyAt(pos), o.v)
<1>1. HeadRead(o, pos) /\ TagType(Elem(pos)) = type  BY DEF HeadTold
<1>2. o.v = Num(Elem(pos).n) \/ o.v = [num |-> Elem(pos).n, exttype |-> Elem(pos).exttype]  BY DEF HeadTold
<1>3. o.v.num = Elem(pos).n  BY <1>2 DEF Num
<1>4. Elem(pos).n \in 0 .. Most_ /\ Most_ \in Nat
  BY <1>1, MostIs, ElemNumber DEF At, HeadRead, Counted, Holding
<1>5. TagType(Elem(pos)) # "nil"  BY <1>1 DEF Holding
<1>6. \A call : Direct(call) => Answers(call, Elem(pos), BodyAt(pos), o.v)  BY <1>2, <1>5, PlainAnswers
<1>. QED  BY <1>1, <1>3, <1>4, <1>6 DEF HeadKnown

LEMMA HeadsKept ==
    ASSUME Fair(rd), NEW n
    PROVE  /\ KeptAll(ExpectStr(rd), rd) /\ KeptAll(ExpectCount(rd, "bin"), rd) /\ KeptAll(ExpectExt(rd), rd)
           /\ KeptAll(ExtSize(rd, n), rd)
BY ExpectStrKept, ExpectCountKept, ExpectExtKept DEF Fair

Limited(type) == IF type = "str" THEN "str_max" ELSE IF type = "bin" THEN "bin" ELSE "ext_max"

LEMMA HeadAnswered ==
    ASSUME EInv, NEW type \in Holding, NEW S, KeptAll(S, rd), Tells(S, type), NEW n \in Nat, NEW e, e # "ok",
           \/ Open(Call(type, 0, Most_), S)
           \/ Open(Call(Limited(type), 0, n), AtMost(S, n, e))
           \/ Open(Call(type, n, n), Match(S, n))
    PROVE  EInv'
<1>0. Apart(type) /\ Apart(Limited(type)) /\ type \in Counted
  BY DEF Apart, ReaderCalls, Lookups, Counted, Holding, Limited
<1>1. KeptAll(AtMost(S, n, e), rd) /\ KeptAll(Match(S, n), rd)  BY ChecksKept
<1>2. ASSUME NEW o \in S, Good(o), At(rd, pos)
      PROVE  /\ HeadRead(o, pos) /\ TagType(Elem(pos)) = type /\ o.v.num = Elem(pos).n
             /\ Elem(pos).n \in 0 .. Most_ /\ Most_ \in Nat
             /\ \A call : Direct(call) => Answers(call, Elem(pos), BodyAt(pos), o.v)
  BY <1>2, HeadMet DEF Tells
<1>3. HeadMeets(Call(type, 0, Most_), S)
  <2>. DEFINE call == Call(type, 0, Most_)
  <2>1. call.f = type /\ call.low = 0 /\ call.high = Most_  BY DEF Call
  <2>. HIDE DEF call
  <2>2. Direct(call)  BY <1>0, <2>1 DEF Direct, Apart
  <2>3. ASSUME NEW o \in S, Good(o), At(rd, pos)
        PROVE  /\ HeadRead(o, pos) /\ Wants(call, Elem(pos), BodyAt(pos), Contents(Elem(pos)))
               /\ Answers(call, Elem(pos), BodyAt(pos), o.v)
    BY <1>0, <1>2, <2>1, <2>2, <2>3, CountWanted
  <2>. QED  BY <2>3 DEF HeadMeets, call
<1>4. HeadMeets(Call(Limited(type), 0, n), AtMost(S, n, e))
  <2>. DEFINE call == Call(Limited(type), 0, n)
  <2>1. call.f = Limited(type) /\ call.low = 0 /\ call.high = n  BY DEF Call
  <2>. HIDE DEF call
  <2>2. Direct(call)  BY <1>0, <2>1 DEF Direct, Apart
  <2>3. ASSUME NEW o \in AtMost(S, n, e), Good(o), At(rd, pos)
        PROVE  /\ HeadRead(o, pos) /\ Wants(call, Elem(pos), BodyAt(pos), Contents(Elem(pos)))
               /\ Answers(call, Elem(pos), BodyAt(pos), o.v)
    <3>1. o \in S /\ ~(o.v.num > n)  BY <2>3, AtMostGood
    <3>2. /\ HeadRead(o, pos) /\ TagType(Elem(pos)) = type /\ o.v.num = Elem(pos).n /\ Elem(pos).n \in Nat
          /\ Answers(call, Elem(pos), BodyAt(pos), o.v)
      BY <1>2, <2>2, <2>3, <3>1
    <3>3. Elem(pos).n \in 0 .. n  BY <3>1, <3>2
    <3>4. Bounded(call, Elem(pos))  BY <2>1, <3>3 DEF Bounded
    <3>5. Wants(call, Elem(pos), BodyAt(pos), Contents(Elem(pos)))
      BY <2>1, <3>2, <3>4, WantsCount DEF Limited, Holding
    <3>. QED  BY <3>2, <3>5
  <2>. QED  BY <2>3 DEF HeadMeets, call
<1>5. HeadMeets(Call(type, n, n), Match(S, n))
  <2>. DEFINE call == Call(type, n, n)
  <2>1. call.f = type /\ call.low = n /\ call.high = n  BY DEF Call
  <2>. HIDE DEF call
  <2>3. ASSUME NEW o \in Match(S, n), Good(o), At(rd, pos)
        PROVE  /\ HeadRead(o, pos) /\ Wants(call, Elem(pos), BodyAt(pos), Contents(Elem(pos)))
               /\ Answers(call, Elem(pos), BodyAt(pos), o.v)
    <3>1. o.v = Null /\ \E q \in S : Good(q) /\ q.rd = o.rd /\ q.v.num = n  BY <2>3, MatchGood
    <3>2. PICK q \in S : Good(q) /\ q.rd = o.rd /\ q.v.num = n  BY <3>1
    <3>3. HeadRead(q, pos) /\ TagType(Elem(pos)) = type /\ Elem(pos).n = n  BY <1>2, <2>3, <3>2
    <3>4. HeadRead(o, pos)  BY <3>2, <3>3 DEF HeadRead, Passed
    <3>5. Elem(pos).n \in n .. n  BY <3>3
    <3>6. Wants(call, Elem(pos), BodyAt(pos), Contents(Elem(pos)))
      BY <1>0, <2>1, <3>3, <3>5, CountWanted
    <3>. QED  BY <3>1, <3>4, <3>6, AnswersForms
  <2>. QED  BY <2>3 DEF HeadMeets, call
<1>. QED  BY <1>0, <1>1, <1>3, <1>4, <1>5, OpenAnswered DEF Apart

LEMMA ExtSizeAnswered ==
    ASSUME EInv, NEW n \in Nat, Open(Call("ext", n, n), ExtSize(rd, n))
    PROVE  EInv'
<1>. DEFINE call == Call("ext", n, n)
<1>1. call.f = "ext" /\ call.low = n /\ call.high = n  BY DEF Call
<1>. HIDE DEF call
<1>2. KeptAll(ExpectExt(rd), rd) /\ KeptAll(ExtSize(rd, n), rd)  BY HeadsKept DEF EInv
<1>3. ASSUME NEW o \in ExtSize(rd, n), Good(o), At(rd, pos)
      PROVE  /\ HeadRead(o, pos) /\ Wants(call, Elem(pos), BodyAt(pos), Contents(Elem(pos)))
             /\ Answers(call, Elem(pos), BodyAt(pos), o.v)
  <2>1. PICK q \in ExpectExt(rd) : o = IF q.v.num # n THEN Refused(q, [exttype |-> 0])
                                       ELSE Out(q.rd, [exttype |-> q.v.exttype])
    BY <1>3 DEF ExtSize
  <2>2. ~Good(Refused(q, [exttype |-> 0]))  BY <1>2, BadOutcomes
  <2>3. q.v.num = n /\ o.rd = q.rd /\ o.v = [exttype |-> q.v.exttype] /\ Good(q)
    BY <1>3, <2>1, <2>2 DEF Out, Good
  <2>4. /\ HeadRead(q, pos) /\ q.v = [num |-> Elem(pos).n, exttype |-> Elem(pos).exttype]
        /\ TagType(Elem(pos)) = "ext"
    BY <1>3, <2>3, ExpectExtGood
  <2>5. HeadRead(o, pos)  BY <2>3, <2>4 DEF HeadRead, Passed
  <2>6. Elem(pos).n \in n .. n  BY <2>3, <2>4
  <2>7. Wants(call, Elem(pos), BodyAt(pos), Contents(Elem(pos)))
    BY <1>1, <2>4, <2>6, CountWanted DEF Counted
  <2>8. o.v = [exttype |-> Elem(pos).exttype]  BY <2>3, <2>4
  <2>9. Answers(call, Elem(pos), BodyAt(pos), o.v)  BY <2>8 DEF Answers
  <2>. QED  BY <2>5, <2>7, <2>9
<1>4. HeadMeets(Call("ext", n, n), ExtSize(rd, n))  BY <1>3 DEF HeadMeets, call
<1>5. "ext" \notin ReaderCalls /\ "ext" # "str_match"  BY DEF ReaderCalls
<1>. QED  BY <1>2, <1>4, <1>5, OpenAnswered

LEMMA TagAnswered ==
    ASSUME EInv, NEW i, Open(Call("tag", i, i), ExpectTag(rd, Heads[i]))
    PROVE  EInv'
<1>. DEFINE call == Call("tag", i, i)
<1>1. call.f = "tag" /\ call.low = i  BY DEF Call
<1>. HIDE DEF call
<1>2. KeptAll(ExpectTag(rd, Heads[i]), rd)  BY ExpectTagKept DEF EInv, Fair
<1>3. ASSUME NEW o \in ExpectTag(rd, Heads[i]), Good(o), At(rd, pos)
      PROVE  /\ HeadRead(o, pos) /\ Wants(call, Elem(pos), BodyAt(pos), Contents(Elem(pos)))
             /\ Answers(call, Elem(pos), BodyAt(pos), o.v)
  <2>1. HeadRead(o, pos) /\ o.v = Null /\ TagEqual(Heads[i], Elem(pos))  BY <1>3, ExpectTagGood
  <2>2. Wants(call, Elem(pos), BodyAt(pos), Contents(Elem(pos)))  BY <1>1, <2>1, WantsCount
  <2>. QED  BY <2>1, <2>2, AnswersForms
<1>4. HeadMeets(Call("tag", i, i), ExpectTag(rd, Heads[i]))  BY <1>3 DEF HeadMeets, call
<1>5. "tag" \notin ReaderCalls /\ "tag" # "str_match"  BY DEF ReaderCalls
<1>. QED  BY <1>2, <1>4, <1>5, OpenAnswered

LEMMA OpeningAnswered == ASSUME EInv, Head_  PROVE EInv'
<1>1. /\ KeptAll(ExpectStr(rd), rd) /\ KeptAll(ExpectCount(rd, "bin"), rd) /\ KeptAll(ExpectExt(rd), rd)
  BY HeadsKept DEF EInv
<1>2. "str" \in Holding /\ "bin" \in Holding /\ "ext" \in Holding  BY DEF Holding
<1>3. Limited("str") = "str_max" /\ Limited("bin") = "bin" /\ Limited("ext") = "ext_max"  BY DEF Limited
<1>4. 0 \in Nat /\ "type" # "ok" /\ "too_big" # "ok" /\ \A n \in Maxima : n \in Nat  BY MaximaAssumption
<1>5. ASSUME NEW n \in Nat,
             \/ Open(Call("str", 0, Most_), ExpectStr(rd))
             \/ Open(Call("str_max", 0, n), AtMost(ExpectStr(rd), n, "too_big"))
             \/ Open(Call("str", n, n), Match(ExpectStr(rd), n))
      PROVE  EInv'
  <2>1. Tells(ExpectStr(rd), "str")  BY HeadsTold
  <2>. QED  BY <1>1, <1>2, <1>3, <1>4, <1>5, <2>1, HeadAnswered
<1>6. ASSUME NEW n \in Nat,
             \/ Open(Call("bin", 0, Most_), ExpectCount(rd, "bin"))
             \/ Open(Call("bin", 0, n), AtMost(ExpectCount(rd, "bin"), n, "type"))
             \/ Open(Call("bin", n, n), Match(ExpectCount(rd, "bin"), n))
      PROVE  EInv'
  <2>1. Tells(ExpectCount(rd, "bin"), "bin")  BY HeadsTold
  <2>. QED  BY <1>1, <1>2, <1>3, <1>4, <1>6, <2>1, HeadAnswered
<1>7. ASSUME NEW n \in Nat,
             \/ Open(Call("ext", 0, Most_), ExpectExt(rd))
             \/ Open(Call("ext_max", 0, n), AtMost(ExpectExt(rd), n, "type"))
      PROVE  EInv'
  <2>1. Tells(ExpectExt(rd), "ext")  BY HeadsTold
  <2>. QED  BY <1>1, <1>2, <1>3, <1>4, <1>7, <2>1, HeadAnswered
<1>8. \/ Open(Call("str", 0, Most_), ExpectStr(rd))
      \/ Open(Call("bin", 0, Most_), ExpectCount(rd, "bin"))
      \/ Open(Call("ext", 0, Most_), ExpectExt(rd))
      \/ \E n \in Maxima : \/ Open(Call("str_max", 0, n), AtMost(ExpectStr(rd), n, "too_big"))
                           \/ Open(Call("bin", 0, n), AtMost(ExpectCount(rd, "bin"), n, "type"))
                           \/ Open(Call("ext_max", 0, n), AtMost(ExpectExt(rd), n, "type"))
                           \/ Open(Call("str", n, n), Match(ExpectStr(rd), n))
                           \/ Open(Call("bin", n, n), Match(ExpectCount(rd, "bin"), n))
                           \/ Open(Call("ext", n, n), ExtSize(rd, n))
      \/ \E i \in DOMAIN Heads : Open(Call("tag", i, i), ExpectTag(rd, Heads[i]))
  BY DEF Head_
<1>. QED  BY <1>4, <1>5, <1>6, <1>7, <1>8, ExtSizeAnswered, TagAnswered

-----------------------------------------------------------------------------
(* Bytes *)

LEMMA BodyWhole ==
    ASSUME NEW p, Starts(p), NEW o, WholeRead(o, p), TagType(Elem(p)) \in Holding
    PROVE  /\ SubSeq(BodyAt(p), 1, Elem(p).n) = BodyAt(p)
           /\ Elem(p).n \in Nat /\ Elem(p).n = Contents(Elem(p))
<1>. DEFINE q == p + Size(p)
            n == Contents(Elem(p))
<1>1. stream \in Seq(Cell)  BY StreamCells DEF Starts
<1>2. n \in Nat /\ q \in Nat /\ n = Elem(p).n  BY ElemContents DEF WholeRead
<1>3. q + n <= Len(stream)
  <2>1. Stands(o.rd, q + n)  BY DEF WholeRead, Passed
  <2>. HIDE DEF q, n
  <2>2. PICK a \in Nat, b \in Nat, c \in Nat : a = o.rd.data /\ b = o.rd.end /\ c = o.rd.drawn  BY <2>1 DEF Stands
  <2>3. q + n + (b - a) = c /\ a <= b /\ c <= Len(stream)  BY <2>1, <2>2 DEF Stands
  <2>4. PICK x \in Nat, y \in Nat, l \in Nat : x = q /\ y = n /\ l = Len(stream)  BY <1>1, <1>2
  <2>. QED  BY <2>2, <2>3, <2>4
<1>4. BodyAt(p) = SubSeq(stream, q + 1, q + n)  BY <1>3 DEF BodyAt
<1>. HIDE DEF q, n
<1>5. SubSeq(stream, q + 1, q + n) \in Seq(Cell) /\ Len(SubSeq(stream, q + 1, q + n)) = n  BY <1>1, <1>2, <1>3, Part
<1>. DEFINE b == SubSeq(stream, q + 1, q + n)
<1>. HIDE DEF b
<1>6. b \in Seq(Cell) /\ Len(b) = n  BY <1>5 DEF b
<1>7. SubSeq(b, 1, n) = b  BY <1>2, <1>6
<1>. QED  BY <1>2, <1>4, <1>7 DEF b, n

(* The bytes of an element, as they are, or in front of others *)
LEMMA BytesAnswered ==
    ASSUME NEW call, NEW p, NEW b, SubSeq(b, 1, Elem(p).n) = BodyAt(p)
    PROVE  /\ Answers(call, Elem(p), BodyAt(p), [bytes |-> b])
           /\ Answers(call, Elem(p), BodyAt(p), [bytes |-> b, exttype |-> Elem(p).exttype])
           /\ Answers(call, Elem(p), BodyAt(p), [exttype |-> Elem(p).exttype, bytes |-> b])
BY DEF Answers

LEMMA BufferedAnswered ==
    ASSUME EInv, NEW n,
           \/ Whole(Call("str_buf", 0, n), Buffered(ExpectStr(rd), n))
           \/ Whole(Call("utf8", 0, n), BufferedUtf8(ExpectStr(rd), n))
           \/ Whole(Call("bin_buf", 0, n), Buffered(ExpectCount(rd, "bin"), n))
           \/ Whole(Call("ext_buf", 0, n), ExtBuf(rd, n))
    PROVE  EInv'
<1>1. /\ "str_buf" \notin ReaderCalls \cup Opening /\ "utf8" \notin ReaderCalls \cup Opening
      /\ "bin_buf" \notin ReaderCalls \cup Opening /\ "ext_buf" \notin ReaderCalls \cup Opening
  BY DEF ReaderCalls, Opening
<1>2. KeptAll(ExpectStr(rd), rd) /\ KeptAll(ExpectCount(rd, "bin"), rd)  BY HeadsKept DEF EInv
<1>3. /\ KeptAll(Buffered(ExpectStr(rd), n), rd) /\ KeptAll(BufferedUtf8(ExpectStr(rd), n), rd)
      /\ KeptAll(Buffered(ExpectCount(rd, "bin"), n), rd) /\ KeptAll(ExtBuf(rd, n), rd)
  BY <1>2, BufferedKept, BufferedUtf8Kept, ExtBufKept DEF EInv, Fair
<1>4. ASSUME NEW f, NEW o, At(rd, pos), WholeRead(o, pos), o.v = [bytes |-> BodyAt(pos)],
             \/ f = "str_buf" /\ TagType(Elem(pos)) = "str"
             \/ f = "utf8" /\ TagType(Elem(pos)) = "str" /\ IsUtf8(BodyAt(pos))
             \/ f = "bin_buf" /\ TagType(Elem(pos)) = "bin"
      PROVE  /\ WholeRead(o, pos) /\ Wants(Call(f, 0, n), Elem(pos), BodyAt(pos), 0)
             /\ Answers(Call(f, 0, n), Elem(pos), BodyAt(pos), o.v)
  <2>. DEFINE call == Call(f, 0, n)
  <2>1. call.f = f  BY DEF Call
  <2>. HIDE DEF call
  <2>2. SubSeq(BodyAt(pos), 1, Elem(pos).n) = BodyAt(pos)  BY <1>4, BodyWhole DEF At, Holding
  <2>3. Answers(call, Elem(pos), BodyAt(pos), o.v)  BY <1>4, <2>2, BytesAnswered
  <2>4. Wants(call, Elem(pos), BodyAt(pos), 0)
    <3>1. CASE f = "str_buf" /\ TagType(Elem(pos)) = "str"  BY <2>1, <3>1, WantsCount
    <3>2. CASE f = "utf8" /\ TagType(Elem(pos)) = "str" /\ IsUtf8(BodyAt(pos))  BY <2>1, <3>2, WantsText DEF Valid
    <3>3. CASE f = "bin_buf" /\ TagType(Elem(pos)) = "bin"  BY <2>1, <3>3, WantsCount
    <3>. QED  BY <1>4, <3>1, <3>2, <3>3
  <2>. QED  BY <1>4, <2>3, <2>4 DEF call
<1>5. ASSUME At(rd, pos)
      PROVE  /\ \A q \in ExpectStr(rd) : Good(q) => HeadKnown(q, pos) /\ TagType(Elem(pos)) = "str"
             /\ \A q \in ExpectCount(rd, "bin") : Good(q) => HeadKnown(q, pos) /\ TagType(Elem(pos)) = "bin"
  BY <1>5, HeadsTold, HeadMet DEF Tells, Holding
<1>6. WholeMeets(Call("str_buf", 0, n), Buffered(ExpectStr(rd), n))
  <2>1. ASSUME NEW o \in Buffered(ExpectStr(rd), n), Good(o), At(rd, pos)
        PROVE  WholeRead(o, pos) /\ o.v = [bytes |-> BodyAt(pos)] /\ TagType(Elem(pos)) = "str"
    BY <1>2, <1>5, <2>1, BufferedGood
  <2>. QED  BY <1>4, <2>1 DEF WholeMeets
<1>7. WholeMeets(Call("utf8", 0, n), BufferedUtf8(ExpectStr(rd), n))
  <2>1. ASSUME NEW o \in BufferedUtf8(ExpectStr(rd), n), Good(o), At(rd, pos)
        PROVE  /\ WholeRead(o, pos) /\ o.v = [bytes |-> BodyAt(pos)] /\ TagType(Elem(pos)) = "str"
               /\ IsUtf8(BodyAt(pos))
    BY <1>2, <1>5, <2>1, BufferedUtf8Good
  <2>. QED  BY <1>4, <2>1 DEF WholeMeets
<1>8. WholeMeets(Call("bin_buf", 0, n), Buffered(ExpectCount(rd, "bin"), n))
  <2>1. ASSUME NEW o \in Buffered(ExpectCount(rd, "bin"), n), Good(o), At(rd, pos)
        PROVE  WholeRead(o, pos) /\ o.v = [bytes |-> BodyAt(pos)] /\ TagType(Elem(pos)) = "bin"
    BY <1>2, <1>5, <2>1, BufferedGood
  <2>. QED  BY <1>4, <2>1 DEF WholeMeets
<1>9. WholeMeets(Call("ext_buf", 0, n), ExtBuf(rd, n))
  <2>. DEFINE call == Call("ext_buf", 0, n)
  <2>1. call.f = "ext_buf"  BY DEF Call
  <2>. HIDE DEF call
  <2>2. ASSUME NEW o \in ExtBuf(rd, n), Good(o), At(rd, pos)
        PROVE  /\ WholeRead(o, pos) /\ Wants(call, Elem(pos), BodyAt(pos), 0)
               /\ Answers(call, Elem(pos), BodyAt(pos), o.v)
    <3>1. /\ WholeRead(o, pos) /\ o.v = [bytes |-> BodyAt(pos), exttype |-> Elem(pos).exttype]
          /\ TagType(Elem(pos)) = "ext"
      BY <2>2, ExtBufGood
    <3>2. SubSeq(BodyAt(pos), 1, Elem(pos).n) = BodyAt(pos)  BY <2>2, <3>1, BodyWhole DEF At, Holding
    <3>3. Wants(call, Elem(pos), BodyAt(pos), 0)  BY <2>1, <3>1, WantsCount
    <3>4. Answers(call, Elem(pos), BodyAt(pos), o.v)  BY <3>1, <3>2, BytesAnswered
    <3>. QED  BY <3>1, <3>3, <3>4
  <2>. QED  BY <2>2 DEF WholeMeets, call
<1>. QED  BY <1>1, <1>3, <1>6, <1>7, <1>8, <1>9, WholeAnswered

LEMMA CstrAnswered ==
    ASSUME EInv, NEW n \in Nat, NEW utf8 \in BOOLEAN, NEW f, f = IF utf8 THEN "utf8_cstr" ELSE "cstr",
           \/ Whole(Call(f, 0, n), ExpectCstr(rd, n, utf8))
           \/ Whole(Call(f, 0, n), CstrAlloc(rd, n, utf8))
    PROVE  EInv'
<1>1. f \notin ReaderCalls /\ f \notin Opening /\ f # "str_match"  BY DEF ReaderCalls, Opening
<1>2. KeptAll(ExpectCstr(rd, n, utf8), rd) /\ KeptAll(CstrAlloc(rd, n, utf8), rd)
  BY ExpectCstrKept, CstrAllocKept DEF EInv, Fair
<1>. DEFINE call == Call(f, 0, n)
<1>3. call.f = f  BY DEF Call
<1>. HIDE DEF call
<1>4. ASSUME NEW o, Good(o), At(rd, pos), o \in ExpectCstr(rd, n, utf8) \/ o \in CstrAlloc(rd, n, utf8)
      PROVE  /\ WholeRead(o, pos) /\ Wants(call, Elem(pos), BodyAt(pos), 0)
             /\ Answers(call, Elem(pos), BodyAt(pos), o.v)
  <2>1. /\ WholeRead(o, pos) /\ TagType(Elem(pos)) = "str"
        /\ \E b : o.v = [bytes |-> b] /\ SubSeq(b, 1, Elem(pos).n) = BodyAt(pos)
        /\ Valid(BodyAt(pos), utf8, TRUE)
    <3>1. CASE o \in ExpectCstr(rd, n, utf8)  BY <1>4, <3>1, ExpectCstrGood
    <3>2. CASE o \in CstrAlloc(rd, n, utf8)  BY <1>4, <3>2, CstrAllocGood DEF EInv
    <3>. QED  BY <1>4, <3>1, <3>2
  <2>2. PICK b : o.v = [bytes |-> b] /\ SubSeq(b, 1, Elem(pos).n) = BodyAt(pos)  BY <2>1
  <2>3. Answers(call, Elem(pos), BodyAt(pos), o.v)  BY <2>2, BytesAnswered
  <2>4. Wants(call, Elem(pos), BodyAt(pos), 0)
    <3>1. Valid(BodyAt(pos), f # "cstr", f # "utf8")  BY <2>1 DEF Valid
    <3>. QED  BY <1>3, <2>1, <3>1, WantsText
  <2>. QED  BY <2>1, <2>3, <2>4
<1>5. WholeMeets(Call(f, 0, n), ExpectCstr(rd, n, utf8))  BY <1>4 DEF WholeMeets, call
<1>6. WholeMeets(Call(f, 0, n), CstrAlloc(rd, n, utf8))  BY <1>4 DEF WholeMeets, call
<1>. QED  BY <1>1, <1>2, <1>5, <1>6, WholeAnswered

LEMMA AllocAnswered ==
    ASSUME EInv, NEW n \in Nat,
           \/ Whole(Call("bin_alloc", 0, n), BinAlloc(rd, n))
           \/ Whole(Call("ext_alloc", 0, n), ExtAlloc(rd, n))
    PROVE  EInv'
<1>1. /\ "bin_alloc" \notin ReaderCalls \cup Opening /\ "ext_alloc" \notin ReaderCalls \cup Opening
      /\ "bin_alloc" # "str_match" /\ "ext_alloc" # "str_match"
  BY DEF ReaderCalls, Opening
<1>2. KeptAll(BinAlloc(rd, n), rd) /\ KeptAll(ExtAlloc(rd, n), rd)  BY BinAllocKept, ExtAllocKept DEF EInv
<1>3. ASSUME NEW p, Starts(p), NEW o, WholeRead(o, p), TagType(Elem(p)) \in Holding, ~(Elem(p).n > n)
      PROVE  Elem(p).n \in 0 .. n
  <2>1. Elem(p).n \in Nat  BY <1>3, BodyWhole
  <2>. QED  BY <1>3, <2>1
<1>4. WholeMeets(Call("bin_alloc", 0, n), BinAlloc(rd, n))
  <2>. DEFINE call == Call("bin_alloc", 0, n)
  <2>1. call.f = "bin_alloc" /\ call.low = 0 /\ call.high = n  BY DEF Call
  <2>. HIDE DEF call
  <2>2. ASSUME NEW o \in BinAlloc(rd, n), Good(o), At(rd, pos)
        PROVE  /\ WholeRead(o, pos) /\ Wants(call, Elem(pos), BodyAt(pos), 0)
               /\ Answers(call, Elem(pos), BodyAt(pos), o.v)
    <3>1. /\ WholeRead(o, pos) /\ TagType(Elem(pos)) = "bin" /\ ~(Elem(pos).n > n)
          /\ o.v # Null => \E b : o.v = [bytes |-> b] /\ SubSeq(b, 1, Elem(pos).n) = BodyAt(pos)
      BY <2>2, BinAllocGood DEF EInv
    <3>2. Elem(pos).n \in 0 .. n  BY <1>3, <2>2, <3>1 DEF At, Holding
    <3>3. Wants(call, Elem(pos), BodyAt(pos), 0)  BY <2>1, <3>1, <3>2, WantsCount DEF Bounded
    <3>4. Answers(call, Elem(pos), BodyAt(pos), o.v)
      <4>1. CASE o.v = Null  BY <4>1, AnswersForms
      <4>2. CASE o.v # Null
        <5>1. PICK b : o.v = [bytes |-> b] /\ SubSeq(b, 1, Elem(pos).n) = BodyAt(pos)  BY <3>1, <4>2
        <5>. QED  BY <5>1, BytesAnswered
      <4>. QED  BY <4>1, <4>2
    <3>. QED  BY <3>1, <3>3, <3>4
  <2>. QED  BY <2>2 DEF WholeMeets, call
<1>5. WholeMeets(Call("ext_alloc", 0, n), ExtAlloc(rd, n))
  <2>. DEFINE call == Call("ext_alloc", 0, n)
  <2>1. call.f = "ext_alloc" /\ call.low = 0 /\ call.high = n  BY DEF Call
  <2>. HIDE DEF call
  <2>2. ASSUME NEW o \in ExtAlloc(rd, n), Good(o), At(rd, pos)
        PROVE  /\ WholeRead(o, pos) /\ Wants(call, Elem(pos), BodyAt(pos), 0)
               /\ Answers(call, Elem(pos), BodyAt(pos), o.v)
    <3>1. /\ WholeRead(o, pos) /\ TagType(Elem(pos)) = "ext" /\ ~(Elem(pos).n > n)
          /\ \/ o.v = [exttype |-> 0]
             \/ \E b : /\ o.v = [exttype |-> Elem(pos).exttype, bytes |-> b]
                       /\ SubSeq(b, 1, Elem(pos).n) = BodyAt(pos)
      BY <2>2, ExtAllocGood DEF EInv
    <3>2. Elem(pos).n \in 0 .. n  BY <1>3, <2>2, <3>1 DEF At, Holding
    <3>3. Wants(call, Elem(pos), BodyAt(pos), 0)  BY <2>1, <3>1, <3>2, WantsCount DEF Bounded
    <3>4. Answers(call, Elem(pos), BodyAt(pos), o.v)
      <4>1. CASE o.v = [exttype |-> 0]  BY <2>1, <4>1 DEF Answers
      <4>2. CASE o.v # [exttype |-> 0]
        <5>1. PICK b : /\ o.v = [exttype |-> Elem(pos).exttype, bytes |-> b]
                       /\ SubSeq(b, 1, Elem(pos).n) = BodyAt(pos)
          BY <3>1, <4>2
        <5>. QED  BY <5>1, BytesAnswered
      <4>. QED  BY <4>1, <4>2
    <3>. QED  BY <3>1, <3>3, <3>4
  <2>. QED  BY <2>2 DEF WholeMeets, call
<1>. QED  BY <1>1, <1>2, <1>4, <1>5, WholeAnswered

LEMMA AllBytesAnswered == ASSUME EInv, Bytes  PROVE EInv'
<1>1. PICK n \in Maxima :
         \/ Whole(Call("str_buf", 0, n), Buffered(ExpectStr(rd), n))
         \/ Whole(Call("utf8", 0, n), BufferedUtf8(ExpectStr(rd), n))
         \/ Whole(Call("bin_buf", 0, n), Buffered(ExpectCount(rd, "bin"), n))
         \/ Whole(Call("ext_buf", 0, n), ExtBuf(rd, n))
         \/ \E utf8 \in BOOLEAN :
               LET f == IF utf8 THEN "utf8_cstr" ELSE "cstr"
               IN  \/ n > 0 /\ Whole(Call(f, 0, n), ExpectCstr(rd, n, utf8))
                   \/ Whole(Call(f, 0, n), CstrAlloc(rd, n, utf8))
         \/ Whole(Call("bin_alloc", 0, n), BinAlloc(rd, n))
         \/ Whole(Call("ext_alloc", 0, n), ExtAlloc(rd, n))
  BY DEF Bytes
<1>2. n \in Nat  BY MaximaAssumption
<1>3. ASSUME NEW utf8 \in BOOLEAN,
             LET f == IF utf8 THEN "utf8_cstr" ELSE "cstr"
             IN  \/ n > 0 /\ Whole(Call(f, 0, n), ExpectCstr(rd, n, utf8))
                 \/ Whole(Call(f, 0, n), CstrAlloc(rd, n, utf8))
      PROVE  EInv'
  BY <1>2, <1>3, CstrAnswered
<1>. QED  BY <1>1, <1>2, <1>3, BufferedAnswered, AllocAnswered

-----------------------------------------------------------------------------
(* Names, enums and keys *)

LEMMA LookupNumber ==
    ASSUME NEW call, call.f \in Lookups, NEW e, NEW body, NEW n
    PROVE  /\ n < Count /\ TagType(e) = "str" /\ Names[n + 1] = body => AnswersNumber(call, e, body, n)
           /\ ~(n < Count) /\ (TagType(e) = "str" => \A i \in 1 .. Count : body # Names[i])
                => AnswersNumber(call, e, body, n)
BY DEF AnswersNumber, Lookups

LEMMA IndexAnswered ==
    ASSUME NEW call, call.f \in Lookups, NEW e, NEW body
    PROVE  /\ TagType(e) = "str" => AnswersNumber(call, e, body, IndexOf(body))
           /\ TagType(e) # "str" => AnswersNumber(call, e, body, Count)
<1>. DEFINE n == IndexOf(body)
<1>1. /\ n \in 0 .. Count /\ Count \in Nat /\ (n < Count => Names[n + 1] = body)
      /\ n = Count => \A i \in 1 .. Count : body # Names[i]
  BY IndexOfIs
<1>. HIDE DEF n
<1>2. n < Count \/ n = Count  BY <1>1
<1>3. ~(Count < Count)  BY <1>1
<1>4. TagType(e) # "str" => AnswersNumber(call, e, body, Count)  BY <1>3, LookupNumber
<1>5. TagType(e) = "str" => AnswersNumber(call, e, body, n)
  <2>1. CASE n < Count  BY <1>1, <2>1, LookupNumber
  <2>2. CASE n = Count  BY <1>1, <1>3, <2>2, LookupNumber
  <2>. QED  BY <1>2, <2>1, <2>2
<1>. QED  BY <1>4, <1>5 DEF n

LEMMA LookedAnswers ==
    ASSUME NEW call, call.f \in Lookups, NEW o, Looked(o, pos)
    PROVE  WholeRead(o, pos) /\ Answers(call, Elem(pos), BodyAt(pos), o.v)
<1>1. PICK n : /\ o.v.num = n
               /\ \/ TagType(Elem(pos)) = "str" /\ n = IndexOf(BodyAt(pos)) /\ o.v \in {Num(n), [num |-> n, marked |-> n]}
                  \/ TagType(Elem(pos)) # "str" /\ n = Count /\ \E k : o.v = [num |-> n, inside |-> k]
  BY DEF Looked
<1>2. AnswersNumber(call, Elem(pos), BodyAt(pos), n)
  <2>1. CASE TagType(Elem(pos)) = "str" /\ n = IndexOf(BodyAt(pos))  BY <2>1, IndexAnswered
  <2>2. CASE TagType(Elem(pos)) # "str" /\ n = Count  BY <2>2, IndexAnswered
  <2>. QED  BY <1>1, <2>1, <2>2
<1>3. Answers(call, Elem(pos), BodyAt(pos), o.v)  BY <1>1, <1>2, AnswersForms
<1>. QED  BY <1>3 DEF Looked

LEMMA LookupAnswered ==
    ASSUME EInv, \/ Whole(Call("enum", 0, 0), ExpectEnum(rd))
                 \/ Whole(Call("enum_optional", 0, 0), EnumOptional(rd))
                 \/ Keyed(Call("key_cstr", 0, Count), KeyCstr(rd))
    PROVE  EInv'
<1>1. /\ "enum" \notin ReaderCalls \cup Opening /\ "enum_optional" \notin ReaderCalls \cup Opening
      /\ "key_cstr" \notin ReaderCalls \cup Opening
  BY DEF ReaderCalls, Opening
<1>2. KeptAll(ExpectEnum(rd), rd) /\ KeptAll(EnumOptional(rd), rd) /\ KeptAll(KeyCstr(rd), rd)
  BY ExpectEnumKept, EnumOptionalKept, KeyCstrKept DEF EInv, Fair
<1>3. WholeMeets(Call("enum", 0, 0), ExpectEnum(rd))
  <2>. DEFINE call == Call("enum", 0, 0)
  <2>1. call.f = "enum"  BY DEF Call
  <2>. HIDE DEF call
  <2>2. ASSUME NEW o \in ExpectEnum(rd), Good(o), At(rd, pos)
        PROVE  /\ WholeRead(o, pos) /\ Wants(call, Elem(pos), BodyAt(pos), 0)
               /\ Answers(call, Elem(pos), BodyAt(pos), o.v)
    <3>1. /\ WholeRead(o, pos) /\ o.v = Num(IndexOf(BodyAt(pos))) /\ TagType(Elem(pos)) = "str"
          /\ \E i \in 1 .. Count : BodyAt(pos) = Names[i]
      BY <2>2, ExpectEnumGood
    <3>2. AnswersNumber(call, Elem(pos), BodyAt(pos), IndexOf(BodyAt(pos)))
      <4>1. call.f \in Lookups /\ TagType(Elem(pos)) = "str"  BY <2>1, <3>1 DEF Lookups
      <4>. QED  BY <4>1, IndexAnswered
    <3>3. Answers(call, Elem(pos), BodyAt(pos), o.v)  BY <3>1, <3>2, AnswersForms
    <3>4. Wants(call, Elem(pos), BodyAt(pos), 0)  BY <2>1, <3>1, WantsText
    <3>. QED  BY <3>1, <3>3, <3>4
  <2>. QED  BY <2>2 DEF WholeMeets, call
<1>4. ASSUME NEW f, f \in {"enum_optional", "key_cstr"}, NEW high, NEW outcomes,
             \A o \in outcomes : Good(o) /\ At(rd, pos) => Looked(o, pos)
      PROVE  WholeMeets(Call(f, 0, high), outcomes)
  <2>. DEFINE call == Call(f, 0, high)
  <2>1. call.f = f  BY DEF Call
  <2>. HIDE DEF call
  <2>2. call.f \in Lookups /\ \A body : Wants(call, Elem(pos), body, 0)  BY <1>4, <2>1, WantsText DEF Lookups
  <2>3. ASSUME NEW o \in outcomes, Good(o), At(rd, pos)
        PROVE  /\ WholeRead(o, pos) /\ Wants(call, Elem(pos), BodyAt(pos), 0)
               /\ Answers(call, Elem(pos), BodyAt(pos), o.v)
    BY <1>4, <2>2, <2>3, LookedAnswers
  <2>. QED  BY <2>3 DEF WholeMeets, call
<1>5. WholeMeets(Call("enum_optional", 0, 0), EnumOptional(rd))  BY <1>4, EnumOptionalGood
<1>6. WholeMeets(Call("key_cstr", 0, Count), KeyCstr(rd))  BY <1>4, KeyCstrGood
<1>. QED  BY <1>1, <1>2, <1>3, <1>5, <1>6, WholeAnswered

LEMMA KeyUintAnswered ==
    ASSUME EInv, NEW count \in {0, Count}, Keyed(Call("key_uint", 0, count), KeyUint(rd, count))
    PROVE  EInv'
<1>1. "key_uint" \notin ReaderCalls /\ "key_uint" \notin Opening /\ "key_uint" # "str_match"
  BY DEF ReaderCalls, Opening
<1>2. KeptAll(KeyUint(rd, count), rd)  BY KeyUintKept DEF EInv, Fair
<1>3. WholeMeets(Call("key_uint", 0, count), KeyUint(rd, count))
  <2>. DEFINE call == Call("key_uint", 0, count)
              num == IF TagType(Elem(pos)) = "uint" /\ Elem(pos).n < Count THEN Elem(pos).n ELSE Count
  <2>1. call.f = "key_uint"  BY DEF Call
  <2>. HIDE DEF call
  <2>2. ASSUME NEW o \in KeyUint(rd, count), Good(o), At(rd, pos)
        PROVE  /\ WholeRead(o, pos) /\ Wants(call, Elem(pos), BodyAt(pos), 0)
               /\ Answers(call, Elem(pos), BodyAt(pos), o.v)
    <3>1. /\ WholeRead(o, pos)
          /\ o.v \in {Num(num), [num |-> num, marked |-> num]} \/ \E k : o.v = [num |-> num, inside |-> k]
      BY <2>2, KeyUintGood
    <3>2. AnswersNumber(call, Elem(pos), BodyAt(pos), num)  BY <2>1 DEF AnswersNumber, Lookups
    <3>. HIDE DEF num
    <3>3. Answers(call, Elem(pos), BodyAt(pos), o.v)  BY <3>1, <3>2, AnswersForms
    <3>4. Wants(call, Elem(pos), BodyAt(pos), 0)  BY <2>1, WantsText
    <3>. QED  BY <3>1, <3>3, <3>4
  <2>. QED  BY <2>2 DEF WholeMeets, call
<1>. QED  BY <1>1, <1>2, <1>3, WholeAnswered

LEMMA NameCells ==
    ASSUME NEW i \in 1 .. Count
    PROVE  /\ Names[i] \in Seq([t : {"byte"}, n : 0 .. Base - 1]) /\ Names[i] \in Seq(Cell)
           /\ Len(Names[i]) \in Nat
<1>1. Names[i] \in Seq([t : {"byte"}, n : 0 .. Base - 1])  BY NamesAssumption DEF Count
<1>2. [t : {"byte"}, n : 0 .. Base - 1] \subseteq Cell  BY BaseFacts DEF Cell
<1>3. Names[i] \in Seq(Cell)  BY <1>1, <1>2, SeqMonotonic
<1>4. Len(Names[i]) \in Nat  BY <1>3
<1>. QED  BY <1>1, <1>3, <1>4

LEMMA BodyCells ==
    ASSUME NEW p, Starts(p), p + Size(p) <= Len(stream)
    PROVE  BodyAt(p) \in Seq(Cell)
<1>1. stream \in Seq(Cell) /\ p + Size(p) \in Nat /\ Contents(Elem(p)) \in Nat  BY StreamCells, ElemContents DEF Starts
<1>. DEFINE q == p + Size(p)
            t == IF q + Contents(Elem(p)) <= Len(stream) THEN q + Contents(Elem(p)) ELSE Len(stream)
<1>2. BodyAt(p) = SubSeq(stream, q + 1, t)  BY DEF BodyAt
<1>3. q \in Nat /\ t \in Nat /\ t <= Len(stream) /\ q <= t  BY <1>1
<1>. HIDE DEF q, t
<1>4. SubSeq(stream, q + 1, t) \in Seq(Cell)
  <2>1. t = q + (t - q) /\ t - q \in Nat  BY <1>3
  <2>. QED  BY <1>1, <1>3, <2>1, Part
<1>. QED  BY <1>2, <1>4

LEMMA NameHeadAnswered ==
    ASSUME EInv, NEW i \in 1 .. Count, Open(Call("str_match", i, i), Match(ExpectStr(rd), Len(Names[i])))
    PROVE  EInv'
<1>. DEFINE call == Call("str_match", i, i)
            name == Names[i]
            S == ExpectStr(rd)
<1>1. call.f = "str_match" /\ call.low = i  BY DEF Call
<1>. HIDE DEF call
<1>2. KeptAll(ExpectStr(rd), rd) /\ KeptAll(Match(ExpectStr(rd), Len(name)), rd)
  <2>1. "type" # "ok"  OBVIOUS
  <2>2. KeptAll(ExpectStr(rd), rd)  BY HeadsKept DEF EInv
  <2>. HIDE DEF S, name
  <2>3. /\ KeptAll(Within(S, 0, 0), rd) /\ KeptAll(Match(S, Len(name)), rd)
        /\ KeptAll(AtMost(S, Len(name), "type"), rd)
    BY <2>1, <2>2, ChecksKept DEF S
  <2>. QED  BY <2>2, <2>3 DEF S
<1>3. ASSUME NEW o \in Match(ExpectStr(rd), Len(name)), Good(o), At(rd, pos)
      PROVE  /\ HeadRead(o, pos) /\ Wants(call, Elem(pos), BodyAt(pos), Contents(Elem(pos)))
             /\ Answers(call, Elem(pos), BodyAt(pos), o.v)
  <2>1. o.v = Null /\ \E q \in ExpectStr(rd) : Good(q) /\ q.rd = o.rd /\ q.v.num = Len(name)
    BY <1>2, <1>3, MatchGood
  <2>2. PICK q \in ExpectStr(rd) : Good(q) /\ q.rd = o.rd /\ q.v.num = Len(name)  BY <2>1
  <2>3. HeadRead(q, pos) /\ q.v = Num(Elem(pos).n) /\ TagType(Elem(pos)) = "str"  BY <1>3, <2>2, ExpectStrGood
  <2>4. HeadRead(o, pos)  BY <2>2, <2>3 DEF HeadRead, Passed
  <2>5. Elem(pos).n = Len(name)  BY <2>2, <2>3 DEF Num
  <2>6. Contents(Elem(pos)) = Len(name)  BY <2>3, <2>5 DEF Contents
  <2>7. Starts(pos) /\ pos + Size(pos) <= Len(stream)  BY <1>3, <2>4 DEF At, HeadRead
  <2>8. \A k \in 1 .. 0 : k \in DOMAIN BodyAt(pos) /\ BodyAt(pos)[k] = name[k]  OBVIOUS
  <2>9. Len(name) - Len(name) = 0  BY NameCells
  <2>10. Wants(call, Elem(pos), BodyAt(pos), Contents(Elem(pos)))
    BY <1>1, <2>3, <2>5, <2>6, <2>8, <2>9, WantsMatch
  <2>. QED  BY <2>1, <2>4, <2>10, AnswersForms
<1>4. HeadMeets(Call("str_match", i, i), Match(ExpectStr(rd), Len(Names[i])))  BY <1>3 DEF HeadMeets, call
<1>5. "str_match" \notin ReaderCalls  BY DEF ReaderCalls
<1>. QED  BY <1>2, <1>4, <1>5, OpenAnswered

LEMMA NamesAnswered == ASSUME EInv, Name \/ Key  PROVE EInv'
BY NameHeadAnswered, LookupAnswered, KeyUintAnswered DEF Name, Key

-----------------------------------------------------------------------------
(* A name that is matched byte by byte *)

Begun(b, c, m) == \A k \in 1 .. m : k \in DOMAIN b /\ b[k] = c[k]

LEMMA OneMore ==
    ASSUME NEW S, NEW b \in Seq(S), NEW c, NEW m \in Nat, m + 1 <= Len(b), Begun(b, c, m), b[m + 1] = c[m + 1]
    PROVE  Begun(b, c, m + 1)
<1>. SUFFICES ASSUME NEW k \in 1 .. m + 1  PROVE k \in DOMAIN b /\ b[k] = c[k]  BY DEF Begun
<1>1. DOMAIN b = 1 .. Len(b)  OBVIOUS
<1>2. CASE k = m + 1  BY <1>1, <1>2
<1>3. CASE k # m + 1
  <2>1. k \in 1 .. m  BY <1>3
  <2>. QED  BY <2>1 DEF Begun
<1>. QED  BY <1>2, <1>3

LEMMA BodyByte ==
    ASSUME NEW p, Starts(p), p + Size(p) <= Len(stream), NEW m \in Nat,
           m < Contents(Elem(p)), p + Size(p) + m + 1 <= Len(stream)
    PROVE  m + 1 <= Len(BodyAt(p)) /\ BodyAt(p)[m + 1] = stream[p + Size(p) + m + 1]
<1>1. stream \in Seq(Cell) /\ p + Size(p) \in Nat /\ Contents(Elem(p)) \in Nat  BY StreamCells, ElemContents DEF Starts
<1>. DEFINE q == p + Size(p)
            t == IF q + Contents(Elem(p)) <= Len(stream) THEN q + Contents(Elem(p)) ELSE Len(stream)
            k == t - q
<1>2. BodyAt(p) = SubSeq(stream, q + 1, t)  BY DEF BodyAt
<1>3. q \in Nat /\ k \in Nat /\ t = q + k /\ q + k <= Len(stream) /\ m + 1 <= k  BY <1>1
<1>. HIDE DEF q, t, k
<1>4. /\ Len(SubSeq(stream, q + 1, q + k)) = k
      /\ \A i \in 1 .. k : SubSeq(stream, q + 1, q + k)[i] = stream[q + i]
  BY <1>1, <1>3, Part
<1>5. m + 1 \in 1 .. k /\ q + (m + 1) = q + m + 1  BY <1>3
<1>. QED  BY <1>2, <1>3, <1>4, <1>5 DEF q

LEMMA MatchedPrefix ==
    ASSUME NEW call, call.f = "str_match", call.low \in 1 .. Count, NEW p, Starts(p), p + Size(p) <= Len(stream),
           NEW u, Wants(call, Elem(p), BodyAt(p), u), u \in Nat, u <= Contents(Elem(p))
    PROVE  /\ TagType(Elem(p)) = "str" /\ Elem(p).n = Len(Names[call.low])
           /\ Contents(Elem(p)) = Len(Names[call.low]) /\ Len(Names[call.low]) - u \in Nat
           /\ Begun(BodyAt(p), Names[call.low], Len(Names[call.low]) - u)
<1>1. /\ TagType(Elem(p)) = "str" /\ Elem(p).n = Len(Names[call.low])
      /\ Begun(BodyAt(p), Names[call.low], Len(Names[call.low]) - u)
  BY WantsMatch DEF Begun
<1>2. Contents(Elem(p)) = Len(Names[call.low])  BY <1>1 DEF Contents
<1>3. Len(Names[call.low]) \in Nat  BY NameCells
<1>. QED  BY <1>1, <1>2, <1>3

LEMMA MatchByteAnswered == ASSUME EInv, MatchByte  PROVE EInv'
<1>. DEFINE name == Names[asked.low]
            p == asked.from
            q == p + Size(p)
            m == Len(name) - left
<1>1. PICK o \in MatchOne(rd, name[m + 1]) :
         /\ rd' = o.rd /\ result' = o.v
         /\ pos' = IF Good(o) THEN pos + 1 ELSE pos
         /\ left' = IF Good(o) THEN left - 1 ELSE 0
  BY DEF MatchByte
<1>2. stream' = stream /\ asked' = asked /\ rd.error = "ok" /\ asked.f = "str_match" /\ left > 0
  BY DEF MatchByte, Matching
<1>3. Fair(rd)' /\ (asked.f = "str_match" => Expects(asked))' /\ stream' \in Streams
  BY <1>2, MatchByteFair DEF EInv, Fair, Ordered, Expects
<1>4. CASE ~Good(o)
  <2>1. rd'.error # "ok"  BY <1>1, <1>4 DEF Good
  <2>. QED  BY <1>3, <2>1 DEF EInv, Ordered, Answered
<1>5. CASE Good(o)
  <2>1. /\ Starts(p) /\ q <= Len(stream) /\ Wants(asked, Elem(p), BodyAt(p), left)
        /\ pos + left = q + Contents(Elem(p)) /\ left <= Contents(Elem(p)) /\ asked.low \in 1 .. Count
    BY <1>2 DEF EInv, Answered
  <2>2. Stands(rd, pos) /\ left \in Nat /\ Begins(stream, pos + left)  BY <1>2 DEF EInv, Ordered
  <2>3. /\ TagType(Elem(p)) = "str" /\ Elem(p).n = Len(name) /\ Contents(Elem(p)) = Len(name)
        /\ m \in Nat /\ Begun(BodyAt(p), name, m)
    BY <1>2, <2>1, <2>2, MatchedPrefix
  <2>4. /\ name \in Seq([t : {"byte"}, n : 0 .. Base - 1]) /\ name \in Seq(Cell) /\ Len(name) \in Nat
    BY <2>1, NameCells
  <2>5. /\ q \in Nat /\ p \in Nat
        /\ \A i \in p + 2 .. q + Contents(Elem(p)) : i <= Len(stream) => stream[i].t = "byte"
    BY <2>1, ElemContents DEF Starts
  <2>6. Size(p) >= 1 /\ Size(p) \in Nat  BY <2>1, TagSizes DEF Size, Starts
  <2>7. p + 1 <= q  BY <2>5, <2>6
  <2>. HIDE DEF q, name
  <2>8. /\ pos \in Nat /\ pos = q + m /\ m + 1 \in 1 .. Len(name) /\ m < Len(name)
        /\ pos + 1 \in p + 2 .. q + Contents(Elem(p)) /\ pos + 1 = q + m + 1
    <3>1. pos \in Nat  BY <2>2 DEF Stands
    <3>2. PICK x \in Nat, y \in Nat, c \in Nat, w \in Nat, z \in Nat :
             x = pos /\ y = left /\ c = Len(name) /\ w = p /\ z = q
      BY <2>2, <2>4, <2>5, <3>1
    <3>3. x + y = z + c /\ y > 0 /\ y <= c /\ w + 1 <= z /\ m = c - y /\ Contents(Elem(p)) = c
      BY <1>2, <2>1, <2>3, <2>7, <3>2 DEF q
    <3>4. x = z + (c - y) /\ c - y + 1 \in 1 .. c /\ c - y < c /\ x + 1 \in w + 2 .. z + c /\ x + 1 = z + (c - y) + 1
      BY <3>3
    <3>. QED  BY <3>2, <3>3, <3>4
  <2>9. name[m + 1] \in [t : {"byte"}, n : 0 .. Base - 1]
    <3>. DEFINE T == [t : {"byte"}, n : 0 .. Base - 1]
    <3>. HIDE DEF T, m
    <3>1. name \in Seq(T)  BY <2>4 DEF T
    <3>2. name[m + 1] \in T  BY <2>8, <3>1
    <3>. QED  BY <3>2 DEF T
  <2>10. pos < Len(stream) => stream[pos + 1].t = "byte"
    <3>1. Len(stream) \in Nat  BY <2>2 DEF Stands
    <3>. QED  BY <2>5, <2>8, <3>1
  <2>11. Elements(stream)  BY <2>1 DEF Starts
  <2>. HIDE DEF m
  <2>12. /\ Passed(o, pos + 1) /\ pos + 1 <= Len(stream) /\ stream[pos + 1] = name[m + 1] /\ o.v = Null
    BY <1>1, <1>2, <1>5, <2>2, <2>9, <2>10, <2>11, MatchOneGood
  <2>13. pos' = pos + 1 /\ left' = left - 1  BY <1>1, <1>5
  <2>14. left' \in Nat /\ pos' + left' = pos + left  BY <1>2, <2>2, <2>8, <2>13
  <2>15. Ordered'
    <3>1. Stands(rd, pos)'  BY <1>1, <1>2, <2>12, <2>13 DEF Passed, Stands
    <3>2. left' \in Nat /\ Begins(stream, pos + left)'  BY <1>2, <2>2, <2>14 DEF Begins
    <3>3. Says(asked.f, asked.num, result, asked.from)'  BY <1>2 DEF Says
    <3>. QED  BY <1>3, <3>1, <3>2, <3>3 DEF Ordered
  <2>16. Begun(BodyAt(p), name, m + 1)
    <3>1. BodyAt(p) \in Seq(Cell)  BY <2>1, BodyCells DEF q
    <3>2. m < Contents(Elem(p)) /\ p + Size(p) + m + 1 <= Len(stream)  BY <2>3, <2>8, <2>12 DEF q
    <3>3. m + 1 <= Len(BodyAt(p)) /\ BodyAt(p)[m + 1] = stream[q + m + 1]
      BY <2>1, <2>3, <3>2, BodyByte DEF q
    <3>4. BodyAt(p)[m + 1] = name[m + 1] /\ m + 1 <= Len(name)  BY <2>8, <2>12, <3>3
    <3>. QED  BY <2>3, <3>1, <3>3, <3>4, OneMore
  <2>17. Len(name) - left' = m + 1  BY <2>2, <2>4, <2>13 DEF m
  <2>18. Wants(asked, Elem(p), BodyAt(p), left')  BY <1>2, <2>3, <2>16, <2>17, WantsMatch DEF name, Begun
  <2>19. Answers(asked, Elem(p), BodyAt(p), Null)  BY AnswersForms
  <2>20. left' <= Contents(Elem(p))  BY <2>1, <2>2, <2>3, <2>4, <2>13
  <2>21. Answered'
    <3>1. Starts(p)' /\ (Elem(p)' = Elem(p)) /\ Size(p)' = Size(p)
      BY <1>2, <2>1 DEF Starts, Elem, Size
    <3>2. BodyAt(p)' = BodyAt(p)  BY <1>2, <3>1 DEF BodyAt
    <3>3. Wants(asked, Elem(p), BodyAt(p), left)' /\ Answers(asked, Elem(p), BodyAt(p), result)'
      BY <1>1, <1>2, <2>12, <2>18, <2>19, <3>1, <3>2
    <3>4. asked'.f \notin Opening  BY <1>2 DEF Opening
    <3>. QED  BY <1>2, <2>1, <2>14, <2>20, <3>1, <3>3, <3>4 DEF Answered, q
  <2>. QED  BY <1>3, <2>15, <2>21 DEF EInv
<1>. QED  BY <1>4, <1>5

-----------------------------------------------------------------------------
(* What is read without an expectation *)

LEMMA ReaderAsks == ASSUME ReaderCall  PROVE ~Expects(asked)' /\ asked'.f # "str_match"
<1>1. ASSUME NEW f, NEW num, asked' = [f |-> f, num |-> num, from |-> pos], f # "str_match"
      PROVE  ~Expects(asked)' /\ asked'.f # "str_match"
  BY <1>1 DEF Expects
<1>2. ASSUME NEW f, NEW num, NEW outcomes, NEW bytes, NEW after, Do(f, num, outcomes, bytes, after), f # "str_match"
      PROVE  ~Expects(asked)' /\ asked'.f # "str_match"
  BY <1>1, <1>2 DEF Do
<1>3. CASE Read \/ Peek  BY <1>2, <1>3 DEF Read, Peek
<1>4. CASE ReadPart  BY <1>2, <1>4 DEF ReadPart
<1>5. CASE ReadText  BY <1>2, <1>5 DEF ReadText
<1>6. CASE Discard  BY <1>1, <1>6 DEF Discard
<1>7. CASE Remaining \/ Reject  BY <1>2, <1>7 DEF Remaining, Reject
<1>8. CASE SkipRest  BY <1>2, <1>8 DEF SkipRest
<1>. QED  BY <1>3, <1>4, <1>5, <1>6, <1>7, <1>8 DEF ReaderCall, Next

LEMMA SkipRestOrdered == ASSUME Ordered, Fair(rd), SkipRest  PROVE Ordered'
<1>1. rd.error = "ok" => Stands(rd, pos) /\ left \in Nat /\ left <= left /\ left - left = 0  BY DEF Ordered
<1>2. Sound(SkipBytes(rd, left))  BY SkipBytesKept, KeptSound DEF Fair
<1>3. Orderly("skip", left, SkipBytes(rd, left), left, 0)
  BY <1>1, <1>2, SkipBytesPassed, PassedFollows DEF Orderly, Sound
<1>. QED  BY <1>3, DoOrdered DEF SkipRest

LEMMA ReaderCallAnswered == ASSUME EInv, ReaderCall  PROVE EInv'
<1>1. Fair(rd)'  BY ReaderCallFair DEF EInv, Fair
<1>2. Ordered'
  <2>1. CASE Next  BY <2>1, NextOrdered DEF EInv
  <2>2. CASE SkipRest  BY <2>2, SkipRestOrdered DEF EInv
  <2>3. CASE Discard  BY <2>3, DiscardOrdered DEF EInv
  <2>. QED  BY <2>1, <2>2, <2>3 DEF ReaderCall
<1>3. Answered' /\ (asked.f = "str_match" => Expects(asked))'  BY ReaderAsks DEF Answered
<1>. QED  BY <1>1, <1>2, <1>3 DEF EInv

LEMMA ExpectNextAnswered == ASSUME EInv, [ExpectNext]_expectVars  PROVE EInv'
<1>1. CASE UNCHANGED expectVars
  <2>. USE <1>1 DEF expectVars, vars
  <2>1. Ordered' = Ordered  BY DEF Ordered, Stands, Begins, Says, Same
  <2>2. Fair(rd)' = Fair(rd)  BY DEF Fair
  <2>3. Answered' = Answered
    BY DEF Answered, Starts, Size, Elem, BodyAt, Expects
  <2>. QED  BY <2>1, <2>2, <2>3 DEF EInv, Expects
<1>. QED
  BY <1>1, NumbersAnswered, RealAnswered, SimpleAnswered, ContainerAnswered, OpeningAnswered, AllBytesAnswered,
     NamesAnswered, MatchByteAnswered, ReaderCallAnswered DEF ExpectNext

LEMMA ExpectInitAnswered == ExpectInit => EInv
<1>. SUFFICES ASSUME ExpectInit  PROVE EInv  OBVIOUS
<1>1. Ordered /\ Fair(rd)  BY InitOrdered, InitFair DEF ExpectInit, IInv
<1>2. ~Expects(asked) /\ asked.f # "str_match"  BY DEF ExpectInit, Init, NoCall, Expects
<1>. QED  BY <1>1, <1>2 DEF EInv, Answered

(* Also a program that expects reads the bytes in the order of the stream, *)
(* each once, whatever it expects and whatever it skips after a head        *)
(* (expect.c:66-810 over reader.c:217-560)                                  *)
THEOREM ExpectInOrder == ExpectSpec => []InOrder
<1>1. ExpectInit => EInv  BY ExpectInitAnswered
<1>2. EInv /\ [ExpectNext]_expectVars => EInv'  BY ExpectNextAnswered
<1>3. EInv => InOrder  BY OrderedInOrder DEF EInv
<1>. QED  BY <1>1, <1>2, <1>3, PTL DEF ExpectSpec

(* As long as there is no error, the element was what the function was     *)
(* asked for, the answer is what the element says, and the reader stands    *)
(* behind what was read, with nothing skipped or left (expect.c:66-810)     *)
THEOREM AnswersExpected == ExpectSpec => []ExpectedOrFlagged
<1>1. ExpectInit => EInv  BY ExpectInitAnswered
<1>2. EInv /\ [ExpectNext]_expectVars => EInv'  BY ExpectNextAnswered
<1>3. EInv => ExpectedOrFlagged  BY AnsweredExpected DEF EInv
<1>. QED  BY <1>1, <1>2, <1>3, PTL DEF ExpectSpec

-----------------------------------------------------------------------------
(* Why a call fails: the number, the type byte, the element *)

LEMMA NativeBad ==
    ASSUME NEW r, NEW p, Stands(r, p), r.error = "ok", NEW width \in Nat, NEW o \in Native(r, width), ~Good(o)
    PROVE  Lacks(o.rd, p, width) \/ TooBig(o.rd, width)
<1>1. PICK q \in Ensure(r, width) :
         o = IF q.v THEN Out(Take(q.rd, width).rd, Number(Take(q.rd, width).v)) ELSE Out(q.rd, 0)
  BY DEF Native
<1>. QED  BY <1>1, TakenBad DEF Out

LEMMA TypeByteBad ==
    ASSUME NEW r, NEW p, Stands(r, p), r.error = "ok", NEW o \in TypeByte(r), ~Good(o)
    PROVE  Lacks(o.rd, p, 1) \/ TooBig(o.rd, 1)
<1>1. PICK q \in Ensure(r, 1) :
         o = IF q.v THEN Out(Take(q.rd, 1).rd, Take(q.rd, 1).v[1]) ELSE Out(q.rd, First("fixint", 0))
  BY DEF TypeByte
<1>. QED  BY <1>1, TakenBad DEF Out

(* What keeps any function from reading the element at p *)
Unreadable(s, p) ==
    /\ Halted(s)
    /\ \/ /\ (s.fill /\ s.error \in FillErrors) \/ (~s.fill /\ s.error = "invalid")
          /\ p + Size(p) > s.drawn \/ p + Size(p) + Contents(Elem(p)) > s.drawn
       \/ s.fill /\ s.error = "too_big" /\ Size(p) > s.size
       \/ s.error = "invalid" /\ Elem(p).tag = "reserved"

LEMMA HeadLacks ==
    ASSUME NEW p, Starts(p), NEW n \in Nat, n <= Size(p), NEW s, Lacks(s, p, n) \/ TooBig(s, n)
    PROVE  Unreadable(s, p)
<1>1. Size(p) \in Nat /\ p \in Nat  BY TagSizes DEF Starts, Size
<1>2. CASE Starved(s, p + n)
  <2>1. p + Size(p) > s.drawn  BY <1>1, <1>2 DEF Starved
  <2>. QED  BY <1>2, <2>1 DEF Starved, Unreadable
<1>3. CASE Cut(s, p, n)
  <2>1. p + Size(p) > s.drawn  BY <1>1, <1>3 DEF Cut
  <2>. QED  BY <1>3, <2>1 DEF Cut, Unreadable
<1>4. CASE TooBig(s, n)
  <2>1. Size(p) > s.size  BY <1>1, <1>4 DEF TooBig
  <2>. QED  BY <1>4, <2>1 DEF TooBig, Unreadable
<1>. QED  BY <1>2, <1>3, <1>4 DEF Lacks

LEMMA BodyLacks ==
    ASSUME NEW p, Starts(p), p + Size(p) <= Len(stream), NEW n \in Nat, n <= Contents(Elem(p)),
           NEW s, Lacks(s, p + Size(p), n)
    PROVE  Unreadable(s, p)
<1>1. p + Size(p) \in Nat /\ Contents(Elem(p)) \in Nat  BY ElemContents
<1>2. CASE Starved(s, p + Size(p) + n)
  <2>1. p + Size(p) + Contents(Elem(p)) > s.drawn  BY <1>1, <1>2 DEF Starved
  <2>. QED  BY <1>2, <2>1 DEF Starved, Unreadable
<1>3. CASE Cut(s, p + Size(p), n)
  <2>1. p + Size(p) + Contents(Elem(p)) > s.drawn  BY <1>1, <1>3 DEF Cut
  <2>. QED  BY <1>3, <2>1 DEF Cut, Unreadable
<1>. QED  BY <1>2, <1>3 DEF Lacks

LEMMA PeekTagBad ==
    ASSUME NEW r, NEW p, Stands(r, p), r.error = "ok", Elements(stream), Begins(stream, p),
           NEW o \in PeekTag(r), ~Good(o)
    PROVE  Halted(o.rd) /\ (p < Len(stream) => Unreadable(o.rd, p))
<1>0. p \in Nat /\ stream \in Seq(Cell)  BY DEF Stands
<1>1. PICK q \in Ensure(r, 1) : o \in Parse(q)  BY DEF PeekTag
<1>2. p < Len(stream) => Starts(p) /\ Size(p) \in Nat /\ 1 <= Size(p)
  BY <1>0, TagSizes DEF Begins, Starts, Size
<1>. DEFINE first == q.rd.buffer[q.rd.data + 1]
            parsed(w) == Out(w.rd, IF w.v THEN ParseTag(w.rd.buffer, w.rd.data + 1) ELSE NilTag)
<1>3. Parse(q) = IF ~q.v THEN {Out(q.rd, NilTag)}
                 ELSE IF first.t = "reserved" THEN {Out(FlagError(q.rd, "invalid"), NilTag)}
                 ELSE {parsed(w) : w \in Ensure(q.rd, TagSize(first.t))}
  BY DEF Parse
<1>4. CASE ~Good(q)
  <2>1. (Lacks(q.rd, p, 1) \/ TooBig(q.rd, 1)) /\ q.v = FALSE  BY <1>4, EnsureBad
  <2>. HIDE DEF first, parsed
  <2>2. o.rd = q.rd  BY <1>1, <1>3, <2>1 DEF Out
  <2>3. Halted(q.rd)  BY <2>1 DEF Lacks, Starved, Cut, TooBig
  <2>. QED  BY <1>2, <2>1, <2>2, <2>3, HeadLacks
<1>5. CASE Good(q)
  <2>1. Stands(q.rd, p) /\ InBuffer(q.rd) >= 1 /\ q.v = TRUE /\ q.rd.error = "ok"  BY <1>5, EnsureStands
  <2>2. first = stream[p + 1]
    <3>1. 1 \in 1 .. (q.rd.end - q.rd.data)  BY <2>1 DEF InBuffer, Stands
    <3>. QED  BY <2>1, <3>1 DEF Stands
  <2>3. p < Len(stream)
    <3>0. q.rd.data \in Nat /\ q.rd.end \in Nat /\ q.rd.drawn \in Nat /\ Len(stream) \in Nat
      <4>1. Len(stream) \in Nat  BY <1>0
      <4>. QED  BY <2>1, <4>1 DEF Stands
    <3>1. PICK d \in Nat, e \in Nat, l \in Nat, n \in Nat :
             d = q.rd.data /\ e = q.rd.end /\ l = Len(stream) /\ n = q.rd.drawn
      BY <3>0
    <3>2. e - d >= 1 /\ p + (e - d) = n /\ n <= l  BY <2>1, <3>1 DEF Stands, InBuffer
    <3>3. p < l  BY <1>0, <3>1, <3>2
    <3>. QED  BY <3>1, <3>3
  <2>. HIDE DEF first
  <2>4. Starts(p) /\ Size(p) = TagSize(first.t) /\ Size(p) \in Nat  BY <1>2, <2>2, <2>3 DEF Size
  <2>5. CASE first.t = "reserved"
    <3>1. o.rd = FlagError(q.rd, "invalid")  BY <1>1, <1>3, <2>1, <2>5 DEF Out
    <3>2. Refuses(o.rd, "invalid")  BY <2>1, <3>1, StandsRefuses
    <3>3. Elem(p).tag = "reserved"  BY <2>2, <2>4, <2>5, ElemKind
    <3>. QED  BY <3>2, <3>3 DEF Refuses, Unreadable
  <2>6. CASE first.t # "reserved"
    <3>1. PICK w \in Ensure(q.rd, Size(p)) : o = parsed(w)  BY <1>1, <1>3, <2>1, <2>4, <2>6
    <3>2. o.rd = w.rd  BY <3>1 DEF Out
    <3>3. Lacks(w.rd, p, Size(p)) \/ TooBig(w.rd, Size(p))  BY <2>1, <2>4, <3>2, EnsureBad DEF Good
    <3>4. Unreadable(w.rd, p)  BY <2>4, <3>3, HeadLacks
    <3>. QED  BY <3>2, <3>4 DEF Unreadable
  <2>. QED  BY <2>5, <2>6
<1>. QED  BY <1>4, <1>5

LEMMA ReadTagBad ==
    ASSUME NEW r, NEW p, Stands(r, p), r.error = "ok", Elements(stream), Begins(stream, p),
           NEW o \in ReadTag(r), ~Good(o)
    PROVE  Halted(o.rd) /\ (p < Len(stream) => Unreadable(o.rd, p))
<1>1. PICK q \in PeekTag(r) : o = IF Good(q) THEN Out([q.rd EXCEPT !.data = @ + TagSize(q.v.tag)], q.v) ELSE q
  BY DEF ReadTag
<1>2. ~Good(q)
  <2>. SUFFICES ASSUME Good(q)  PROVE FALSE  OBVIOUS
  <2>1. o.rd = [q.rd EXCEPT !.data = @ + TagSize(q.v.tag)]  BY <1>1 DEF Out
  <2>2. DOMAIN q.rd = Fields  BY PeekTagKept DEF KeptAll, Kept, Stands
  <2>3. o.rd.error = "ok"  BY <2>1, <2>2 DEF Good, Fields
  <2>. QED  BY <2>3 DEF Good
<1>. QED  BY <1>1, <1>2, PeekTagBad

LEMMA DiscardOneBad ==
    ASSUME NEW r, NEW p, Stands(r, p), r.error = "ok", Elements(stream), Begins(stream, p),
           NEW o \in DiscardOne(r), ~Good(o)
    PROVE  Halted(o.rd) /\ (p < Len(stream) => Unreadable(o.rd, p))
<1>1. PICK q \in ReadTag(r) : \E s \in SkipBytes(q.rd, Contents(q.v)) : o = Out(s.rd, Inside(q.v))
  BY DEF DiscardOne
<1>2. PICK s \in SkipBytes(q.rd, Contents(q.v)) : o = Out(s.rd, Inside(q.v))  BY <1>1
<1>3. CASE ~Good(q)
  <2>1. s.rd = q.rd  BY <1>2, <1>3 DEF SkipBytes, Good, Out
  <2>. QED  BY <1>2, <1>3, <2>1, ReadTagBad DEF Out
<1>4. CASE Good(q)
  <2>1. p < Len(stream)  BY <1>4, ReadTagWithin
  <2>2. Starts(p)  BY <2>1 DEF Starts, Stands, Begins
  <2>3. HeadRead(q, p) /\ q.v = Elem(p)  BY <1>4, <2>2, ReadTagElem DEF At
  <2>4. p + Size(p) <= Len(stream) /\ Stands(q.rd, p + Size(p)) /\ q.rd.error = "ok"  BY <2>3 DEF HeadRead, Passed
  <2>5. Contents(Elem(p)) \in Nat  BY <2>2, <2>4, ElemContents
  <2>6. ~Good(s) /\ o.rd = s.rd  BY <1>2 DEF Good, Out
  <2>7. Lacks(s.rd, p + Size(p), Contents(Elem(p)))  BY <1>2, <2>3, <2>4, <2>5, <2>6, SkipBytesBad
  <2>8. Unreadable(s.rd, p)  BY <2>2, <2>4, <2>5, <2>7, BodyLacks
  <2>. QED  BY <2>6, <2>8 DEF Unreadable
<1>. QED  BY <1>3, <1>4

-----------------------------------------------------------------------------
(* A reader that has failed is left as it is *)

IdleAll(S, r) == \A o \in S : o.rd = r

LEMMA TouchedIdle ==
    ASSUME NEW r, r.error # "ok", NEW s, Touched(s, r)
    PROVE  s = r
BY DEF Touched, FlagError

LEMMA TouchedAllIdle ==
    ASSUME NEW r, r.error # "ok", NEW S, NEW T, IdleAll(S, r), TouchedAll(T, S)
    PROVE  IdleAll(T, r)
BY TouchedIdle DEF IdleAll, TouchedAll

LEMMA BytesIdle ==
    ASSUME NEW r, Halted(r), NEW count \in Nat
    PROVE  /\ IdleAll(ReadNative(r, count), r) /\ IdleAll(ReadBytes(r, count), r) /\ IdleAll(SkipBytes(r, count), r)
           /\ IdleAll(ReadUtf8(r, count), r)
<1>1. ASSUME NEW o \in ReadNative(r, count)  PROVE o.rd = r
  <2>1. r.error # "ok" /\ InBuffer(r) = 0  BY DEF Halted, InBuffer
  <2>2. (o = Take(r, count) /\ count <= 0) \/ o = Out(r, Zeros(count))  BY <2>1 DEF ReadNative
  <2>3. CASE o = Take(r, count) /\ count <= 0
    <3>1. count = 0  BY <2>3
    <3>2. o.rd = [r EXCEPT !.data = @ + 0]  BY <2>3, <3>1 DEF Take, Out
    <3>3. [r EXCEPT !.data = @ + 0] = [x \in Fields |-> r[x]]  BY DEF Halted, Fields
    <3>. QED  BY <3>2, <3>3 DEF Halted
  <2>4. CASE o = Out(r, Zeros(count))  BY <2>4 DEF Out
  <2>. QED  BY <2>2, <2>3, <2>4
<1>2. IdleAll(ReadNative(r, count), r)  BY <1>1 DEF IdleAll
<1>3. IdleAll(ReadBytes(r, count), r)  BY <1>2 DEF IdleAll, ReadBytes, Out
<1>4. IdleAll(ReadUtf8(r, count), r)
  <2>1. TouchedAll(ReadUtf8(r, count), ReadBytes(r, count))
    BY RefusedTouched, SameTouched DEF ReadUtf8, TouchedAll
  <2>. QED  BY <1>3, <2>1, TouchedAllIdle DEF Halted
<1>5. IdleAll(SkipBytes(r, count), r)  BY DEF SkipBytes, Halted, IdleAll, Out
<1>. QED  BY <1>2, <1>3, <1>4, <1>5

LEMMA TextIdle ==
    ASSUME NEW r, r.error # "ok", NEW count, NEW size, NEW utf8, NEW terminated
    PROVE  /\ IdleAll(BytesInplace(r, count), r) /\ IdleAll(Utf8Inplace(r, count), r)
           /\ IdleAll(BytesAlloc(r, count, terminated), r)
           /\ IdleAll(ReadCstr(r, size, count, utf8), r)
<1>1. IdleAll(BytesInplace(r, count), r)  BY DEF BytesInplace, IdleAll, Out
<1>2. TouchedAll(Utf8Inplace(r, count), BytesInplace(r, count))
  BY RefusedTouched, SameTouched DEF Utf8Inplace, TouchedAll
<1>3. IdleAll(BytesAlloc(r, count, terminated), r)  BY DEF BytesAlloc, IdleAll, Out
<1>4. IdleAll(ReadCstr(r, size, count, utf8), r)  BY DEF ReadCstr, IdleAll, Out
<1>. QED  BY <1>1, <1>2, <1>3, <1>4, TouchedAllIdle

LEMMA TagIdle ==
    ASSUME NEW r, r.error # "ok"
    PROVE  /\ PeekTag(r) = {Out(r, NilTag)} /\ IdleAll(PeekTag(r), r) /\ IdleAll(ReadTag(r), r)
           /\ IdleAll(DiscardOne(r), r)
<1>1. PeekTag(r) = {Out(r, NilTag)}  BY DEF PeekTag
<1>2. ASSUME NEW o \in ReadTag(r)  PROVE o.rd = r
  <2>1. o = IF Good(Out(r, NilTag)) THEN Out([r EXCEPT !.data = @ + TagSize("nil")], NilTag) ELSE Out(r, NilTag)
    BY <1>1 DEF ReadTag, Out, NilTag
  <2>. QED  BY <2>1 DEF Good, Out
<1>3. ASSUME NEW o \in DiscardOne(r)  PROVE o.rd = r
  <2>1. PICK q \in ReadTag(r) : \E s \in SkipBytes(q.rd, Contents(q.v)) : o = Out(s.rd, Inside(q.v))
    BY DEF DiscardOne
  <2>2. PICK s \in SkipBytes(q.rd, Contents(q.v)) : o = Out(s.rd, Inside(q.v))  BY <2>1
  <2>3. q.rd = r  BY <1>2
  <2>4. s.rd = r  BY <2>2, <2>3 DEF SkipBytes, Out
  <2>. QED  BY <2>2, <2>4 DEF Out
<1>. QED  BY <1>1, <1>2, <1>3 DEF IdleAll, Out

LEMMA TimestampIdle ==
    ASSUME NEW r, Halted(r), NEW size
    PROVE  IdleAll(ReadTimestamp(r, size), r)
<1>. SUFFICES ASSUME NEW o \in ReadTimestamp(r, size)  PROVE o.rd = r  BY DEF IdleAll
<1>0. r.error # "ok"  BY DEF Halted
<1>1. CASE size \notin {4, 8, 12}
  <2>1. o.rd = FlagError(r, "invalid")  BY <1>1 DEF ReadTimestamp, Out
  <2>. QED  BY <1>0, <2>1 DEF FlagError
<1>2. CASE size \in {4, 8, 12}
  <2>1. PICK q \in ReadNative(r, size) : o = Stamp(q)  BY <1>2 DEF ReadTimestamp
  <2>2. q.rd = r  BY <1>2, BytesIdle DEF IdleAll
  <2>. QED  BY <1>0, <2>1, <2>2 DEF Stamp, Good, Out
<1>. QED  BY <1>1, <1>2

LEMMA NativeIdle ==
    ASSUME NEW r, r.error # "ok", NEW width
    PROVE  IdleAll(Native(r, width), r) /\ IdleAll(TypeByte(r), r)
BY DEF Native, TypeByte, IdleAll, Out

LEMMA NumbersIdle ==
    ASSUME NEW r, r.error # "ok", NEW f, NEW type, NEW max, NEW tag
    PROVE  /\ IdleAll(ExpectInteger(r, f), r) /\ IdleAll(ExpectReal(r, f), r)
           /\ IdleAll(ExpectCount(r, type), r) /\ IdleAll(ExpectOrNil(r, type), r)
           /\ IdleAll(MaxOrNil(r, type, max), r) /\ IdleAll(ExpectTag(r, tag), r)
           /\ IdleAll(ExpectExt(r), r) /\ IdleAll(ExtSize(r, max), r)
<1>0. IdleAll(ReadTag(r), r)  BY TagIdle
<1>1. TouchedAll(ExpectInteger(r, f), ReadTag(r))
  BY RefusedTouched, SameTouched DEF ExpectInteger, TouchedAll, Out
<1>2. TouchedAll(ExpectReal(r, f), ReadTag(r))
  BY RefusedTouched, SameTouched DEF ExpectReal, TouchedAll, Out
<1>3. TouchedAll(ExpectCount(r, type), ReadTag(r))
  BY RefusedTouched, SameTouched DEF ExpectCount, TouchedAll, Out
<1>4. TouchedAll(ExpectOrNil(r, type), ReadTag(r))
  BY RefusedTouched, SameTouched DEF ExpectOrNil, TouchedAll, Out
<1>5. TouchedAll(MaxOrNil(r, type, max), ExpectOrNil(r, type))
  BY RefusedTouched, SameTouched DEF MaxOrNil, TouchedAll, Out
<1>6. TouchedAll(ExpectTag(r, tag), ReadTag(r))
  BY RefusedTouched, SameTouched DEF ExpectTag, TouchedAll, Out
<1>7. TouchedAll(ExpectExt(r), ReadTag(r))
  BY RefusedTouched, SameTouched DEF ExpectExt, TouchedAll, Out
<1>8. TouchedAll(ExtSize(r, max), ExpectExt(r))
  BY RefusedTouched, SameTouched DEF ExtSize, TouchedAll, Out
<1>. QED  BY <1>0, <1>1, <1>2, <1>3, <1>4, <1>5, <1>6, <1>7, <1>8, TouchedAllIdle

LEMMA ChecksIdle ==
    ASSUME NEW r, r.error # "ok", NEW S, IdleAll(S, r), NEW low, NEW high, NEW n, NEW e, e # "ok"
    PROVE  /\ IdleAll(Within(S, low, high), r) /\ IdleAll(Match(S, n), r) /\ IdleAll(AtMost(S, n, e), r)
           /\ IdleAll(Buffered(S, n), r) /\ IdleAll(BufferedUtf8(S, n), r)
<1>1. TouchedAll(Within(S, low, high), S)
  BY RefusedTouched, SameTouched DEF Within, TouchedAll, Out
<1>2. TouchedAll(Match(S, n), S)
  BY RefusedTouched, SameTouched DEF Match, TouchedAll, Out
<1>3. TouchedAll(AtMost(S, n, e), S)
  BY FlagTouched, SameTouched DEF AtMost, TouchedAll, Out
<1>4. IdleAll(Buffered(S, n), r)
  <2>. SUFFICES ASSUME NEW t \in Buffered(S, n)  PROVE t.rd = r  BY DEF IdleAll
  <2>1. PICK o \in S :
           t \in IF ~Good(o) THEN {Out(o.rd, [bytes |-> << >>])}
                 ELSE IF o.v.num > n THEN {Out(FlagError(o.rd, "too_big"), [bytes |-> << >>])}
                 ELSE {Out(b.rd, [bytes |-> IF Good(b) THEN b.v ELSE << >>]) : b \in ReadNative(o.rd, o.v.num)}
    BY DEF Buffered
  <2>2. o.rd = r /\ ~Good(o)  BY DEF IdleAll, Good
  <2>. QED  BY <2>1, <2>2 DEF Out
<1>5. TouchedAll(BufferedUtf8(S, n), Buffered(S, n))
  BY RefusedTouched, SameTouched DEF BufferedUtf8, TouchedAll
<1>. QED  BY <1>1, <1>2, <1>3, <1>4, <1>5, TouchedAllIdle

LEMMA BoolIdle ==
    ASSUME NEW r, r.error # "ok", NEW want, NEW byte
    PROVE  /\ IdleAll(ExpectNil(r), r) /\ IdleAll(ExpectBool(r), r) /\ IdleAll(ExpectJust(r, want), r)
           /\ IdleAll(MatchOne(r, byte), r)
<1>0. IdleAll(TypeByte(r), r) /\ IdleAll(Native(r, 1), r)  BY NativeIdle
<1>1. TouchedAll(ExpectNil(r), TypeByte(r))
  BY RefusedTouched, SameTouched DEF ExpectNil, TouchedAll, Out
<1>2. IdleAll(ExpectBool(r), r)
  <2>. SUFFICES ASSUME NEW t \in ExpectBool(r)  PROVE t.rd = r  BY DEF IdleAll
  <2>1. PICK o \in TypeByte(r) : t \in IF TypeOf(o.v) = "bool" THEN {Out(o.rd, [bool |-> o.v.t = "true"])}
                                       ELSE {Refused(o, [bool |-> b]) : b \in LowBit(o.v)}
    BY DEF ExpectBool
  <2>2. o.rd = r  BY <1>0 DEF IdleAll
  <2>3. t.rd = o.rd \/ t.rd = FlagError(o.rd, "type")
    <3>1. CASE TypeOf(o.v) = "bool"
      <4>1. t = Out(o.rd, [bool |-> o.v.t = "true"])  BY <2>1, <3>1
      <4>. QED  BY <4>1 DEF Out
    <3>2. CASE TypeOf(o.v) # "bool"
      <4>1. t \in {Refused(o, [bool |-> b]) : b \in LowBit(o.v)}  BY <2>1, <3>2
      <4>2. PICK b \in LowBit(o.v) : t = Refused(o, [bool |-> b])  BY <4>1
      <4>. QED  BY <4>2 DEF Refused, Out
    <3>. QED  BY <3>1, <3>2
  <2>. QED  BY <2>2, <2>3 DEF FlagError
<1>3. TouchedAll(ExpectJust(r, want), ExpectBool(r))
  BY RefusedTouched, SameTouched DEF ExpectJust, TouchedAll, Out
<1>4. TouchedAll(MatchOne(r, byte), Native(r, 1))
  BY RefusedTouched, SameTouched DEF MatchOne, TouchedAll, Out
<1>. QED  BY <1>0, <1>1, <1>2, <1>3, <1>4, TouchedAllIdle

LEMMA StampIdle ==
    ASSUME NEW r, Halted(r)
    PROVE  IdleAll(ExpectTimestamp(r), r)
<1>. SUFFICES ASSUME NEW t \in ExpectTimestamp(r)  PROVE t.rd = r  BY DEF IdleAll
<1>1. PICK o \in ReadTag(r) : t \in IF TagType(o.v) = "ext" /\ o.v.exttype = TimestampType
                                    THEN ReadTimestamp(o.rd, o.v.n) ELSE {Refused(o, [time |-> NoTime])}
  BY DEF ExpectTimestamp
<1>2. o.rd = r /\ r.error # "ok"  BY TagIdle DEF IdleAll, Halted
<1>3. CASE t \in ReadTimestamp(o.rd, o.v.n)  BY <1>2, <1>3, TimestampIdle DEF IdleAll
<1>4. CASE t = Refused(o, [time |-> NoTime])  BY <1>2, <1>4 DEF Refused, FlagError, Out
<1>. QED  BY <1>1, <1>3, <1>4

LEMMA StrIdle == ASSUME NEW r, r.error # "ok"  PROVE IdleAll(ExpectStr(r), r)
<1>. SUFFICES ASSUME NEW t \in ExpectStr(r)  PROVE t.rd = r  BY DEF IdleAll
<1>1. PICK o \in TypeByte(r) :
         t \in IF o.v.t = "fixstr" THEN {Out(o.rd, Num(o.v.n))}
               ELSE IF TypeOf(o.v) = "str" THEN {Out(n.rd, Num(n.v)) : n \in Native(o.rd, Width[o.v.t])}
               ELSE {Refused(o, Num(0))}
  BY Zenon DEF ExpectStr
<1>2. o.rd = r  BY NativeIdle DEF IdleAll
<1>3. \A n \in Native(o.rd, Width[o.v.t]) : n.rd = r  BY <1>2, NativeIdle DEF IdleAll
<1>4. Refused(o, Num(0)).rd = r  BY <1>2 DEF Refused, FlagError, Out
<1>. QED  BY <1>1, <1>2, <1>3, <1>4 DEF Out

LEMMA ArrayIdle ==
    ASSUME NEW r, r.error # "ok", NEW max, NEW orNil
    PROVE  IdleAll(ArrayAlloc(r, max, orNil), r)
<1>. DEFINE S == IF orNil THEN MaxOrNil(r, "array", max) ELSE Within(ExpectCount(r, "array"), 0, max)
<1>1. IdleAll(S, r)
  <2>1. IdleAll(MaxOrNil(r, "array", max), r) /\ IdleAll(ExpectCount(r, "array"), r)  BY NumbersIdle
  <2>2. IdleAll(Within(ExpectCount(r, "array"), 0, max), r)
    <3>1. "type" # "ok"  OBVIOUS
    <3>. QED  BY <2>1, <3>1, ChecksIdle
  <2>. QED  BY <2>1, <2>2
<1>2. ArrayAlloc(r, max, orNil) =
        UNION {IF ~Good(o) \/ o.v.num = 0 THEN {Out(o.rd, Num(0))}
               ELSE {Out(FlagError(o.rd, "memory"), Num(0)), Out(o.rd, Num(o.v.num))} : o \in S}
  BY DEF ArrayAlloc
<1>. HIDE DEF S
<1>. SUFFICES ASSUME NEW t \in ArrayAlloc(r, max, orNil)  PROVE t.rd = r  BY DEF IdleAll
<1>3. PICK o \in S : t \in IF ~Good(o) \/ o.v.num = 0 THEN {Out(o.rd, Num(0))}
                           ELSE {Out(FlagError(o.rd, "memory"), Num(0)), Out(o.rd, Num(o.v.num))}
  BY <1>2
<1>4. o.rd = r /\ ~Good(o)  BY <1>1 DEF IdleAll, Good
<1>. QED  BY <1>3, <1>4 DEF Out

LEMMA HeldIdle ==
    ASSUME NEW r, r.error # "ok", NEW size, NEW utf8
    PROVE  /\ IdleAll(ExtBuf(r, size), r) /\ IdleAll(ExpectCstr(r, size, utf8), r)
           /\ IdleAll(CstrAlloc(r, size, utf8), r) /\ IdleAll(BinAlloc(r, size), r)
           /\ IdleAll(ExtAlloc(r, size), r)
<1>0. "too_big" # "ok" /\ "type" # "ok"  OBVIOUS
<1>1. IdleAll(ExtBuf(r, size), r)
  <2>. SUFFICES ASSUME NEW t \in ExtBuf(r, size)  PROVE t.rd = r  BY DEF IdleAll
  <2>1. PICK e \in ExpectExt(r) : t \in {WithType(o, e.v.exttype) : o \in Buffered({e}, size)}  BY DEF ExtBuf
  <2>2. PICK o \in Buffered({e}, size) : t = WithType(o, e.v.exttype)  BY <2>1
  <2>3. IdleAll({e}, r)  BY NumbersIdle DEF IdleAll
  <2>4. IdleAll(Buffered({e}, size), r)  BY <1>0, <2>3, ChecksIdle
  <2>. QED  BY <2>2, <2>4 DEF IdleAll, WithType, Out
<1>2. IdleAll(ExpectCstr(r, size, utf8), r)
  <2>. SUFFICES ASSUME NEW o \in ExpectStr(r), NEW t \in ReadCstr(o.rd, size, o.v.num, utf8)  PROVE t.rd = r
    BY DEF IdleAll, ExpectCstr
  <2>1. o.rd = r  BY StrIdle DEF IdleAll
  <2>2. IdleAll(ReadCstr(r, size, o.v.num, utf8), r)  BY TextIdle
  <2>. QED  BY <2>1, <2>2 DEF IdleAll
<1>3. IdleAll(CstrAlloc(r, size, utf8), r)
  <2>. DEFINE heads == AtMost(ExpectStr(r), size - 1, "too_big")
              checked(o, b) == IF b.v # Null /\ ~Valid(SubSeq(b.v.bytes, 1, o.v.num), utf8, TRUE)
                               THEN Refused(b, Null) ELSE b
  <2>1. IdleAll(heads, r)  BY <1>0, StrIdle, ChecksIdle
  <2>2. CstrAlloc(r, size, utf8) =
          IF size < 1 THEN {Out(FlagError(r, "bug"), Null)}
          ELSE UNION {{checked(o, b) : b \in BytesAlloc(o.rd, o.v.num, TRUE)} : o \in heads}
    BY DEF CstrAlloc
  <2>. HIDE DEF heads
  <2>3. ASSUME NEW o \in heads, NEW b \in BytesAlloc(o.rd, o.v.num, TRUE)  PROVE checked(o, b).rd = r
    <3>1. o.rd = r  BY <2>1 DEF IdleAll
    <3>2. b.rd = r  BY <2>3, <3>1, TextIdle DEF IdleAll
    <3>3. Refused(b, Null).rd = r  BY <3>2 DEF Refused, FlagError, Out
    <3>. QED  BY <3>2, <3>3
  <2>. HIDE DEF checked
  <2>. SUFFICES ASSUME NEW t \in CstrAlloc(r, size, utf8)  PROVE t.rd = r  BY DEF IdleAll
  <2>4. CASE t = Out(FlagError(r, "bug"), Null)  BY <2>4 DEF FlagError, Out
  <2>5. CASE t \in UNION {{checked(o, b) : b \in BytesAlloc(o.rd, o.v.num, TRUE)} : o \in heads}
    <3>1. PICK o \in heads : t \in {checked(o, b) : b \in BytesAlloc(o.rd, o.v.num, TRUE)}  BY <2>5
    <3>2. PICK b \in BytesAlloc(o.rd, o.v.num, TRUE) : t = checked(o, b)  BY <3>1
    <3>. QED  BY <2>3, <3>2
  <2>. QED  BY <2>2, <2>4, <2>5
<1>4. IdleAll(BinAlloc(r, size), r)
  <2>. SUFFICES ASSUME NEW t \in BinAlloc(r, size)  PROVE t.rd = r  BY DEF IdleAll
  <2>1. PICK o \in AtMost(ExpectCount(r, "bin"), size, "type") : t \in BytesAlloc(o.rd, o.v.num, FALSE)
    BY DEF BinAlloc
  <2>2. IdleAll(ExpectCount(r, "bin"), r)  BY NumbersIdle
  <2>3. IdleAll(AtMost(ExpectCount(r, "bin"), size, "type"), r)  BY <1>0, <2>2, ChecksIdle
  <2>4. o.rd = r  BY <2>3 DEF IdleAll
  <2>5. IdleAll(BytesAlloc(r, o.v.num, FALSE), r)  BY TextIdle
  <2>. QED  BY <2>1, <2>4, <2>5 DEF IdleAll
<1>5. IdleAll(ExtAlloc(r, size), r)
  <2>. DEFINE heads == AtMost(ExpectExt(r), size, "type")
  <2>1. IdleAll(heads, r)
    <3>1. IdleAll(ExpectExt(r), r)  BY NumbersIdle
    <3>. QED  BY <1>0, <3>1, ChecksIdle
  <2>. SUFFICES ASSUME NEW t \in ExtAlloc(r, size)  PROVE t.rd = r  BY DEF IdleAll
  <2>. HIDE DEF heads
  <2>2. PICK e \in heads :
           t \in IF ~Good(e) THEN {Out(e.rd, [exttype |-> e.v.exttype])}
                 ELSE {IF o.v = Null THEN Out(o.rd, [exttype |-> 0])
                       ELSE Out(o.rd, [exttype |-> e.v.exttype, bytes |-> o.v.bytes]) :
                       o \in BytesAlloc(e.rd, e.v.num, FALSE)}
    BY DEF ExtAlloc, heads
  <2>3. e.rd = r /\ ~Good(e)  BY <2>1 DEF IdleAll, Good
  <2>. QED  BY <2>2, <2>3 DEF Out
<1>. QED  BY <1>1, <1>2, <1>3, <1>4, <1>5

LEMMA NamesIdle ==
    ASSUME NEW r, r.error # "ok", NEW count
    PROVE  /\ IdleAll(Found(r), r) /\ IdleAll(ExpectEnum(r), r) /\ IdleAll(Ignored(r), r)
           /\ IdleAll(EnumOptional(r), r) /\ IdleAll(KeyCstr(r), r) /\ IdleAll(KeyUint(r, count), r)
<1>1. IdleAll(Found(r), r)
  <2>. SUFFICES ASSUME NEW s \in ExpectStr(r), NEW o \in BytesInplace(s.rd, s.v.num)  PROVE o.rd = r
    BY DEF IdleAll, Found, Out
  <2>1. s.rd = r  BY StrIdle DEF IdleAll
  <2>. QED  BY <2>1, TextIdle DEF IdleAll
<1>2. TouchedAll(ExpectEnum(r), Found(r))
  BY RefusedTouched, SameTouched DEF ExpectEnum, TouchedAll
<1>3. IdleAll(Ignored(r), r)  BY TagIdle DEF Ignored, IdleAll, Out
<1>4. IdleAll(EnumOptional(r), r)  BY DEF EnumOptional, IdleAll, Out
<1>5. TouchedAll(KeyCstr(r), EnumOptional(r))  BY UniqueTouched, SameTouched DEF KeyCstr, TouchedAll
<1>6. IdleAll(KeyUint(r, count), r)  BY DEF KeyUint, IdleAll, Out
<1>. QED  BY <1>1, <1>2, <1>3, <1>4, <1>5, <1>6, TouchedAllIdle

-----------------------------------------------------------------------------
(* The calls of the reader itself *)

LEMMA DoIdle ==
    ASSUME NEW f, NEW num, NEW outcomes, NEW bytes, NEW after, Do(f, num, outcomes, bytes, after),
           IdleAll(outcomes, rd)
    PROVE  rd' = rd
BY DEF Do, IdleAll

LEMMA NextIdle ==
    ASSUME rd.error # "ok", Halted(rd), left \in Nat, Next
    PROVE  rd' = rd
<1>1. CASE Read \/ Peek
  <2>1. IdleAll(Tags(ReadTag(rd)), rd) /\ IdleAll(Tags(PeekTag(rd)), rd)  BY TagIdle DEF IdleAll, Tags, Out
  <2>. QED  BY <1>1, <2>1, DoIdle DEF Read, Peek
<1>2. CASE ReadPart
  <2>1. PICK n \in 0 .. left :
           \/ Do("read_bytes", n, ReadBytes(rd, n), n, left - n)
           \/ Do("read_bytes", n, BytesInplace(rd, n), n, left - n)
           \/ Do("skip", n, SkipBytes(rd, n), n, left - n)
           \/ \E t \in BOOLEAN : Do("read_bytes", n, BytesAlloc(rd, n, t), n, left - n)
    BY <1>2 DEF ReadPart
  <2>2. n \in Nat  OBVIOUS
  <2>. QED  BY <2>1, <2>2, BytesIdle, TextIdle, DoIdle
<1>3. CASE ReadText  BY <1>3, BytesIdle, TextIdle, TimestampIdle, DoIdle DEF ReadText
<1>4. CASE Discard  BY <1>4, TagIdle DEF Discard, IdleAll
<1>5. CASE Remaining  BY <1>5 DEF Remaining, Do, Out
<1>6. CASE Reject  BY <1>6 DEF Reject
<1>. QED  BY <1>1, <1>2, <1>3, <1>4, <1>5, <1>6 DEF Next

LEMMA LacksHalts == ASSUME NEW s, NEW p, NEW n, Lacks(s, p, n) \/ TooBig(s, n)  PROVE Halted(s)
BY DEF Lacks, Starved, Cut, TooBig

LEMMA RefusedHalts ==
    ASSUME NEW o, NEW p, Passed(o, p), NEW v
    PROVE  Halted(Refused(o, v).rd)
<1>1. "type" # "ok"  OBVIOUS
<1>2. Refuses(FlagError(o.rd, "type"), "type")  BY <1>1, StandsRefuses DEF Passed
<1>. QED  BY <1>2 DEF Refused, Refuses, Out

HaltsAll(S) == \A o \in S : ~Good(o) => Halted(o.rd)

LEMMA BytesHalt ==
    ASSUME NEW r, NEW p, Stands(r, p), r.error = "ok", NEW count \in Nat
    PROVE  /\ HaltsAll(ReadBytes(r, count)) /\ HaltsAll(BytesInplace(r, count)) /\ HaltsAll(SkipBytes(r, count))
           /\ \A t : HaltsAll(BytesAlloc(r, count, t))
           /\ \A size, utf8 : HaltsAll(ReadCstr(r, size, count, utf8))
           /\ HaltsAll(ReadTimestamp(r, count))
<1>1. HaltsAll(ReadBytes(r, count))  BY ReadBytesBad, LacksHalts DEF HaltsAll
<1>2. HaltsAll(BytesInplace(r, count))  BY BytesInplaceBad, LacksHalts DEF HaltsAll
<1>3. HaltsAll(SkipBytes(r, count))  BY SkipBytesBad, LacksHalts DEF HaltsAll
<1>4. ASSUME NEW t  PROVE HaltsAll(BytesAlloc(r, count, t))
  <2>1. \A o \in BytesAlloc(r, count, t) : ~Good(o) => Lacks(o.rd, p, count) \/ Refuses(o.rd, "memory")
    BY BytesAllocBad
  <2>. QED  BY <2>1, LacksHalts DEF HaltsAll, Refuses
<1>5. ASSUME NEW size, NEW utf8  PROVE HaltsAll(ReadCstr(r, size, count, utf8))
  <2>1. \A o \in ReadCstr(r, size, count, utf8) :
           ~Good(o) => Lacks(o.rd, p, count) \/ Refuses(o.rd, "too_big") \/ Refuses(o.rd, "type")
    BY ReadCstrBad
  <2>. QED  BY <2>1, LacksHalts DEF HaltsAll, Refuses
<1>6. HaltsAll(ReadTimestamp(r, count))
  <2>1. \A o \in ReadTimestamp(r, count) : ~Good(o) => Lacks(o.rd, p, count) \/ Refuses(o.rd, "invalid")
    BY ReadTimestampBad
  <2>. QED  BY <2>1, LacksHalts DEF HaltsAll, Refuses
<1>. QED  BY <1>1, <1>2, <1>3, <1>4, <1>5, <1>6

LEMMA Utf8Halts ==
    ASSUME NEW r, NEW p, Stands(r, p), r.error = "ok", NEW count \in Nat
    PROVE  HaltsAll(ReadUtf8(r, count)) /\ HaltsAll(Utf8Inplace(r, count))
<1>1. ASSUME NEW o \in ReadUtf8(r, count), ~Good(o)  PROVE Halted(o.rd)
  <2>1. PICK q \in ReadBytes(r, count) : o = IF Good(q) /\ ~IsUtf8(q.v.bytes) THEN Refused(q, q.v) ELSE q
    BY DEF ReadUtf8
  <2>2. CASE Good(q)
    <3>1. Passed(q, p + count)  BY <2>2, ReadBytesReads DEF Reads
    <3>. QED  BY <1>1, <2>1, <2>2, <3>1, RefusedHalts
  <2>3. CASE ~Good(q)  BY <2>1, <2>3, BytesHalt DEF HaltsAll
  <2>. QED  BY <2>2, <2>3
<1>2. ASSUME NEW o \in Utf8Inplace(r, count), ~Good(o)  PROVE Halted(o.rd)
  <2>1. PICK q \in BytesInplace(r, count) : o = IF Good(q) /\ ~IsUtf8(q.v.bytes) THEN Refused(q, Null) ELSE q
    BY DEF Utf8Inplace
  <2>2. CASE Good(q)
    <3>1. Passed(q, p + count)  BY <2>2, BytesInplaceReads DEF Reads
    <3>. QED  BY <1>2, <2>1, <2>2, <3>1, RefusedHalts
  <2>3. CASE ~Good(q)  BY <2>1, <2>3, BytesHalt DEF HaltsAll
  <2>. QED  BY <2>2, <2>3
<1>. QED  BY <1>1, <1>2 DEF HaltsAll

LEMMA DoHalts ==
    ASSUME NEW f, NEW num, NEW outcomes, NEW bytes, NEW after, Do(f, num, outcomes, bytes, after),
           HaltsAll(outcomes), rd'.error # "ok"
    PROVE  Halted(rd')
BY DEF Do, HaltsAll, Good

LEMMA NextHalts ==
    ASSUME Ordered, rd.error = "ok", Next, rd'.error # "ok"
    PROVE  Halted(rd')
<1>0. Stands(rd, pos) /\ left \in Nat /\ Begins(stream, pos + left) /\ stream \in Streams  BY DEF Ordered
<1>1. Elements(stream) /\ pos \in Nat  BY <1>0, StreamsAssumption DEF Stands
<1>2. left = 0 => HaltsAll(ReadTag(rd)) /\ HaltsAll(PeekTag(rd)) /\ HaltsAll(DiscardOne(rd))
  <2>. SUFFICES ASSUME left = 0  PROVE HaltsAll(ReadTag(rd)) /\ HaltsAll(PeekTag(rd)) /\ HaltsAll(DiscardOne(rd))
    OBVIOUS
  <2>1. Begins(stream, pos)
    <3>1. pos + 0 = pos  BY <1>1
    <3>. QED  BY <1>0, <3>1
  <2>. QED  BY <1>0, <1>1, <2>1, ReadTagBad, PeekTagBad, DiscardOneBad DEF HaltsAll
<1>3. CASE Read \/ Peek
  <2>1. HaltsAll(Tags(ReadTag(rd))) /\ HaltsAll(Tags(PeekTag(rd)))
    BY <1>2, <1>3 DEF HaltsAll, Tags, Out, Good, Read, Peek, AtElement
  <2>. QED  BY <1>3, <2>1, DoHalts DEF Read, Peek
<1>4. CASE ReadPart
  <2>1. PICK n \in 0 .. left :
           \/ Do("read_bytes", n, ReadBytes(rd, n), n, left - n)
           \/ Do("read_bytes", n, BytesInplace(rd, n), n, left - n)
           \/ Do("skip", n, SkipBytes(rd, n), n, left - n)
           \/ \E t \in BOOLEAN : Do("read_bytes", n, BytesAlloc(rd, n, t), n, left - n)
    BY <1>4 DEF ReadPart
  <2>2. n \in Nat  OBVIOUS
  <2>. QED  BY <1>0, <2>1, <2>2, BytesHalt, DoHalts
<1>5. CASE ReadText  BY <1>0, <1>5, BytesHalt, Utf8Halts, DoHalts DEF ReadText
<1>6. CASE Discard  BY <1>2, <1>6 DEF Discard, HaltsAll, Good
<1>7. CASE Remaining  BY <1>7 DEF Remaining, Do, Out
<1>8. CASE Reject
  <2>1. rd' = FlagError(rd, "data")  BY <1>8 DEF Reject, Do, Out
  <2>2. "data" # "ok"  OBVIOUS
  <2>3. Refuses(FlagError(rd, "data"), "data")  BY <1>0, <2>2, StandsRefuses
  <2>. QED  BY <2>1, <2>3 DEF Refuses
<1>. QED  BY <1>3, <1>4, <1>5, <1>6, <1>7, <1>8 DEF Next

-----------------------------------------------------------------------------
(* Why an expectation fails at the element at p: it cannot be read, or it  *)
(* is not what is wanted                                                   *)

LEMMA AtBegins ==
    ASSUME NEW r, NEW p, At(r, p)
    PROVE  /\ Elements(stream) /\ Begins(stream, p) /\ p \in Nat /\ p < Len(stream)
           /\ Size(p) \in Nat /\ 1 <= Size(p) /\ Starts(p) /\ Stands(r, p) /\ r.error = "ok"
<1>1. Starts(p) /\ Stands(r, p) /\ r.error = "ok"  BY DEF At
<1>2. Size(p) \in Nat /\ 1 <= Size(p)  BY <1>1, TagSizes DEF Starts, Size
<1>. QED  BY <1>1, <1>2 DEF Starts, Begins

LEMMA TagUnread ==
    ASSUME NEW r, NEW p, At(r, p), NEW o \in ReadTag(r), ~Good(o)
    PROVE  Unreadable(o.rd, p)
BY AtBegins, ReadTagBad

LEMMA FlagStill ==
    ASSUME NEW o, ~Good(o), NEW e
    PROVE  FlagError(o.rd, e) = o.rd
BY DEF FlagError, Good

LEMMA PassedRefuses ==
    ASSUME NEW o, NEW p, Passed(o, p), NEW e, e # "ok"
    PROVE  Refuses(FlagError(o.rd, e), e)
BY StandsRefuses DEF Passed

(* A tag that was read and found to be another than was wanted *)
LEMMA TagChecked ==
    ASSUME NEW r, NEW p, At(r, p), NEW q \in ReadTag(r), NEW o, ~Good(o),
           o.rd = q.rd \/ o.rd = FlagError(q.rd, "type")
    PROVE  \/ Unreadable(o.rd, p)
           \/ Refuses(o.rd, "type") /\ o.rd # q.rd /\ q.v = Elem(p) /\ HeadRead(q, p)
<1>1. CASE Good(q)
  <2>1. HeadRead(q, p) /\ q.v = Elem(p)  BY <1>1, ReadTagElem
  <2>2. o.rd # q.rd  BY <1>1 DEF Good
  <2>3. "type" # "ok"  OBVIOUS
  <2>4. Passed(q, p + Size(p))  BY <2>1 DEF HeadRead
  <2>5. Refuses(FlagError(q.rd, "type"), "type")  BY <2>3, <2>4, PassedRefuses
  <2>. QED  BY <2>1, <2>2, <2>5
<1>2. CASE ~Good(q)
  <2>1. o.rd = q.rd  BY <1>2, FlagStill
  <2>. QED  BY <1>2, <2>1, TagUnread
<1>. QED  BY <1>1, <1>2

LEMMA ExpectIntegerBad ==
    ASSUME NEW r, NEW p, At(r, p), NEW f, NEW o \in ExpectInteger(r, f), ~Good(o)
    PROVE  \/ Unreadable(o.rd, p)
           \/ Refuses(o.rd, "type") /\ ~(IsInteger(Elem(p)) /\ Fits(f, Elem(p).n)) /\ p + Size(p) <= Len(stream)
<1>1. PICK q \in ReadTag(r) : o = IF IsInteger(q.v) /\ Fits(f, q.v.n) THEN Out(q.rd, Num(q.v.n)) ELSE Refused(q, Num(0))
  BY DEF ExpectInteger
<1>2. o.rd = q.rd \/ o.rd = FlagError(q.rd, "type")  BY <1>1 DEF Refused, Out
<1>3. IsInteger(q.v) /\ Fits(f, q.v.n) => o.rd = q.rd  BY <1>1 DEF Out
<1>. QED  BY <1>2, <1>3, TagChecked DEF HeadRead

LEMMA ExpectRealBad ==
    ASSUME NEW r, NEW p, At(r, p), NEW f, NEW o \in ExpectReal(r, f), ~Good(o)
    PROVE  Unreadable(o.rd, p) \/ (Refuses(o.rd, "type") /\ TagType(Elem(p)) \notin Accepts[f])
<1>1. PICK q \in ReadTag(r) : o = IF TagType(q.v) \in Accepts[f] THEN Out(q.rd, [real |-> Converted(f, TagType(q.v), q.v.n)])
                              ELSE Refused(q, ZeroReal(f))
  BY DEF ExpectReal
<1>2. o.rd = q.rd \/ o.rd = FlagError(q.rd, "type")  BY <1>1 DEF Refused, Out
<1>3. TagType(q.v) \in Accepts[f] => o.rd = q.rd  BY <1>1 DEF Out
<1>. QED  BY <1>2, <1>3, TagChecked

LEMMA ExpectCountBad ==
    ASSUME NEW r, NEW p, At(r, p), NEW type, NEW o \in ExpectCount(r, type), ~Good(o)
    PROVE  Unreadable(o.rd, p) \/ (Refuses(o.rd, "type") /\ TagType(Elem(p)) # type)
<1>1. PICK q \in ReadTag(r) : o = IF TagType(q.v) = type THEN Out(q.rd, Num(q.v.n)) ELSE Refused(q, Num(0))
  BY DEF ExpectCount
<1>2. o.rd = q.rd \/ o.rd = FlagError(q.rd, "type")  BY <1>1 DEF Refused, Out
<1>3. TagType(q.v) = type => o.rd = q.rd  BY <1>1 DEF Out
<1>. QED  BY <1>2, <1>3, TagChecked

LEMMA ExpectOrNilBad ==
    ASSUME NEW r, NEW p, At(r, p), NEW type, NEW o \in ExpectOrNil(r, type), ~Good(o)
    PROVE  Unreadable(o.rd, p) \/ (Refuses(o.rd, "type") /\ TagType(Elem(p)) \notin {type, "nil"})
<1>1. PICK q \in ReadTag(r) :
         o = IF TagType(q.v) = type THEN Out(q.rd, [some |-> TRUE, num |-> q.v.n])
             ELSE IF TagType(q.v) = "nil" THEN Out(q.rd, [some |-> FALSE, num |-> 0])
             ELSE Refused(q, [some |-> FALSE, num |-> 0])
  BY DEF ExpectOrNil
<1>2. o.rd = q.rd \/ o.rd = FlagError(q.rd, "type")  BY <1>1 DEF Refused, Out
<1>3. TagType(q.v) \in {type, "nil"} => o.rd = q.rd  BY <1>1 DEF Out
<1>. QED  BY <1>2, <1>3, TagChecked

LEMMA ExpectExtBad ==
    ASSUME NEW r, NEW p, At(r, p), NEW o \in ExpectExt(r), ~Good(o)
    PROVE  Unreadable(o.rd, p) \/ (Refuses(o.rd, "type") /\ TagType(Elem(p)) # "ext")
<1>1. PICK q \in ReadTag(r) :
         o = IF TagType(q.v) = "ext" THEN Out(q.rd, [num |-> q.v.n, exttype |-> q.v.exttype])
             ELSE Refused(q, [num |-> 0, exttype |-> 0])
  BY DEF ExpectExt
<1>2. o.rd = q.rd \/ o.rd = FlagError(q.rd, "type")  BY <1>1 DEF Refused, Out
<1>3. TagType(q.v) = "ext" => o.rd = q.rd  BY <1>1 DEF Out
<1>. QED  BY <1>2, <1>3, TagChecked

LEMMA ExpectTagBad ==
    ASSUME NEW r, NEW p, At(r, p), NEW tag, NEW o \in ExpectTag(r, tag), ~Good(o)
    PROVE  Unreadable(o.rd, p) \/ (Refuses(o.rd, "type") /\ ~TagEqual(tag, Elem(p)))
<1>1. PICK q \in ReadTag(r) : o = IF TagEqual(q.v, tag) THEN Out(q.rd, Null) ELSE Refused(q, Null)
  BY DEF ExpectTag
<1>2. o.rd = q.rd \/ o.rd = FlagError(q.rd, "type")  BY <1>1 DEF Refused, Out
<1>3. TagEqual(q.v, tag) => o.rd = q.rd  BY <1>1 DEF Out
<1>4. \A a, b : TagEqual(a, b) => TagEqual(b, a)  BY DEF TagEqual, SameType
<1>. QED  BY <1>2, <1>3, <1>4, TagChecked

(* The first byte *)
LEMMA ByteChecked ==
    ASSUME NEW r, NEW p, At(r, p), NEW q \in TypeByte(r), NEW o, ~Good(o),
           o.rd = q.rd \/ o.rd = FlagError(q.rd, "type")
    PROVE  \/ Unreadable(o.rd, p)
           \/ Refuses(o.rd, "type") /\ o.rd # q.rd /\ q.v = stream[p + 1]
<1>0. Starts(p) /\ Stands(r, p) /\ r.error = "ok" /\ 1 <= Size(p)  BY AtBegins
<1>1. CASE Good(q)
  <2>1. Passed(q, p + 1) /\ q.v = stream[p + 1]  BY <1>0, <1>1, TypeByteGood
  <2>2. o.rd # q.rd  BY <1>1 DEF Good
  <2>3. "type" # "ok"  OBVIOUS
  <2>4. Refuses(FlagError(q.rd, "type"), "type")  BY <2>1, <2>3, PassedRefuses
  <2>. QED  BY <2>1, <2>2, <2>4
<1>2. CASE ~Good(q)
  <2>1. o.rd = q.rd  BY <1>2, FlagStill
  <2>2. Lacks(q.rd, p, 1) \/ TooBig(q.rd, 1)  BY <1>0, <1>2, TypeByteBad
  <2>3. 1 \in Nat  OBVIOUS
  <2>4. Unreadable(q.rd, p)  BY <1>0, <2>2, <2>3, HeadLacks
  <2>. QED  BY <2>1, <2>4
<1>. QED  BY <1>1, <1>2

LEMMA ExpectNilBad ==
    ASSUME NEW r, NEW p, At(r, p), NEW o \in ExpectNil(r), ~Good(o)
    PROVE  Unreadable(o.rd, p) \/ (Refuses(o.rd, "type") /\ TagType(Elem(p)) # "nil")
<1>1. PICK q \in TypeByte(r) : o = IF q.v.t = "nil" THEN Out(q.rd, Null) ELSE Refused(q, Null)  BY DEF ExpectNil
<1>2. o.rd = q.rd \/ o.rd = FlagError(q.rd, "type")  BY <1>1 DEF Refused, Out
<1>3. q.v.t = "nil" => o.rd = q.rd  BY <1>1 DEF Out
<1>4. stream[p + 1].t # "nil" => TagType(Elem(p)) # "nil"
  <2>1. Starts(p) /\ stream[p + 1].t \in DOMAIN Width  BY DEF At, Starts
  <2>. QED  BY <2>1, ElemKind, KindsOfText
<1>. QED  BY <1>2, <1>3, <1>4, ByteChecked

LEMMA ExpectBoolBad ==
    ASSUME NEW r, NEW p, At(r, p), NEW o \in ExpectBool(r), ~Good(o)
    PROVE  Unreadable(o.rd, p) \/ (Refuses(o.rd, "type") /\ TagType(Elem(p)) # "bool")
<1>1. PICK q \in TypeByte(r) : o \in IF TypeOf(q.v) = "bool" THEN {Out(q.rd, [bool |-> q.v.t = "true"])}
                                     ELSE {Refused(q, [bool |-> b]) : b \in LowBit(q.v)}
  BY DEF ExpectBool
<1>2. (TypeOf(q.v) = "bool" => o.rd = q.rd) /\ (TypeOf(q.v) # "bool" => o.rd = FlagError(q.rd, "type"))
  <2>1. CASE TypeOf(q.v) = "bool"
    <3>1. o = Out(q.rd, [bool |-> q.v.t = "true"])  BY <1>1, <2>1
    <3>. QED  BY <2>1, <3>1 DEF Out
  <2>2. CASE TypeOf(q.v) # "bool"
    <3>1. o \in {Refused(q, [bool |-> b]) : b \in LowBit(q.v)}  BY <1>1, <2>2
    <3>2. PICK b \in LowBit(q.v) : o = Refused(q, [bool |-> b])  BY <3>1
    <3>. QED  BY <2>2, <3>2 DEF Refused, Out
  <2>. QED  BY <2>1, <2>2
<1>3. TagType(Elem(p)) = TypeOf(stream[p + 1])  BY ElemKind DEF At
<1>. QED  BY <1>2, <1>3, ByteChecked

LEMMA ExpectJustBad ==
    ASSUME NEW r, NEW p, At(r, p), NEW want \in BOOLEAN, NEW o \in ExpectJust(r, want), ~Good(o)
    PROVE  Unreadable(o.rd, p) \/ (Refuses(o.rd, "type") /\ Elem(p).tag # IF want THEN "true" ELSE "false")
<1>1. PICK q \in ExpectBool(r) : o = IF q.v.bool = want THEN Out(q.rd, Null) ELSE Refused(q, Null)
  BY DEF ExpectJust
<1>2. (o.rd = q.rd \/ o.rd = FlagError(q.rd, "type")) /\ (q.v.bool = want => o.rd = q.rd)
  BY <1>1 DEF Refused, Out
<1>3. CASE Good(q)
  <2>1. /\ HeadRead(q, p) /\ Elem(p).tag \in {"true", "false"} /\ q.v = [bool |-> Elem(p).tag = "true"]
    BY <1>3, ExpectBoolGood
  <2>2. o.rd # q.rd /\ o.rd = FlagError(q.rd, "type")  BY <1>2, <1>3 DEF Good
  <2>3. "type" # "ok"  OBVIOUS
  <2>4. Refuses(FlagError(q.rd, "type"), "type")  BY <2>1, <2>3, PassedRefuses DEF HeadRead
  <2>5. q.v.bool # want  BY <1>2, <2>2
  <2>. QED  BY <2>1, <2>2, <2>4, <2>5
<1>4. CASE ~Good(q)
  <2>1. o.rd = q.rd  BY <1>2, <1>4, FlagStill
  <2>2. Unreadable(q.rd, p) \/ (Refuses(q.rd, "type") /\ TagType(Elem(p)) # "bool")  BY <1>4, ExpectBoolBad
  <2>3. TagType(Elem(p)) # "bool" => Elem(p).tag \notin {"true", "false"}
    <3>1. Starts(p) /\ stream[p + 1].t \in DOMAIN Width  BY DEF At, Starts
    <3>. QED  BY <3>1, ElemKind, KindsOfText
  <2>. QED  BY <2>1, <2>2, <2>3
<1>. QED  BY <1>3, <1>4

-----------------------------------------------------------------------------
(* The checks of a number that was read *)

(* An outcome that is passed on, or refused *)
LEMMA Judged ==
    ASSUME NEW q, NEW o, ~Good(o), NEW e, e # "ok", o.rd = q.rd \/ o.rd = FlagError(q.rd, e),
           NEW p, Good(q) => Passed(q, p)
    PROVE  (~Good(q) /\ o.rd = q.rd) \/ (Good(q) /\ Refuses(o.rd, e) /\ o.rd # q.rd)
<1>1. CASE Good(q)
  <2>1. o.rd # q.rd  BY <1>1 DEF Good
  <2>2. Refuses(FlagError(q.rd, e), e)  BY <1>1, PassedRefuses
  <2>. QED  BY <1>1, <2>1, <2>2
<1>2. CASE ~Good(q)  BY <1>2, FlagStill
<1>. QED  BY <1>1, <1>2

PassedAll(S, p) == \A q \in S : Good(q) => Passed(q, p)

LEMMA WithinBad ==
    ASSUME NEW S, NEW p, PassedAll(S, p), NEW low, NEW high, NEW o \in Within(S, low, high), ~Good(o)
    PROVE  \E q \in S : \/ ~Good(q) /\ o.rd = q.rd
                        \/ Good(q) /\ Refuses(o.rd, "type") /\ q.v.num \notin low .. high
<1>1. PICK q \in S : o = IF ~Good(q) THEN Out(q.rd, Num(low))
                         ELSE IF q.v.num \notin low .. high THEN Refused(q, Num(low)) ELSE q
  BY DEF Within
<1>2. o.rd = q.rd \/ o.rd = FlagError(q.rd, "type")  BY <1>1 DEF Refused, Out
<1>3. Good(q) /\ q.v.num \in low .. high => o.rd = q.rd  BY <1>1
<1>4. "type" # "ok"  OBVIOUS
<1>5. (~Good(q) /\ o.rd = q.rd) \/ (Good(q) /\ Refuses(o.rd, "type") /\ o.rd # q.rd)
  BY <1>2, <1>4, Judged DEF PassedAll
<1>. QED  BY <1>3, <1>5

LEMMA MatchBad ==
    ASSUME NEW S, NEW p, PassedAll(S, p), NEW n, NEW o \in Match(S, n), ~Good(o)
    PROVE  \E q \in S : (~Good(q) /\ o.rd = q.rd) \/ (Good(q) /\ Refuses(o.rd, "type") /\ q.v.num # n)
<1>1. PICK q \in S : o = IF q.v.num = n THEN Out(q.rd, Null) ELSE Refused(q, Null)  BY DEF Match
<1>2. o.rd = q.rd \/ o.rd = FlagError(q.rd, "type")  BY <1>1 DEF Refused, Out
<1>3. q.v.num = n => o.rd = q.rd  BY <1>1 DEF Out
<1>4. "type" # "ok"  OBVIOUS
<1>5. (~Good(q) /\ o.rd = q.rd) \/ (Good(q) /\ Refuses(o.rd, "type") /\ o.rd # q.rd)
  BY <1>2, <1>4, Judged DEF PassedAll
<1>. QED  BY <1>3, <1>5

LEMMA AtMostBad ==
    ASSUME NEW S, NEW p, PassedAll(S, p), NEW max, NEW e, e # "ok", NEW o \in AtMost(S, max, e), ~Good(o)
    PROVE  \E q \in S : (~Good(q) /\ o.rd = q.rd) \/ (Good(q) /\ Refuses(o.rd, e) /\ q.v.num > max)
<1>1. PICK q \in S : o = IF q.v.num > max THEN Out(FlagError(q.rd, e), [q.v EXCEPT !.num = 0]) ELSE q
  BY DEF AtMost
<1>2. o.rd = q.rd \/ o.rd = FlagError(q.rd, e)  BY <1>1 DEF Out
<1>3. ~(q.v.num > max) => o.rd = q.rd  BY <1>1
<1>5. (~Good(q) /\ o.rd = q.rd) \/ (Good(q) /\ Refuses(o.rd, e) /\ o.rd # q.rd)
  BY <1>2, Judged DEF PassedAll
<1>. QED  BY <1>3, <1>5

LEMMA HeadsPassed ==
    ASSUME NEW r, NEW p, At(r, p)
    PROVE  /\ \A f : PassedAll(ExpectInteger(r, f), p + Size(p))
           /\ \A type : PassedAll(ExpectCount(r, type), p + Size(p)) /\ PassedAll(ExpectOrNil(r, type), p + Size(p))
           /\ PassedAll(ExpectStr(r), p + Size(p)) /\ PassedAll(ExpectExt(r), p + Size(p))
<1>1. ASSUME NEW f  PROVE PassedAll(ExpectInteger(r, f), p + Size(p))
  BY ExpectIntegerGood DEF PassedAll, HeadRead
<1>2. ASSUME NEW type  PROVE PassedAll(ExpectCount(r, type), p + Size(p))
  BY ExpectCountGood DEF PassedAll, HeadRead
<1>3. ASSUME NEW type  PROVE PassedAll(ExpectOrNil(r, type), p + Size(p))
  <2>1. \A o \in ExpectOrNil(r, type) : Good(o) => HeadRead(o, p)  BY ExpectOrNilGood
  <2>. QED  BY <2>1 DEF PassedAll, HeadRead
<1>4. PassedAll(ExpectStr(r), p + Size(p))  BY ExpectStrGood DEF PassedAll, HeadRead
<1>5. PassedAll(ExpectExt(r), p + Size(p))  BY ExpectExtGood DEF PassedAll, HeadRead
<1>. QED  BY <1>1, <1>2, <1>3, <1>4, <1>5

LEMMA MaxOrNilBad ==
    ASSUME NEW r, NEW p, At(r, p), NEW type, NEW max, NEW o \in MaxOrNil(r, type, max), ~Good(o)
    PROVE  \/ \E q \in ExpectOrNil(r, type) : ~Good(q) /\ o.rd = q.rd
           \/ /\ Refuses(o.rd, "type") /\ TagType(Elem(p)) = type /\ Elem(p).n > max
              /\ p + Size(p) <= Len(stream)
<1>. DEFINE none == [some |-> FALSE, num |-> 0]
<1>1. PICK q \in ExpectOrNil(r, type) : o = IF q.v.some /\ q.v.num > max THEN Refused(q, none) ELSE q
  BY DEF MaxOrNil
<1>2. (o.rd = q.rd \/ o.rd = FlagError(q.rd, "type")) /\ (o.rd # q.rd => q.v.some /\ q.v.num > max)
  BY <1>1 DEF Refused, Out
<1>3. "type" # "ok"  OBVIOUS
<1>4. PassedAll(ExpectOrNil(r, type), p + Size(p))  BY HeadsPassed
<1>5. (~Good(q) /\ o.rd = q.rd) \/ (Good(q) /\ Refuses(o.rd, "type") /\ o.rd # q.rd)
  BY <1>2, <1>3, <1>4, Judged DEF PassedAll
<1>6. CASE Good(q) /\ o.rd # q.rd
  <2>1. /\ HeadRead(q, p)
        /\ \/ TagType(Elem(p)) = type /\ q.v = [some |-> TRUE, num |-> Elem(p).n]
           \/ TagType(Elem(p)) # type /\ TagType(Elem(p)) = "nil" /\ q.v = [some |-> FALSE, num |-> 0]
    BY <1>6, ExpectOrNilGood
  <2>2. q.v.some /\ q.v.num > max  BY <1>2, <1>6
  <2>3. TagType(Elem(p)) = type /\ q.v = [some |-> TRUE, num |-> Elem(p).n]  BY <2>1, <2>2
  <2>. QED  BY <1>5, <1>6, <2>1, <2>2, <2>3 DEF HeadRead
<1>. QED  BY <1>5, <1>6

LEMMA ExpectStrBad ==
    ASSUME NEW r, NEW p, At(r, p), NEW o \in ExpectStr(r), ~Good(o)
    PROVE  Unreadable(o.rd, p) \/ (Refuses(o.rd, "type") /\ TagType(Elem(p)) # "str")
<1>. DEFINE first == stream[p + 1]
<1>0. Starts(p) /\ Stands(r, p) /\ r.error = "ok" /\ p \in Nat  BY AtBegins
<1>1. PICK q \in TypeByte(r) :
         o \in IF q.v.t = "fixstr" THEN {Out(q.rd, Num(q.v.n))}
               ELSE IF TypeOf(q.v) = "str" THEN {Out(n.rd, Num(n.v)) : n \in Native(q.rd, Width[q.v.t])}
               ELSE {Refused(q, Num(0))}
  BY Zenon DEF ExpectStr
<1>2. TagType(Elem(p)) = TypeOf(first)  BY <1>0, ElemKind
<1>3. CASE o.rd = q.rd  BY <1>3, ByteChecked
<1>4. CASE q.v.t = "fixstr"
  <2>1. o = Out(q.rd, Num(q.v.n))  BY <1>1, <1>4
  <2>. QED  BY <1>3, <2>1 DEF Out
<1>5. CASE q.v.t # "fixstr" /\ TypeOf(q.v) # "str"
  <2>1. o = Refused(q, Num(0))  BY <1>1, <1>5
  <2>2. o.rd = FlagError(q.rd, "type")  BY <2>1 DEF Refused, Out
  <2>3. \/ Unreadable(o.rd, p)
        \/ Refuses(o.rd, "type") /\ o.rd # q.rd /\ q.v = first
    BY <2>2, ByteChecked
  <2>. QED  BY <1>2, <1>5, <2>3
<1>6. CASE q.v.t # "fixstr" /\ TypeOf(q.v) = "str"
  <2>1. o \in {Out(n.rd, Num(n.v)) : n \in Native(q.rd, Width[q.v.t])}  BY <1>1, <1>6
  <2>2. PICK n \in Native(q.rd, Width[q.v.t]) : o = Out(n.rd, Num(n.v))  BY <2>1
  <2>3. o.rd = n.rd  BY <2>2 DEF Out
  <2>4. CASE ~Good(q)
    <3>1. IdleAll(Native(q.rd, Width[q.v.t]), q.rd)  BY <2>4, NativeIdle DEF Good
    <3>2. n.rd = q.rd  BY <3>1 DEF IdleAll
    <3>. QED  BY <1>3, <2>3, <3>2
  <2>5. CASE Good(q)
    <3>1. Passed(q, p + 1) /\ q.v = first  BY <1>0, <2>5, TypeByteGood
    <3>2. first.t \in {"str8", "str16", "str32"}  BY <1>0, <1>6, <3>1, KindsOfText DEF Starts
    <3>3. PICK w \in {1, 2, 4} : w = Width[first.t]  BY <3>2 DEF Width
    <3>4. Size(p) = 1 + w  BY <3>2, <3>3 DEF Size, TagSize, ExtTags
    <3>5. n \in Native(q.rd, w) /\ ~Good(n)  BY <2>2, <2>3, <3>1, <3>3 DEF Good
    <3>6. Stands(q.rd, p + 1) /\ q.rd.error = "ok" /\ w \in Nat  BY <3>1, <3>3 DEF Passed
    <3>7. Lacks(n.rd, p + 1, w) \/ TooBig(n.rd, w)  BY <3>5, <3>6, NativeBad
    <3>8. Lacks(n.rd, p, 1 + w) \/ TooBig(n.rd, 1 + w)
      <4>1. CASE Starved(n.rd, p + 1 + w)
        <5>1. p + (1 + w) > n.rd.drawn  BY <1>0, <3>6, <4>1 DEF Starved
        <5>. QED  BY <4>1, <5>1 DEF Starved, Lacks
      <4>2. CASE Cut(n.rd, p + 1, w)
        <5>1. p + (1 + w) > n.rd.drawn  BY <1>0, <3>6, <4>2 DEF Cut
        <5>. QED  BY <4>2, <5>1 DEF Cut, Lacks
      <4>3. CASE TooBig(n.rd, w)
        <5>1. 1 + w > n.rd.size  BY <3>6, <4>3 DEF TooBig
        <5>. QED  BY <4>3, <5>1 DEF TooBig
      <4>. QED  BY <3>7, <4>1, <4>2, <4>3 DEF Lacks
    <3>9. 1 + w \in Nat /\ 1 + w <= Size(p)  BY <3>4, <3>6
    <3>10. Unreadable(n.rd, p)  BY <1>0, <3>8, <3>9, HeadLacks
    <3>. QED  BY <2>3, <3>10
  <2>. QED  BY <2>4, <2>5
<1>. QED  BY <1>4, <1>5, <1>6

-----------------------------------------------------------------------------
(* Bytes that cannot be read, or are too many, or of the wrong form *)

KnownAll(S, p, kind) == \A q \in S : Good(q) => HeadKnown(q, p) /\ TagType(Elem(p)) = kind

Over(p, kind, n) == TagType(Elem(p)) = kind /\ Elem(p).n > n

LEMMA BufferedBad ==
    ASSUME NEW p, Starts(p), NEW S, NEW kind, KnownAll(S, p, kind), NEW size, NEW o \in Buffered(S, size), ~Good(o)
    PROVE  \/ \E q \in S : ~Good(q) /\ o.rd = q.rd
           \/ Unreadable(o.rd, p)
           \/ Refuses(o.rd, "too_big") /\ Over(p, kind, size)
<1>1. PICK q \in S :
         o \in IF ~Good(q) THEN {Out(q.rd, [bytes |-> << >>])}
               ELSE IF q.v.num > size THEN {Out(FlagError(q.rd, "too_big"), [bytes |-> << >>])}
               ELSE {Out(b.rd, [bytes |-> IF Good(b) THEN b.v ELSE << >>]) : b \in ReadNative(q.rd, q.v.num)}
  BY DEF Buffered
<1>2. CASE ~Good(q)
  <2>1. o = Out(q.rd, [bytes |-> << >>])  BY <1>1, <1>2
  <2>. QED  BY <1>2, <2>1 DEF Out
<1>3. ASSUME Good(q)  PROVE /\ Stands(q.rd, p + Size(p)) /\ q.rd.error = "ok" /\ p + Size(p) <= Len(stream)
                            /\ q.v.num = Contents(Elem(p)) /\ Contents(Elem(p)) \in Nat
                            /\ q.v.num = Elem(p).n /\ TagType(Elem(p)) = kind
  <2>1. HeadKnown(q, p) /\ TagType(Elem(p)) = kind  BY <1>3 DEF KnownAll
  <2>. QED  BY <2>1, HeadStands
<1>4. CASE Good(q) /\ q.v.num > size
  <2>1. o = Out(FlagError(q.rd, "too_big"), [bytes |-> << >>])  BY <1>1, <1>4
  <2>2. "too_big" # "ok"  OBVIOUS
  <2>3. Refuses(FlagError(q.rd, "too_big"), "too_big")  BY <1>3, <1>4, <2>2, StandsRefuses
  <2>4. Over(p, kind, size)  BY <1>3, <1>4 DEF Over
  <2>. QED  BY <2>1, <2>3, <2>4 DEF Out
<1>5. CASE Good(q) /\ ~(q.v.num > size)
  <2>1. o \in {Out(b.rd, [bytes |-> IF Good(b) THEN b.v ELSE << >>]) : b \in ReadNative(q.rd, q.v.num)}
    BY <1>1, <1>5
  <2>2. PICK b \in ReadNative(q.rd, q.v.num) : o = Out(b.rd, [bytes |-> IF Good(b) THEN b.v ELSE << >>])
    BY <2>1
  <2>3. o.rd = b.rd /\ ~Good(b)  BY <2>2 DEF Good, Out
  <2>4. Lacks(b.rd, p + Size(p), Contents(Elem(p)))  BY <1>3, <1>5, <2>2, <2>3, ReadNativeBad
  <2>5. Contents(Elem(p)) <= Contents(Elem(p))  BY <1>3, <1>5
  <2>6. Unreadable(b.rd, p)  BY <1>3, <1>5, <2>4, <2>5, BodyLacks
  <2>. QED  BY <2>3, <2>6
<1>. QED  BY <1>2, <1>4, <1>5

LEMMA BufferedUtf8Bad ==
    ASSUME NEW r, NEW p, At(r, p), NEW S, KeptAll(S, r), NEW kind, KnownAll(S, p, kind), NEW size,
           NEW o \in BufferedUtf8(S, size), ~Good(o)
    PROVE  \/ \E q \in S : ~Good(q) /\ o.rd = q.rd
           \/ Unreadable(o.rd, p)
           \/ Refuses(o.rd, "too_big") /\ Over(p, kind, size)
           \/ Refuses(o.rd, "type") /\ ~IsUtf8(BodyAt(p))
<1>1. PICK q \in Buffered(S, size) : o = IF IsUtf8(q.v.bytes) THEN q ELSE Refused(q, [bytes |-> << >>])
  BY DEF BufferedUtf8
<1>2. (o.rd = q.rd \/ o.rd = FlagError(q.rd, "type")) /\ (o.rd # q.rd => ~IsUtf8(q.v.bytes))
  BY <1>1 DEF Refused, Out
<1>3. Starts(p)  BY DEF At
<1>4. CASE Good(q)
  <2>1. \A s \in S : Good(s) => HeadKnown(s, p) /\ TagType(Elem(p)) = TagType(Elem(p))  BY DEF KnownAll
  <2>2. WholeRead(q, p) /\ q.v = [bytes |-> BodyAt(p)]  BY <1>4, <2>1, BufferedGood
  <2>3. o.rd # q.rd  BY <1>4 DEF Good
  <2>4. ~IsUtf8(BodyAt(p))
    <3>1. q.v.bytes = BodyAt(p)  BY <2>2
    <3>. QED  BY <1>2, <2>3, <3>1
  <2>5. Passed(q, p + Size(p) + Contents(Elem(p))) /\ "type" # "ok"  BY <2>2 DEF WholeRead
  <2>6. Refuses(FlagError(q.rd, "type"), "type")  BY <2>5, PassedRefuses
  <2>. QED  BY <1>2, <2>3, <2>4, <2>6
<1>5. CASE ~Good(q)
  <2>1. o.rd = q.rd  BY <1>2, <1>5, FlagStill
  <2>2. \/ \E s \in S : ~Good(s) /\ q.rd = s.rd
        \/ Unreadable(q.rd, p)
        \/ Refuses(q.rd, "too_big") /\ Over(p, kind, size)
    BY <1>3, <1>5, BufferedBad
  <2>. QED  BY <2>1, <2>2
<1>. QED  BY <1>4, <1>5

LEMMA HeadsKnown ==
    ASSUME NEW r, NEW p, At(r, p)
    PROVE  /\ KnownAll(ExpectStr(r), p, "str") /\ KnownAll(ExpectCount(r, "bin"), p, "bin")
           /\ KnownAll(ExpectExt(r), p, "ext")
<1>1. ASSUME NEW o \in ExpectStr(r), Good(o)  PROVE HeadKnown(o, p) /\ TagType(Elem(p)) = "str"
  <2>1. HeadRead(o, p) /\ o.v = Num(Elem(p).n) /\ TagType(Elem(p)) = "str"  BY <1>1, ExpectStrGood
  <2>2. o.v.num = Elem(p).n  BY <2>1 DEF Num
  <2>. QED  BY <2>1, <2>2 DEF HeadKnown, Holding
<1>2. ASSUME NEW o \in ExpectCount(r, "bin"), Good(o)  PROVE HeadKnown(o, p) /\ TagType(Elem(p)) = "bin"
  <2>1. HeadRead(o, p) /\ o.v = Num(Elem(p).n) /\ TagType(Elem(p)) = "bin"  BY <1>2, ExpectCountGood
  <2>2. o.v.num = Elem(p).n  BY <2>1 DEF Num
  <2>. QED  BY <2>1, <2>2 DEF HeadKnown, Holding
<1>3. ASSUME NEW o \in ExpectExt(r), Good(o)  PROVE HeadKnown(o, p) /\ TagType(Elem(p)) = "ext"
  <2>1. /\ HeadRead(o, p) /\ o.v = [num |-> Elem(p).n, exttype |-> Elem(p).exttype]
        /\ TagType(Elem(p)) = "ext"
    BY <1>3, ExpectExtGood
  <2>2. o.v.num = Elem(p).n  BY <2>1
  <2>. QED  BY <2>1, <2>2 DEF HeadKnown, Holding
<1>. QED  BY <1>1, <1>2, <1>3 DEF KnownAll

LEMMA ExtBufBad ==
    ASSUME NEW r, NEW p, At(r, p), NEW size, NEW o \in ExtBuf(r, size), ~Good(o)
    PROVE  \/ Unreadable(o.rd, p)
           \/ Refuses(o.rd, "type") /\ TagType(Elem(p)) # "ext"
           \/ Refuses(o.rd, "too_big") /\ Over(p, "ext", size)
<1>0. Starts(p)  BY DEF At
<1>1. PICK e \in ExpectExt(r) : o \in {WithType(q, e.v.exttype) : q \in Buffered({e}, size)}  BY DEF ExtBuf
<1>2. PICK q \in Buffered({e}, size) : o = WithType(q, e.v.exttype)  BY <1>1
<1>3. o.rd = q.rd /\ ~Good(q)  BY <1>2 DEF WithType, Out, Good
<1>4. KnownAll({e}, p, "ext")  BY <1>1, HeadsKnown DEF KnownAll
<1>5. \/ \E s \in {e} : ~Good(s) /\ q.rd = s.rd
      \/ Unreadable(q.rd, p)
      \/ Refuses(q.rd, "too_big") /\ Over(p, "ext", size)
  BY <1>0, <1>3, <1>4, BufferedBad
<1>6. ~Good(e) => Unreadable(e.rd, p) \/ (Refuses(e.rd, "type") /\ TagType(Elem(p)) # "ext")
  BY <1>1, ExpectExtBad
<1>. QED  BY <1>3, <1>5, <1>6

LEMMA ExpectCstrBad ==
    ASSUME NEW r, NEW p, At(r, p), NEW size \in Nat, NEW utf8, NEW o \in ExpectCstr(r, size, utf8), ~Good(o)
    PROVE  \/ Unreadable(o.rd, p)
           \/ Refuses(o.rd, "type") /\ ~(TagType(Elem(p)) = "str" /\ Valid(BodyAt(p), utf8, TRUE))
           \/ Refuses(o.rd, "too_big") /\ TagType(Elem(p)) = "str" /\ Elem(p).n >= size
<1>0. Starts(p)  BY DEF At
<1>1. PICK q \in ExpectStr(r) : o \in ReadCstr(q.rd, size, q.v.num, utf8)  BY DEF ExpectCstr
<1>2. CASE ~Good(q)
  <2>1. IdleAll(ReadCstr(q.rd, size, q.v.num, utf8), q.rd)  BY <1>2, TextIdle DEF Good
  <2>2. o.rd = q.rd  BY <1>1, <2>1 DEF IdleAll
  <2>. QED  BY <1>2, <2>2, ExpectStrBad
<1>3. CASE Good(q)
  <2>1. HeadKnown(q, p) /\ TagType(Elem(p)) = "str"  BY <1>3, HeadsKnown DEF KnownAll
  <2>2. /\ Stands(q.rd, p + Size(p)) /\ q.rd.error = "ok" /\ p + Size(p) <= Len(stream)
        /\ q.v.num = Contents(Elem(p)) /\ Contents(Elem(p)) \in Nat /\ Elem(p).n = Contents(Elem(p))
    BY <1>0, <2>1, HeadStands
  <2>3. PICK n \in Nat : n = Contents(Elem(p)) /\ n = Elem(p).n  BY <2>2
  <2>4. o \in ReadCstr(q.rd, size, n, utf8)  BY <1>1, <2>2, <2>3
  <2>5. \/ Lacks(o.rd, p + Size(p), n)
        \/ Refuses(o.rd, "too_big") /\ n > size - 1
        \/ /\ Refuses(o.rd, "type") /\ p + Size(p) + n <= Len(stream)
           /\ ~Valid(SubSeq(stream, p + Size(p) + 1, p + Size(p) + n), utf8, TRUE)
    BY <2>2, <2>4, ReadCstrBad
  <2>6. CASE Lacks(o.rd, p + Size(p), n)
    <3>1. n <= Contents(Elem(p))  BY <2>3
    <3>. QED  BY <1>0, <2>2, <2>6, <3>1, BodyLacks
  <2>7. CASE Refuses(o.rd, "too_big") /\ n > size - 1
    <3>1. n >= size  BY <2>7
    <3>. QED  BY <2>1, <2>3, <2>7, <3>1
  <2>8. CASE /\ Refuses(o.rd, "type") /\ p + Size(p) + n <= Len(stream)
             /\ ~Valid(SubSeq(stream, p + Size(p) + 1, p + Size(p) + n), utf8, TRUE)
    <3>1. BodyAt(p) = SubSeq(stream, p + Size(p) + 1, p + Size(p) + n)  BY <2>3, <2>8 DEF BodyAt
    <3>. QED  BY <2>8, <3>1
  <2>. QED  BY <2>5, <2>6, <2>7, <2>8
<1>. QED  BY <1>2, <1>3

(* Bytes that were to be allocated behind a head that was read *)
LEMMA AllocatedBad ==
    ASSUME NEW p, Starts(p), NEW q, HeadKnown(q, p), NEW terminated,
           NEW o \in BytesAlloc(q.rd, q.v.num, terminated), ~Good(o)
    PROVE  Unreadable(o.rd, p) \/ (Refuses(o.rd, "memory") /\ (Elem(p).n > 0 \/ terminated))
<1>1. /\ Stands(q.rd, p + Size(p)) /\ q.rd.error = "ok" /\ p + Size(p) <= Len(stream)
      /\ q.v.num = Contents(Elem(p)) /\ Contents(Elem(p)) \in Nat /\ Elem(p).n = Contents(Elem(p))
  BY HeadStands
<1>2. o \in BytesAlloc(q.rd, Contents(Elem(p)), terminated)  BY <1>1
<1>3. \/ Lacks(o.rd, p + Size(p), Contents(Elem(p)))
      \/ Refuses(o.rd, "memory") /\ (Contents(Elem(p)) # 0 \/ terminated)
  BY <1>1, <1>2, BytesAllocBad
<1>4. Contents(Elem(p)) <= Contents(Elem(p))  BY <1>1
<1>5. Lacks(o.rd, p + Size(p), Contents(Elem(p))) => Unreadable(o.rd, p)  BY <1>1, <1>4, BodyLacks
<1>6. Contents(Elem(p)) # 0 => Elem(p).n > 0
  <2>1. PICK n \in Nat : n = Contents(Elem(p)) /\ n = Elem(p).n  BY <1>1
  <2>2. n # 0 => n > 0  OBVIOUS
  <2>. QED  BY <2>1, <2>2
<1>. QED  BY <1>3, <1>5, <1>6

LEMMA CstrAllocBad ==
    ASSUME NEW r, NEW p, At(r, p), NEW size \in Nat, NEW utf8, NEW o \in CstrAlloc(r, size, utf8), ~Good(o)
    PROVE  \/ Unreadable(o.rd, p)
           \/ Refuses(o.rd, "type") /\ ~(TagType(Elem(p)) = "str" /\ Valid(BodyAt(p), utf8, TRUE))
           \/ Refuses(o.rd, "too_big") /\ TagType(Elem(p)) = "str" /\ Elem(p).n >= size
           \/ Refuses(o.rd, "memory") /\ TagType(Elem(p)) = "str" /\ Elem(p).n <= size
           \/ Refuses(o.rd, "bug") /\ size = 0
<1>0. Starts(p) /\ Stands(r, p) /\ r.error = "ok" /\ DOMAIN r = Fields  BY AtKept DEF At
<1>. DEFINE heads == AtMost(ExpectStr(r), size - 1, "too_big")
            checked(q, b) == IF b.v # Null /\ ~Valid(SubSeq(b.v.bytes, 1, q.v.num), utf8, TRUE)
                             THEN Refused(b, Null) ELSE b
<1>1. CstrAlloc(r, size, utf8) =
        IF size < 1 THEN {Out(FlagError(r, "bug"), Null)}
        ELSE UNION {{checked(q, b) : b \in BytesAlloc(q.rd, q.v.num, TRUE)} : q \in heads}
  BY DEF CstrAlloc
<1>2. CASE size < 1
  <2>1. o = Out(FlagError(r, "bug"), Null)  BY <1>1, <1>2
  <2>2. "bug" # "ok"  OBVIOUS
  <2>3. Refuses(FlagError(r, "bug"), "bug")  BY <1>0, <2>2, StandsRefuses
  <2>4. size = 0  BY <1>2
  <2>. QED  BY <2>1, <2>3, <2>4 DEF Out
<1>3. CASE ~(size < 1)
  <2>. HIDE DEF heads
  <2>1. o \in UNION {{checked(q, b) : b \in BytesAlloc(q.rd, q.v.num, TRUE)} : q \in heads}  BY <1>1, <1>3
  <2>2. PICK q \in heads : o \in {checked(q, b) : b \in BytesAlloc(q.rd, q.v.num, TRUE)}  BY <2>1
  <2>3. PICK b \in BytesAlloc(q.rd, q.v.num, TRUE) : o = checked(q, b)  BY <2>2
  <2>4. /\ o.rd = b.rd \/ o.rd = FlagError(b.rd, "type")
        /\ o.rd # b.rd => b.v # Null /\ ~Valid(SubSeq(b.v.bytes, 1, q.v.num), utf8, TRUE)
    BY <2>3 DEF Refused, Out
  <2>5. CASE ~Good(q)
    <3>1. IdleAll(BytesAlloc(q.rd, q.v.num, TRUE), q.rd)  BY <2>5, TextIdle DEF Good
    <3>2. b.rd = q.rd  BY <3>1 DEF IdleAll
    <3>3. o.rd = q.rd  BY <2>4, <2>5, <3>2, FlagStill
    <3>4. PassedAll(ExpectStr(r), p + Size(p)) /\ "too_big" # "ok"  BY HeadsPassed
    <3>5. PICK s \in ExpectStr(r) : (~Good(s) /\ q.rd = s.rd) \/ (Good(s) /\ Refuses(q.rd, "too_big") /\ s.v.num > size - 1)
      BY <2>5, <3>4, AtMostBad DEF heads
    <3>6. CASE ~Good(s) /\ q.rd = s.rd
      <4>1. Unreadable(s.rd, p) \/ (Refuses(s.rd, "type") /\ TagType(Elem(p)) # "str")  BY <3>6, ExpectStrBad
      <4>. QED  BY <3>3, <3>6, <4>1
    <3>7. CASE Good(s) /\ Refuses(q.rd, "too_big") /\ s.v.num > size - 1
      <4>1. HeadKnown(s, p) /\ TagType(Elem(p)) = "str"  BY <3>7, HeadsKnown DEF KnownAll
      <4>2. PICK n \in Nat : n = s.v.num /\ n = Elem(p).n  BY <1>0, <4>1, HeadStands
      <4>3. n >= size  BY <3>7, <4>2
      <4>. QED  BY <3>3, <3>7, <4>1, <4>2, <4>3
    <3>. QED  BY <3>5, <3>6, <3>7
  <2>6. CASE Good(q)
    <3>1. KeptAll(ExpectStr(r), r) /\ "too_big" # "ok"  BY <1>0, ExpectStrKept
    <3>2. q \in ExpectStr(r) /\ ~(q.v.num > size - 1)  BY <2>6, <3>1, AtMostGood DEF heads
    <3>3. HeadKnown(q, p) /\ TagType(Elem(p)) = "str"  BY <2>6, <3>2, HeadsKnown DEF KnownAll
    <3>4. CASE ~Good(b)
      <4>1. o.rd = b.rd  BY <2>4, <3>4, FlagStill
      <4>2. Unreadable(b.rd, p) \/ Refuses(b.rd, "memory")  BY <1>0, <3>3, <3>4, AllocatedBad
      <4>3. PICK n \in Nat : n = q.v.num /\ n = Elem(p).n  BY <1>0, <3>3, HeadStands
      <4>4. n <= size  BY <3>2, <4>3
      <4>. QED  BY <3>3, <4>1, <4>2, <4>3, <4>4
    <3>5. CASE Good(b)
      <4>1. o.rd # b.rd  BY <3>5 DEF Good
      <4>2. TRUE \in BOOLEAN  OBVIOUS
      <4>3. WholeRead(b, p) /\ SubSeq(b.v.bytes, 1, Elem(p).n) = BodyAt(p)
        BY <1>0, <2>4, <3>3, <3>5, <4>1, <4>2, AllocatedGood
      <4>4. q.v.num = Elem(p).n  BY <3>3 DEF HeadKnown
      <4>5. ~Valid(BodyAt(p), utf8, TRUE)  BY <2>4, <4>1, <4>3, <4>4
      <4>6. Passed(b, p + Size(p) + Contents(Elem(p))) /\ "type" # "ok"  BY <4>3 DEF WholeRead
      <4>7. Refuses(FlagError(b.rd, "type"), "type")  BY <4>6, PassedRefuses
      <4>. QED  BY <2>4, <4>1, <4>5, <4>7
    <3>. QED  BY <3>4, <3>5
  <2>. QED  BY <2>5, <2>6
<1>. QED  BY <1>2, <1>3

LEMMA BinAllocBad ==
    ASSUME NEW r, NEW p, At(r, p), NEW max \in Nat, NEW o \in BinAlloc(r, max), ~Good(o)
    PROVE  \/ Unreadable(o.rd, p)
           \/ Refuses(o.rd, "type") /\ (TagType(Elem(p)) # "bin" \/ Elem(p).n > max)
           \/ Refuses(o.rd, "memory") /\ TagType(Elem(p)) = "bin" /\ Elem(p).n <= max /\ Elem(p).n > 0
<1>0. Starts(p) /\ DOMAIN r = Fields  BY AtKept DEF At
<1>. DEFINE heads == AtMost(ExpectCount(r, "bin"), max, "type")
<1>1. PICK q \in heads : o \in BytesAlloc(q.rd, q.v.num, FALSE)  BY DEF BinAlloc
<1>. HIDE DEF heads
<1>2. "type" # "ok"  OBVIOUS
<1>3. CASE ~Good(q)
  <2>1. IdleAll(BytesAlloc(q.rd, q.v.num, FALSE), q.rd)  BY <1>3, TextIdle DEF Good
  <2>2. o.rd = q.rd  BY <1>1, <2>1 DEF IdleAll
  <2>3. PassedAll(ExpectCount(r, "bin"), p + Size(p))  BY HeadsPassed
  <2>4. PICK s \in ExpectCount(r, "bin") :
           (~Good(s) /\ q.rd = s.rd) \/ (Good(s) /\ Refuses(q.rd, "type") /\ s.v.num > max)
    BY <1>2, <1>3, <2>3, AtMostBad DEF heads
  <2>5. CASE ~Good(s) /\ q.rd = s.rd
    <3>1. Unreadable(s.rd, p) \/ (Refuses(s.rd, "type") /\ TagType(Elem(p)) # "bin")  BY <2>5, ExpectCountBad
    <3>. QED  BY <2>2, <2>5, <3>1
  <2>6. CASE Good(s) /\ Refuses(q.rd, "type") /\ s.v.num > max
    <3>1. HeadKnown(s, p)  BY <2>6, HeadsKnown DEF KnownAll
    <3>. QED  BY <2>2, <2>6, <3>1 DEF HeadKnown
  <2>. QED  BY <2>4, <2>5, <2>6
<1>4. CASE Good(q)
  <2>1. KeptAll(ExpectCount(r, "bin"), r)  BY <1>0, ExpectCountKept
  <2>2. q \in ExpectCount(r, "bin") /\ ~(q.v.num > max)  BY <1>2, <1>4, <2>1, AtMostGood DEF heads
  <2>3. HeadKnown(q, p) /\ TagType(Elem(p)) = "bin"  BY <1>4, <2>2, HeadsKnown DEF KnownAll
  <2>4. PICK n \in Nat : n = q.v.num /\ n = Elem(p).n  BY <1>0, <2>3, HeadStands
  <2>5. n <= max  BY <2>2, <2>4
  <2>. QED  BY <1>0, <1>1, <2>3, <2>4, <2>5, AllocatedBad
<1>. QED  BY <1>3, <1>4

LEMMA ExtAllocBad ==
    ASSUME NEW r, NEW p, At(r, p), NEW max \in Nat, NEW o \in ExtAlloc(r, max), ~Good(o)
    PROVE  \/ Unreadable(o.rd, p)
           \/ Refuses(o.rd, "type") /\ (TagType(Elem(p)) # "ext" \/ Elem(p).n > max)
           \/ Refuses(o.rd, "memory") /\ TagType(Elem(p)) = "ext" /\ Elem(p).n <= max /\ Elem(p).n > 0
<1>0. Starts(p) /\ DOMAIN r = Fields  BY AtKept DEF At
<1>. DEFINE heads == AtMost(ExpectExt(r), max, "type")
<1>1. PICK e \in heads :
         o \in IF ~Good(e) THEN {Out(e.rd, [exttype |-> e.v.exttype])}
               ELSE {IF a.v = Null THEN Out(a.rd, [exttype |-> 0])
                     ELSE Out(a.rd, [exttype |-> e.v.exttype, bytes |-> a.v.bytes]) :
                     a \in BytesAlloc(e.rd, e.v.num, FALSE)}
  BY DEF ExtAlloc
<1>. HIDE DEF heads
<1>2. "type" # "ok"  OBVIOUS
<1>3. CASE ~Good(e)
  <2>1. o = Out(e.rd, [exttype |-> e.v.exttype])  BY <1>1, <1>3
  <2>2. o.rd = e.rd  BY <2>1 DEF Out
  <2>3. PassedAll(ExpectExt(r), p + Size(p))  BY HeadsPassed
  <2>4. PICK s \in ExpectExt(r) :
           (~Good(s) /\ e.rd = s.rd) \/ (Good(s) /\ Refuses(e.rd, "type") /\ s.v.num > max)
    BY <1>2, <1>3, <2>3, AtMostBad DEF heads
  <2>5. CASE ~Good(s) /\ e.rd = s.rd
    <3>1. Unreadable(s.rd, p) \/ (Refuses(s.rd, "type") /\ TagType(Elem(p)) # "ext")  BY <2>5, ExpectExtBad
    <3>. QED  BY <2>2, <2>5, <3>1
  <2>6. CASE Good(s) /\ Refuses(e.rd, "type") /\ s.v.num > max
    <3>1. HeadKnown(s, p)  BY <2>6, HeadsKnown DEF KnownAll
    <3>. QED  BY <2>2, <2>6, <3>1 DEF HeadKnown
  <2>. QED  BY <2>4, <2>5, <2>6
<1>4. CASE Good(e)
  <2>1. KeptAll(ExpectExt(r), r)  BY <1>0, ExpectExtKept
  <2>2. e \in ExpectExt(r) /\ ~(e.v.num > max)  BY <1>2, <1>4, <2>1, AtMostGood DEF heads
  <2>3. HeadKnown(e, p) /\ TagType(Elem(p)) = "ext"  BY <1>4, <2>2, HeadsKnown DEF KnownAll
  <2>4. PICK a \in BytesAlloc(e.rd, e.v.num, FALSE) :
           o = IF a.v = Null THEN Out(a.rd, [exttype |-> 0])
               ELSE Out(a.rd, [exttype |-> e.v.exttype, bytes |-> a.v.bytes])
    BY <1>1, <1>4
  <2>5. o.rd = a.rd /\ ~Good(a)  BY <2>4 DEF Good, Out
  <2>6. Unreadable(a.rd, p) \/ (Refuses(a.rd, "memory") /\ Elem(p).n > 0)  BY <1>0, <2>3, <2>5, AllocatedBad
  <2>7. PICK n \in Nat : n = e.v.num /\ n = Elem(p).n  BY <1>0, <2>3, HeadStands
  <2>8. n <= max  BY <2>2, <2>7
  <2>. QED  BY <2>3, <2>5, <2>6, <2>7, <2>8
<1>. QED  BY <1>3, <1>4

LEMMA ExtSizeBad ==
    ASSUME NEW r, NEW p, At(r, p), NEW count, NEW o \in ExtSize(r, count), ~Good(o)
    PROVE  Unreadable(o.rd, p) \/ (Refuses(o.rd, "type") /\ (TagType(Elem(p)) # "ext" \/ Elem(p).n # count))
<1>1. PICK q \in ExpectExt(r) :
         o = IF q.v.num # count THEN Refused(q, [exttype |-> 0]) ELSE Out(q.rd, [exttype |-> q.v.exttype])
  BY DEF ExtSize
<1>2. o.rd = q.rd \/ o.rd = FlagError(q.rd, "type")  BY <1>1 DEF Refused, Out
<1>3. q.v.num = count => o.rd = q.rd  BY <1>1 DEF Out
<1>4. "type" # "ok" /\ PassedAll(ExpectExt(r), p + Size(p))  BY HeadsPassed
<1>5. (~Good(q) /\ o.rd = q.rd) \/ (Good(q) /\ Refuses(o.rd, "type") /\ o.rd # q.rd)
  BY <1>2, <1>4, Judged DEF PassedAll
<1>6. CASE ~Good(q) /\ o.rd = q.rd
  <2>1. Unreadable(q.rd, p) \/ (Refuses(q.rd, "type") /\ TagType(Elem(p)) # "ext")  BY <1>6, ExpectExtBad
  <2>. QED  BY <1>6, <2>1
<1>7. CASE Good(q) /\ Refuses(o.rd, "type") /\ o.rd # q.rd
  <2>1. HeadKnown(q, p)  BY <1>7, HeadsKnown DEF KnownAll
  <2>. QED  BY <1>3, <1>7, <2>1 DEF HeadKnown
<1>. QED  BY <1>5, <1>6, <1>7

LEMMA ExpectTimestampBad ==
    ASSUME NEW r, NEW p, At(r, p), NEW o \in ExpectTimestamp(r), ~Good(o)
    PROVE  \/ Unreadable(o.rd, p)
           \/ Refuses(o.rd, "type") /\ ~IsTime(Elem(p))
           \/ Refuses(o.rd, "invalid") /\ IsTime(Elem(p)) /\ ~Stamped(Elem(p), BodyAt(p))
<1>0. Starts(p)  BY DEF At
<1>1. PICK q \in ReadTag(r) : o \in IF TagType(q.v) = "ext" /\ q.v.exttype = TimestampType
                                    THEN ReadTimestamp(q.rd, q.v.n) ELSE {Refused(q, [time |-> NoTime])}
  BY DEF ExpectTimestamp
<1>2. CASE ~(TagType(q.v) = "ext" /\ q.v.exttype = TimestampType)
  <2>1. o = Refused(q, [time |-> NoTime])  BY <1>1, <1>2
  <2>2. o.rd = FlagError(q.rd, "type")  BY <2>1 DEF Refused, Out
  <2>3. \/ Unreadable(o.rd, p)
        \/ Refuses(o.rd, "type") /\ o.rd # q.rd /\ q.v = Elem(p) /\ HeadRead(q, p)
    BY <2>2, TagChecked
  <2>. QED  BY <1>2, <2>3 DEF IsTime
<1>3. CASE TagType(q.v) = "ext" /\ q.v.exttype = TimestampType
  <2>1. o \in ReadTimestamp(q.rd, q.v.n)  BY <1>1, <1>3
  <2>2. CASE ~Good(q)
    <3>1. Unreadable(q.rd, p)  BY <2>2, TagUnread
    <3>2. IdleAll(ReadTimestamp(q.rd, q.v.n), q.rd)  BY <3>1, TimestampIdle DEF Unreadable
    <3>3. o.rd = q.rd  BY <2>1, <3>2 DEF IdleAll
    <3>. QED  BY <3>1, <3>3
  <2>3. CASE Good(q)
    <3>1. HeadRead(q, p) /\ q.v = Elem(p)  BY <2>3, ReadTagElem
    <3>2. p + Size(p) <= Len(stream) /\ Stands(q.rd, p + Size(p)) /\ q.rd.error = "ok"  BY <3>1 DEF HeadRead, Passed
    <3>3. Contents(Elem(p)) = Elem(p).n /\ Contents(Elem(p)) \in Nat  BY <1>0, <1>3, <3>1, <3>2, ElemContents DEF Holding
    <3>4. PICK n \in Nat : n = Contents(Elem(p)) /\ n = q.v.n  BY <3>1, <3>3
    <3>5. \/ Lacks(o.rd, p + Size(p), n)
          \/ Refuses(o.rd, "invalid") /\ n \notin {4, 8, 12}
          \/ /\ Refuses(o.rd, "invalid") /\ p + Size(p) + n <= Len(stream)
             /\ Split(SubSeq(stream, p + Size(p) + 1, p + Size(p) + n)).nano > MaxNano
      BY <2>1, <3>2, <3>4, ReadTimestampBad
    <3>6. n <= Contents(Elem(p))  BY <3>4
    <3>7. Lacks(o.rd, p + Size(p), n) => Unreadable(o.rd, p)  BY <1>0, <3>2, <3>6, BodyLacks
    <3>8. IsTime(Elem(p)) /\ n = Elem(p).n  BY <1>3, <3>1, <3>4 DEF IsTime
    <3>9. n \notin {4, 8, 12} => ~Stamped(Elem(p), BodyAt(p))  BY <3>8 DEF Stamped
    <3>10. ASSUME p + Size(p) + n <= Len(stream), Split(SubSeq(stream, p + Size(p) + 1, p + Size(p) + n)).nano > MaxNano
           PROVE  ~Stamped(Elem(p), BodyAt(p))
      <4>1. BodyAt(p) = SubSeq(stream, p + Size(p) + 1, p + Size(p) + n)  BY <3>4, <3>10 DEF BodyAt
      <4>2. Split(BodyAt(p)).nano > MaxNano  BY <3>10, <4>1
      <4>. QED  BY <4>2 DEF Stamped
    <3>. QED  BY <3>5, <3>7, <3>8, <3>9, <3>10
  <2>. QED  BY <2>2, <2>3
<1>. QED  BY <1>2, <1>3

LEMMA ArrayAllocBad ==
    ASSUME NEW r, NEW p, At(r, p), NEW max \in Nat, NEW orNil \in BOOLEAN, NEW o \in ArrayAlloc(r, max, orNil), ~Good(o)
    PROVE  \/ Unreadable(o.rd, p)
           \/ /\ Refuses(o.rd, "type")
              /\ ~(TagType(Elem(p)) = "array" /\ Elem(p).n \in 0 .. max) /\ ~(orNil /\ TagType(Elem(p)) = "nil")
           \/ Refuses(o.rd, "memory") /\ TagType(Elem(p)) = "array" /\ Elem(p).n <= max /\ Elem(p).n > 0
<1>0. DOMAIN r = Fields  BY AtKept
<1>. DEFINE S == IF orNil THEN MaxOrNil(r, "array", max) ELSE Within(ExpectCount(r, "array"), 0, max)
<1>1. PICK q \in S : o \in IF ~Good(q) \/ q.v.num = 0 THEN {Out(q.rd, Num(0))}
                           ELSE {Out(FlagError(q.rd, "memory"), Num(0)), Out(q.rd, Num(q.v.num))}
  BY DEF ArrayAlloc
<1>2. o.rd = q.rd \/ o.rd = FlagError(q.rd, "memory")
  <2>1. o = Out(q.rd, Num(0)) \/ o = Out(FlagError(q.rd, "memory"), Num(0)) \/ o = Out(q.rd, Num(q.v.num))
    BY <1>1
  <2>. QED  BY <2>1 DEF Out
<1>a. q.v.num = 0 => o.rd = q.rd  BY <1>1 DEF Out
<1>3. Good(q) => Passed(q, p + Size(p))
  <2>. SUFFICES ASSUME Good(q)  PROVE Passed(q, p + Size(p))  OBVIOUS
  <2>1. CASE orNil
    <3>1. q \in MaxOrNil(r, "array", max)  BY <1>1, <2>1
    <3>2. q \in ExpectOrNil(r, "array")  BY <1>0, <3>1, MaxOrNilGood
    <3>. QED  BY <3>2, HeadsPassed DEF PassedAll
  <2>2. CASE ~orNil
    <3>1. q \in Within(ExpectCount(r, "array"), 0, max)  BY <1>1, <2>2
    <3>2. KeptAll(ExpectCount(r, "array"), r)  BY <1>0, ExpectCountKept
    <3>3. q \in ExpectCount(r, "array")  BY <3>1, <3>2, WithinGood
    <3>. QED  BY <3>3, HeadsPassed DEF PassedAll
  <2>. QED  BY <2>1, <2>2
<1>4. "memory" # "ok"  OBVIOUS
<1>5. (~Good(q) /\ o.rd = q.rd) \/ (Good(q) /\ Refuses(o.rd, "memory") /\ o.rd # q.rd)
  BY <1>2, <1>3, <1>4, Judged
<1>b. CASE Good(q) /\ Refuses(o.rd, "memory") /\ o.rd # q.rd
  <2>1. HeadRead(q, p) /\ TagType(Elem(p)) = "array" /\ q.v.num = Elem(p).n /\ ~(q.v.num > max)
    <3>1. CASE orNil
      <4>1. q \in MaxOrNil(r, "array", max)  BY <1>1, <3>1
      <4>2. q \in ExpectOrNil(r, "array") /\ ~(q.v.some /\ q.v.num > max)  BY <1>0, <1>b, <4>1, MaxOrNilGood
      <4>3. /\ HeadRead(q, p)
            /\ \/ TagType(Elem(p)) = "array" /\ q.v = [some |-> TRUE, num |-> Elem(p).n]
               \/ q.v = [some |-> FALSE, num |-> 0]
        BY <1>b, <4>2, ExpectOrNilGood
      <4>. QED  BY <1>a, <1>b, <4>2, <4>3
    <3>2. CASE ~orNil
      <4>1. q \in Within(ExpectCount(r, "array"), 0, max)  BY <1>1, <3>2
      <4>2. KeptAll(ExpectCount(r, "array"), r)  BY <1>0, ExpectCountKept
      <4>3. q \in ExpectCount(r, "array") /\ q.v.num \in 0 .. max  BY <1>b, <4>1, <4>2, WithinGood
      <4>4. HeadRead(q, p) /\ TagType(Elem(p)) = "array" /\ q.v = Num(Elem(p).n)  BY <1>b, <4>3, ExpectCountGood
      <4>5. q.v.num = Elem(p).n  BY <4>4 DEF Num
      <4>6. \A k \in 0 .. max : ~(k > max)  OBVIOUS
      <4>. QED  BY <4>3, <4>4, <4>5, <4>6
    <3>. QED  BY <3>1, <3>2
  <2>2. Starts(p) /\ p + Size(p) <= Len(stream) /\ "array" \in Counted  BY <2>1 DEF At, HeadRead, Counted
  <2>3. Elem(p).n \in 0 .. Power(4) - 1  BY <2>1, <2>2, ElemNumber
  <2>a. PICK n \in Nat : n = Elem(p).n  BY <2>3
  <2>4. n <= max /\ n > 0  BY <1>a, <1>b, <2>1, <2>a
  <2>. QED  BY <1>b, <2>1, <2>a, <2>4
<1>6. CASE ~Good(q) /\ o.rd = q.rd /\ orNil
  <2>1. q \in MaxOrNil(r, "array", max)  BY <1>1, <1>6
  <2>2. \/ \E s \in ExpectOrNil(r, "array") : ~Good(s) /\ q.rd = s.rd
        \/ /\ Refuses(q.rd, "type") /\ TagType(Elem(p)) = "array" /\ Elem(p).n > max
           /\ p + Size(p) <= Len(stream)
    BY <1>6, <2>1, MaxOrNilBad
  <2>3. CASE \E s \in ExpectOrNil(r, "array") : ~Good(s) /\ q.rd = s.rd
    <3>1. PICK s \in ExpectOrNil(r, "array") : ~Good(s) /\ q.rd = s.rd  BY <2>3
    <3>2. Unreadable(s.rd, p) \/ (Refuses(s.rd, "type") /\ TagType(Elem(p)) \notin {"array", "nil"})
      BY <3>1, ExpectOrNilBad
    <3>. QED  BY <1>6, <3>1, <3>2
  <2>4. CASE Refuses(q.rd, "type") /\ TagType(Elem(p)) = "array" /\ Elem(p).n > max
    <3>1. TagType(Elem(p)) # "nil"  BY <2>4
    <3>2. Elem(p).n \notin 0 .. max  BY <2>4
    <3>. QED  BY <1>6, <2>4, <3>1, <3>2
  <2>. QED  BY <2>2, <2>3, <2>4
<1>7. CASE ~Good(q) /\ o.rd = q.rd /\ ~orNil
  <2>1. q \in Within(ExpectCount(r, "array"), 0, max)  BY <1>1, <1>7
  <2>2. PassedAll(ExpectCount(r, "array"), p + Size(p))  BY HeadsPassed
  <2>3. PICK s \in ExpectCount(r, "array") :
           (~Good(s) /\ q.rd = s.rd) \/ (Good(s) /\ Refuses(q.rd, "type") /\ s.v.num \notin 0 .. max)
    BY <1>7, <2>1, <2>2, WithinBad
  <2>4. CASE ~Good(s) /\ q.rd = s.rd
    <3>1. Unreadable(s.rd, p) \/ (Refuses(s.rd, "type") /\ TagType(Elem(p)) # "array")  BY <2>4, ExpectCountBad
    <3>. QED  BY <1>7, <2>4, <3>1
  <2>5. CASE Good(s) /\ Refuses(q.rd, "type") /\ s.v.num \notin 0 .. max
    <3>1. s.v = Num(Elem(p).n)  BY <2>5, ExpectCountGood
    <3>2. Elem(p).n \notin 0 .. max  BY <2>5, <3>1 DEF Num
    <3>. QED  BY <1>7, <2>5, <3>2
  <2>. QED  BY <2>3, <2>4, <2>5
<1>. QED  BY <1>5, <1>b, <1>6, <1>7

-----------------------------------------------------------------------------
(* Names and keys *)

LEMMA FoundBad ==
    ASSUME NEW r, NEW p, At(r, p), NEW o \in Found(r), ~Good(o)
    PROVE  \/ Unreadable(o.rd, p)
           \/ Refuses(o.rd, "type") /\ TagType(Elem(p)) # "str"
           \/ Refuses(o.rd, "too_big") /\ o.rd.fill /\ Over(p, "str", o.rd.size)
<1>0. Starts(p)  BY DEF At
<1>1. PICK s \in ExpectStr(r) :
         o \in {Out(q.rd, Num(IF Good(q) THEN IndexOf(q.v.bytes) ELSE Count)) : q \in BytesInplace(s.rd, s.v.num)}
  BY DEF Found
<1>2. PICK q \in BytesInplace(s.rd, s.v.num) : o = Out(q.rd, Num(IF Good(q) THEN IndexOf(q.v.bytes) ELSE Count))
  BY <1>1
<1>3. o.rd = q.rd /\ ~Good(q)  BY <1>2 DEF Good, Out
<1>4. CASE ~Good(s)
  <2>1. IdleAll(BytesInplace(s.rd, s.v.num), s.rd)  BY <1>4, TextIdle DEF Good
  <2>2. o.rd = s.rd  BY <1>2, <1>3, <2>1 DEF IdleAll
  <2>3. Unreadable(s.rd, p) \/ (Refuses(s.rd, "type") /\ TagType(Elem(p)) # "str")  BY <1>4, ExpectStrBad
  <2>. QED  BY <2>2, <2>3
<1>5. CASE Good(s)
  <2>1. HeadKnown(s, p) /\ TagType(Elem(p)) = "str"  BY <1>5, HeadsKnown DEF KnownAll
  <2>2. /\ Stands(s.rd, p + Size(p)) /\ s.rd.error = "ok" /\ p + Size(p) <= Len(stream)
        /\ s.v.num = Contents(Elem(p)) /\ Contents(Elem(p)) \in Nat /\ Elem(p).n = Contents(Elem(p))
    BY <1>0, <2>1, HeadStands
  <2>3. Lacks(q.rd, p + Size(p), Contents(Elem(p))) \/ TooBig(q.rd, Contents(Elem(p)))
    BY <1>2, <1>3, <2>2, BytesInplaceBad
  <2>4. Contents(Elem(p)) <= Contents(Elem(p))  BY <2>2
  <2>5. Lacks(q.rd, p + Size(p), Contents(Elem(p))) => Unreadable(q.rd, p)  BY <1>0, <2>2, <2>4, BodyLacks
  <2>6. TooBig(q.rd, Contents(Elem(p))) =>
           Refuses(q.rd, "too_big") /\ q.rd.fill /\ Over(p, "str", q.rd.size)
    BY <2>1, <2>2 DEF TooBig, Refuses, Over
  <2>. QED  BY <1>3, <2>3, <2>5, <2>6
<1>. QED  BY <1>4, <1>5

LEMMA ExpectEnumBad ==
    ASSUME NEW r, NEW p, At(r, p), NEW o \in ExpectEnum(r), ~Good(o)
    PROVE  \/ Unreadable(o.rd, p)
           \/ /\ Refuses(o.rd, "type")
              /\ ~(TagType(Elem(p)) = "str" /\ \E i \in 1 .. Count : BodyAt(p) = Names[i])
           \/ Refuses(o.rd, "too_big") /\ o.rd.fill /\ Over(p, "str", o.rd.size)
<1>1. PICK q \in Found(r) : o = IF q.v.num = Count THEN Refused(q, q.v) ELSE q  BY DEF ExpectEnum
<1>2. (o.rd = q.rd \/ o.rd = FlagError(q.rd, "type")) /\ (o.rd # q.rd => q.v.num = Count)
  BY <1>1 DEF Refused, Out
<1>3. CASE ~Good(q)
  <2>1. o.rd = q.rd  BY <1>2, <1>3, FlagStill
  <2>2. \/ Unreadable(q.rd, p)
        \/ Refuses(q.rd, "type") /\ TagType(Elem(p)) # "str"
        \/ Refuses(q.rd, "too_big") /\ q.rd.fill /\ Over(p, "str", q.rd.size)
    BY <1>3, FoundBad
  <2>. QED  BY <2>1, <2>2
<1>4. CASE Good(q)
  <2>1. WholeRead(q, p) /\ q.v = Num(IndexOf(BodyAt(p)))  BY <1>4, FoundGood
  <2>2. o.rd # q.rd  BY <1>4 DEF Good
  <2>3. IndexOf(BodyAt(p)) = Count  BY <1>2, <2>1, <2>2 DEF Num
  <2>4. \A i \in 1 .. Count : BodyAt(p) # Names[i]  BY <2>3, IndexOfIs
  <2>5. Passed(q, p + Size(p) + Contents(Elem(p))) /\ "type" # "ok"  BY <2>1 DEF WholeRead
  <2>6. Refuses(FlagError(q.rd, "type"), "type")  BY <2>5, PassedRefuses
  <2>. QED  BY <1>2, <2>2, <2>4, <2>6
<1>. QED  BY <1>3, <1>4

LEMMA IgnoredBad ==
    ASSUME NEW r, NEW p, At(r, p), NEW o \in Ignored(r), ~Good(o)
    PROVE  Unreadable(o.rd, p)
<1>1. PICK q \in DiscardOne(r) : o = Out(q.rd, [num |-> Count, inside |-> q.v])  BY DEF Ignored
<1>2. o.rd = q.rd /\ ~Good(q)  BY <1>1 DEF Good, Out
<1>. QED  BY <1>2, AtBegins, DiscardOneBad

LEMMA PeekUnread ==
    ASSUME NEW r, NEW p, At(r, p), NEW q \in PeekTag(r), ~Good(q)
    PROVE  Unreadable(q.rd, p)
BY AtBegins, PeekTagBad

LEMMA EnumOptionalBad ==
    ASSUME NEW r, NEW p, At(r, p), NEW o \in EnumOptional(r), ~Good(o)
    PROVE  \/ Unreadable(o.rd, p)
           \/ Refuses(o.rd, "too_big") /\ o.rd.fill /\ Over(p, "str", o.rd.size)
<1>1. r.error = "ok"  BY DEF At
<1>2. PICK q \in PeekTag(r) : o \in IF TagType(q.v) = "str" THEN Found(q.rd) ELSE Ignored(q.rd)
  BY <1>1 DEF EnumOptional
<1>3. CASE ~Good(q)
  <2>1. IdleAll(Found(q.rd), q.rd) /\ IdleAll(Ignored(q.rd), q.rd)  BY <1>3, NamesIdle DEF Good
  <2>2. o.rd = q.rd  BY <1>2, <2>1 DEF IdleAll
  <2>. QED  BY <1>3, <2>2, PeekUnread
<1>4. CASE Good(q)
  <2>1. At(q.rd, p) /\ q.v = Elem(p)  BY <1>4, PeekAt
  <2>2. CASE TagType(Elem(p)) = "str"  BY <1>2, <2>1, <2>2, FoundBad
  <2>3. CASE TagType(Elem(p)) # "str"  BY <1>2, <2>1, <2>3, IgnoredBad
  <2>. QED  BY <2>2, <2>3
<1>. QED  BY <1>3, <1>4

LEMMA UniqueBad ==
    ASSUME NEW q, NEW p, Good(q) => Passed(q, p), NEW count, ~Good(Unique(q, count))
    PROVE  \/ ~Good(q) /\ Unique(q, count).rd = q.rd
           \/ Good(q) /\ Refuses(Unique(q, count).rd, "invalid") /\ q.v.num \in found
<1>1. /\ Unique(q, count).rd = q.rd \/ Unique(q, count).rd = FlagError(q.rd, "invalid")
      /\ Unique(q, count).rd # q.rd => q.v.num \in found
  BY DEF Unique, Out
<1>2. "invalid" # "ok"  OBVIOUS
<1>. QED  BY <1>1, <1>2, Judged

(* The name that is a key was found before *)
Twice(p) == TagType(Elem(p)) = "str" /\ \E i \in 1 .. Count : i - 1 \in found /\ BodyAt(p) = Names[i]

LEMMA KeyCstrBad ==
    ASSUME NEW r, NEW p, At(r, p), NEW o \in KeyCstr(r), ~Good(o)
    PROVE  \/ Unreadable(o.rd, p) \/ (Refuses(o.rd, "invalid") /\ Twice(p))
           \/ Refuses(o.rd, "too_big") /\ o.rd.fill /\ Over(p, "str", o.rd.size)
<1>1. PICK q \in EnumOptional(r) : o = IF q.v.num = Count THEN q ELSE Unique(q, Count)  BY DEF KeyCstr
<1>2. CASE ~Good(q)
  <2>1. o = q  BY <1>1, <1>2, EnumUnmarked
  <2>. QED  BY <1>2, <2>1, EnumOptionalBad
<1>3. CASE Good(q)
  <2>1. Looked(q, p)  BY <1>3, EnumOptionalGood
  <2>2. Passed(q, p + Size(p) + Contents(Elem(p)))  BY <2>1 DEF Looked, WholeRead
  <2>3. q.v.num # Count /\ o = Unique(q, Count)  BY <1>1, <1>3
  <2>4. Refuses(o.rd, "invalid") /\ q.v.num \in found  BY <1>3, <2>2, <2>3, UniqueBad
  <2>5. TagType(Elem(p)) = "str" /\ q.v.num = IndexOf(BodyAt(p))  BY <2>1, <2>3 DEF Looked
  <2>6. PICK n \in Nat, c \in Nat : n = q.v.num /\ c = Count /\ n \in 0 .. c  BY <2>5, IndexOfIs
  <2>7. n + 1 \in 1 .. c /\ (n + 1) - 1 = n /\ n < c  BY <2>3, <2>6
  <2>8. Names[n + 1] = BodyAt(p)  BY <2>5, <2>6, <2>7, IndexOfIs
  <2>9. Twice(p)
    <3>1. n + 1 \in 1 .. Count /\ (n + 1) - 1 \in found /\ BodyAt(p) = Names[n + 1]  BY <2>4, <2>6, <2>7, <2>8
    <3>. QED  BY <2>5, <3>1 DEF Twice
  <2>. QED  BY <2>4, <2>9
<1>. QED  BY <1>2, <1>3

LEMMA KeyUintBad ==
    ASSUME NEW r, NEW p, At(r, p), NEW count \in Nat, NEW o \in KeyUint(r, count), ~Good(o)
    PROVE  \/ Unreadable(o.rd, p)
           \/ Refuses(o.rd, "invalid") /\ TagType(Elem(p)) = "uint" /\ Elem(p).n \in found
           \/ Refuses(o.rd, "bug") /\ count = 0
<1>0. Starts(p) /\ Stands(r, p) /\ r.error = "ok"  BY DEF At
<1>1. CASE count = 0
  <2>1. o = Out(FlagError(r, "bug"), Num(count))  BY <1>0, <1>1 DEF KeyUint
  <2>2. "bug" # "ok"  OBVIOUS
  <2>3. Refuses(FlagError(r, "bug"), "bug")  BY <1>0, <2>2, StandsRefuses
  <2>. QED  BY <1>1, <2>1, <2>3 DEF Out
<1>2. CASE count # 0
  <2>1. PICK q \in PeekTag(r) :
           o \in IF TagType(q.v) # "uint" THEN Ignored(q.rd)
                 ELSE {IF ~Good(s) \/ s.v.num >= count THEN Out(s.rd, Num(count)) ELSE Unique(s, count) :
                       s \in ExpectInteger(q.rd, "u64")}
    BY <1>0, <1>2 DEF KeyUint
  <2>2. CASE TagType(q.v) # "uint"
    <3>1. o \in Ignored(q.rd)  BY <2>1, <2>2
    <3>2. CASE ~Good(q)
      <4>1. IdleAll(Ignored(q.rd), q.rd)  BY <3>2, NamesIdle DEF Good
      <4>2. o.rd = q.rd  BY <3>1, <4>1 DEF IdleAll
      <4>. QED  BY <3>2, <4>2, PeekUnread
    <3>3. CASE Good(q)
      <4>1. At(q.rd, p)  BY <3>3, PeekAt
      <4>. QED  BY <3>1, <4>1, IgnoredBad
    <3>. QED  BY <3>2, <3>3
  <2>3. CASE TagType(q.v) = "uint"
    <3>1. o \in {IF ~Good(s) \/ s.v.num >= count THEN Out(s.rd, Num(count)) ELSE Unique(s, count) :
                 s \in ExpectInteger(q.rd, "u64")}
      BY <2>1, <2>3
    <3>2. PICK s \in ExpectInteger(q.rd, "u64") :
             o = IF ~Good(s) \/ s.v.num >= count THEN Out(s.rd, Num(count)) ELSE Unique(s, count)
      BY <3>1
    <3>3. CASE ~Good(q)
      <4>1. IdleAll(ExpectInteger(q.rd, "u64"), q.rd)  BY <3>3, NumbersIdle DEF Good
      <4>2. s.rd = q.rd /\ ~Good(s)  BY <3>3, <4>1 DEF IdleAll, Good
      <4>3. o.rd = q.rd  BY <3>2, <4>2 DEF Out
      <4>. QED  BY <3>3, <4>3, PeekUnread
    <3>4. CASE Good(q)
      <4>1. At(q.rd, p) /\ q.v = Elem(p)  BY <3>4, PeekAt
      <4>2. CASE ~Good(s)
        <5>1. o.rd = s.rd  BY <3>2, <4>2 DEF Out
        <5>2. \/ Unreadable(s.rd, p)
              \/ /\ Refuses(s.rd, "type") /\ ~(IsInteger(Elem(p)) /\ Fits("u64", Elem(p).n))
                 /\ p + Size(p) <= Len(stream)
          BY <4>1, <4>2, ExpectIntegerBad
        <5>. QED  BY <1>0, <2>3, <4>1, <5>1, <5>2, UintFits
      <4>3. CASE Good(s)
        <5>1. Passed(s, p + Size(p))  BY <4>1, <4>3, HeadsPassed DEF PassedAll
        <5>2. o = Unique(s, count)
          <6>1. o = Unique(s, count) \/ o.rd = s.rd  BY <3>2 DEF Out
          <6>. QED  BY <4>3, <6>1 DEF Good
        <5>3. Refuses(o.rd, "invalid") /\ s.v.num \in found  BY <4>3, <5>1, <5>2, UniqueBad
        <5>4. TagType(Elem(p)) = "uint"  BY <2>3, <4>1
        <5>5. s.v = Num(Elem(p).n)  BY <4>1, <4>3, ExpectIntegerGood
        <5>6. s.v.num = Elem(p).n  BY <5>5 DEF Num
        <5>. QED  BY <5>3, <5>4, <5>6
      <4>. QED  BY <4>2, <4>3
    <3>. QED  BY <3>3, <3>4
  <2>. QED  BY <2>2, <2>3
<1>. QED  BY <1>1, <1>2

(* A key is not marked as found if it is refused *)
LEMMA RefusedUnmarked ==
    ASSUME NEW r, NEW count, NEW o \in KeyCstr(r) \cup KeyUint(r, count), ~Good(o)
    PROVE  "marked" \notin DOMAIN o.v
<1>0. /\ "marked" \notin DOMAIN Num(count) /\ "marked" \notin DOMAIN Num(Count)  BY DEF Num
<1>1. ASSUME NEW q, NEW n, o = Unique(q, n), "marked" \in DOMAIN o.v  PROVE Good(q) = Good(o)
  <2>1. o = Out(FlagError(q.rd, "invalid"), Num(n)) \/ o = Out(q.rd, [num |-> q.v.num, marked |-> q.v.num])
    BY <1>1 DEF Unique
  <2>2. o # Out(FlagError(q.rd, "invalid"), Num(n))
    <3>1. "marked" \notin DOMAIN Out(FlagError(q.rd, "invalid"), Num(n)).v  BY DEF Num, Out
    <3>. QED  BY <1>1, <3>1
  <2>. QED  BY <2>1, <2>2 DEF Out, Good
<1>2. CASE o \in KeyCstr(r)
  <2>1. PICK q \in EnumOptional(r) : o = IF q.v.num = Count THEN q ELSE Unique(q, Count)  BY <1>2 DEF KeyCstr
  <2>. QED  BY <1>1, <2>1, EnumUnmarked
<1>3. CASE o \in KeyUint(r, count)
  <2>1. CASE r.error # "ok" \/ count = 0
    <3>1. o.v = Num(count)  BY <1>3, <2>1 DEF KeyUint, Out
    <3>. QED  BY <1>0, <3>1
  <2>2. CASE r.error = "ok" /\ count # 0
    <3>1. PICK q \in PeekTag(r) :
             o \in IF TagType(q.v) # "uint" THEN Ignored(q.rd)
                   ELSE {IF ~Good(s) \/ s.v.num >= count THEN Out(s.rd, Num(count)) ELSE Unique(s, count) :
                         s \in ExpectInteger(q.rd, "u64")}
      BY <1>3, <2>2 DEF KeyUint
    <3>2. CASE o \in Ignored(q.rd)  BY <3>2, IgnoredUnmarked
    <3>3. CASE o \in {IF ~Good(s) \/ s.v.num >= count THEN Out(s.rd, Num(count)) ELSE Unique(s, count) :
                      s \in ExpectInteger(q.rd, "u64")}
      <4>1. PICK s \in ExpectInteger(q.rd, "u64") :
               o = IF ~Good(s) \/ s.v.num >= count THEN Out(s.rd, Num(count)) ELSE Unique(s, count)
        BY <3>3
      <4>2. CASE o = Out(s.rd, Num(count))  BY <1>0, <4>2 DEF Out
      <4>3. CASE Good(s) /\ o = Unique(s, count)  BY <1>1, <4>3
      <4>. QED  BY <4>1, <4>2, <4>3
    <3>. QED  BY <3>1, <3>2, <3>3
  <2>. QED  BY <2>1, <2>2
<1>. QED  BY <1>2, <1>3

(* The next byte of a name *)
LEMMA MatchOneBad ==
    ASSUME NEW r, NEW p, Stands(r, p), r.error = "ok", NEW byte, NEW o \in MatchOne(r, byte), ~Good(o)
    PROVE  \/ Lacks(o.rd, p, 1) \/ TooBig(o.rd, 1)
           \/ Refuses(o.rd, "type") /\ p + 1 <= Len(stream) /\ byte.n # Number(SubSeq(stream, p + 1, p + 1))
<1>1. PICK q \in Native(r, 1) : o = IF q.v = byte.n THEN Out(q.rd, Null) ELSE Refused(q, Null)  BY DEF MatchOne
<1>2. (o.rd = q.rd \/ o.rd = FlagError(q.rd, "type")) /\ (q.v = byte.n => o.rd = q.rd)  BY <1>1 DEF Refused, Out
<1>3. Good(q) => /\ Passed(q, p + 1) /\ p + 1 <= Len(stream)
                 /\ q.v = Number(SubSeq(stream, p + 1, p + 1))
  BY NativeGood
<1>4. "type" # "ok"  OBVIOUS
<1>5. (~Good(q) /\ o.rd = q.rd) \/ (Good(q) /\ Refuses(o.rd, "type") /\ o.rd # q.rd)
  BY <1>2, <1>3, <1>4, Judged
<1>6. ~Good(q) => Lacks(q.rd, p, 1) \/ TooBig(q.rd, 1)  BY NativeBad
<1>. QED  BY <1>2, <1>3, <1>5, <1>6

-----------------------------------------------------------------------------
(* The causes of the errors *)

(* Why a call for the element at p has failed *)
Fault(call, p, s) ==
    \/ Unreadable(s, p)
    \/ Refuses(s, "type") /\ ~Wants(call, Elem(p), BodyAt(p), 0)
    \/ /\ Refuses(s, "too_big")
       /\ \/ call.f \in DOMAIN Capped /\ Over(p, Capped[call.f], call.high)
          \/ call.f \in {"cstr", "utf8_cstr"} /\ TagType(Elem(p)) = "str" /\ Elem(p).n >= call.high
          \/ call.f \in Lookups /\ s.fill /\ Over(p, "str", s.size)
    \/ /\ Refuses(s, "memory") /\ call.f \in DOMAIN Allocates
       /\ TagType(Elem(p)) = Allocates[call.f] /\ Elem(p).n <= call.high
       /\ TagType(Elem(p)) # "str" => Elem(p).n > 0
    \/ /\ Refuses(s, "invalid")
       /\ \/ call.f = "timestamp" /\ IsTime(Elem(p)) /\ ~Stamped(Elem(p), BodyAt(p))
          \/ Again(call, Elem(p), TagType(Elem(p)), BodyAt(p))
    \/ Refuses(s, "bug") /\ call.f \in {"cstr", "utf8_cstr", "key_uint"} /\ call.high = 0

FaultsAll(call, outcomes) == At(rd, pos) => \A o \in outcomes : ~Good(o) => Fault(call, pos, o.rd)

LEMMA FaultHalts == ASSUME NEW call, NEW p, NEW s, Fault(call, p, s)  PROVE Halted(s)
BY DEF Fault, Unreadable, Refuses

(* The cases of Caused *)
LEMMA Causes ==
    ASSUME NEW call, NEW e
    PROVE  LET kind == TagType(e)
           IN  /\ ~Wants(call, e, Body(call), 0) => Caused(call, e, "type")
               /\ Unfit(call, e, kind) => Caused(call, e, "too_big")
               /\ call.f \in DOMAIN Allocates /\ kind = Allocates[call.f] /\ e.n <= call.high /\ (kind # "str" => e.n > 0)
                    => Caused(call, e, "memory")
               /\ e.tag = "reserved" => Caused(call, e, "invalid")
               /\ ~rd.fill /\ Short(call, e) => Caused(call, e, "invalid")
               /\ call.f = "timestamp" /\ IsTime(e) /\ ~Stamped(e, Body(call)) => Caused(call, e, "invalid")
               /\ Again(call, e, kind, Body(call)) => Caused(call, e, "invalid")
               /\ call.f \in {"cstr", "utf8_cstr", "key_uint"} /\ call.high = 0 => Caused(call, e, "bug")
               /\ rd.fill /\ Short(call, e) => \A error \in FillErrors : Caused(call, e, error)
BY DEF Caused

LEMMA FaultCaused == Fault(asked, asked.from, rd) => Caused(asked, Element(asked), rd.error)
<1>. SUFFICES ASSUME Fault(asked, asked.from, rd)  PROVE Caused(asked, Element(asked), rd.error)  OBVIOUS
<1>. DEFINE p == asked.from
<1>1. Element(asked) = Elem(p)  BY DEF Element, Elem
<1>2. TagSize(Elem(p).tag) = Size(p)  BY DEF Elem, Size, ParseTag
<1>3. Body(asked) = BodyAt(p)  BY <1>1, <1>2 DEF Body, BodyAt
<1>4. p + Size(p) > rd.drawn \/ p + Size(p) + Contents(Elem(p)) > rd.drawn => Short(asked, Elem(p))
  BY <1>2 DEF Short
<1>. HIDE DEF p
<1>5. CASE Unreadable(rd, p)
  <2>1. CASE /\ (rd.fill /\ rd.error \in FillErrors) \/ (~rd.fill /\ rd.error = "invalid")
             /\ p + Size(p) > rd.drawn \/ p + Size(p) + Contents(Elem(p)) > rd.drawn
    BY <1>1, <1>4, <2>1, Causes
  <2>2. CASE rd.fill /\ rd.error = "too_big" /\ Size(p) > rd.size
    <3>1. Unfit(asked, Elem(p), TagType(Elem(p)))  BY <1>2, <2>2 DEF Unfit
    <3>. QED  BY <1>1, <2>2, <3>1, Causes
  <2>3. CASE rd.error = "invalid" /\ Elem(p).tag = "reserved"  BY <1>1, <2>3, Causes
  <2>. QED  BY <1>5, <2>1, <2>2, <2>3 DEF Unreadable
<1>6. CASE Refuses(rd, "type") /\ ~Wants(asked, Elem(p), BodyAt(p), 0)
  BY <1>1, <1>3, <1>6, Causes DEF Refuses
<1>7. CASE Refuses(rd, "too_big") /\ \/ asked.f \in DOMAIN Capped /\ Over(p, Capped[asked.f], asked.high)
                                     \/ /\ asked.f \in {"cstr", "utf8_cstr"} /\ TagType(Elem(p)) = "str"
                                        /\ Elem(p).n >= asked.high
                                     \/ asked.f \in Lookups /\ rd.fill /\ Over(p, "str", rd.size)
  <2>1. Unfit(asked, Elem(p), TagType(Elem(p)))  BY <1>7 DEF Unfit, Over
  <2>. QED  BY <1>1, <1>7, <2>1, Causes DEF Refuses
<1>8. CASE /\ Refuses(rd, "memory") /\ asked.f \in DOMAIN Allocates
           /\ TagType(Elem(p)) = Allocates[asked.f] /\ Elem(p).n <= asked.high
           /\ TagType(Elem(p)) # "str" => Elem(p).n > 0
  BY <1>1, <1>8, Causes DEF Refuses
<1>9. CASE /\ Refuses(rd, "invalid")
           /\ \/ asked.f = "timestamp" /\ IsTime(Elem(p)) /\ ~Stamped(Elem(p), BodyAt(p))
              \/ Again(asked, Elem(p), TagType(Elem(p)), BodyAt(p))
  BY <1>1, <1>3, <1>9, Causes DEF Refuses
<1>10. CASE Refuses(rd, "bug") /\ asked.f \in {"cstr", "utf8_cstr", "key_uint"} /\ asked.high = 0
  BY <1>1, <1>10, Causes DEF Refuses
<1>. QED  BY <1>5, <1>6, <1>7, <1>8, <1>9, <1>10 DEF Fault, p

(* What holds between two steps, and what each step does about an error *)
CInv == EInv /\ (rd.error # "ok" => Halted(rd)) /\ left \in Nat
Marking ==
    IF rd'.error = "ok" /\ asked'.f \in KeyFunctions /\ result'.num # Count
    THEN result'.num \in (0 .. Count - 1) \ found /\ found' = found \cup {result'.num}
    ELSE found' = found
Justified ==
    /\ rd.error = "ok" /\ rd'.error # "ok" => Halted(rd') /\ (Expects(asked') => Caused(asked, Element(asked), rd.error)')
    /\ rd.error # "ok" => rd' = rd
    /\ Marking
    /\ rd'.error # "ok" => left' \in Nat

LEMMA AskJustified ==
    ASSUME CInv, NEW call, NEW outcomes, Ask(call, outcomes), call.from = pos,
           rd.error # "ok" => IdleAll(outcomes, rd), FaultsAll(call, outcomes), Marking,
           rd'.error # "ok" => left' \in Nat
    PROVE  Justified
<1>1. PICK o \in outcomes : rd' = o.rd /\ result' = o.v  BY DEF Ask
<1>2. stream' = stream /\ asked' = call  BY DEF Ask
<1>3. rd.error = "ok" => At(rd, pos)  BY ExpectsAt DEF CInv, EInv, Ask
<1>4. ASSUME rd.error = "ok", rd'.error # "ok"
      PROVE  Halted(rd') /\ (Expects(asked') => Caused(asked, Element(asked), rd.error)')
  <2>1. Fault(call, pos, o.rd)  BY <1>1, <1>3, <1>4 DEF FaultsAll, Good
  <2>2. asked'.from = pos  BY <1>2
  <2>3. Elem(asked.from)' = Elem(pos) /\ Size(asked.from)' = Size(pos)  BY <1>2, <2>2 DEF Elem, Size
  <2>4. BodyAt(asked.from)' = BodyAt(pos)  BY <1>2, <2>2, <2>3 DEF BodyAt
  <2>5. Unreadable(o.rd, pos) => Unreadable(rd, asked.from)'  BY <1>1, <2>2, <2>3 DEF Unreadable
  <2>6. found' = found  BY <1>4 DEF Marking
  <2>7. Fault(asked, asked.from, rd)'
    BY <1>1, <1>2, <2>1, <2>3, <2>4, <2>5, <2>6 DEF Fault, Over, Again
  <2>8. Caused(asked, Element(asked), rd.error)'  BY <2>7, FaultCaused, PTL
  <2>. QED  BY <1>1, <2>1, <2>8, FaultHalts
<1>5. rd.error # "ok" => rd' = rd  BY <1>1 DEF IdleAll
<1>. QED  BY <1>4, <1>5 DEF Justified

LEMMA WholeJustified ==
    ASSUME CInv, NEW f, NEW low, NEW high, NEW outcomes, Whole(Call(f, low, high), outcomes), f \notin KeyFunctions,
           rd.error # "ok" => IdleAll(outcomes, rd), FaultsAll(Call(f, low, high), outcomes)
    PROVE  Justified
<1>. DEFINE call == Call(f, low, high)
<1>1. call.from = pos /\ call.f = f  BY DEF Call
<1>. HIDE DEF call
<1>2. Ask(call, outcomes) /\ left' = left /\ found' = found  BY DEF Whole, call
<1>3. FaultsAll(call, outcomes)  BY DEF call
<1>4. rd'.error # "ok" => left' \in Nat  BY <1>2 DEF CInv
<1>5. Marking  BY <1>1, <1>2 DEF Marking, Ask
<1>. QED  BY <1>1, <1>2, <1>3, <1>4, <1>5, AskJustified

LEMMA OpenJustified ==
    ASSUME CInv, NEW f, NEW low, NEW high, NEW outcomes, Open(Call(f, low, high), outcomes), f \notin KeyFunctions,
           rd.error # "ok" => IdleAll(outcomes, rd), FaultsAll(Call(f, low, high), outcomes)
    PROVE  Justified
<1>. DEFINE call == Call(f, low, high)
<1>1. call.from = pos /\ call.f = f  BY DEF Call
<1>. HIDE DEF call
<1>2. /\ Ask(call, outcomes) /\ found' = found
      /\ left' = IF rd'.error = "ok" THEN Contents(ParseTag(stream, pos + 1)) ELSE 0
  BY DEF Open, call
<1>3. FaultsAll(call, outcomes)  BY DEF call
<1>4. rd'.error # "ok" => left' \in Nat  BY <1>2
<1>5. Marking  BY <1>1, <1>2 DEF Marking, Ask
<1>. QED  BY <1>1, <1>2, <1>3, <1>4, <1>5, AskJustified

-----------------------------------------------------------------------------
(* No number that a program can name is beyond every type: at least zero    *)
(* it fits 64 bits, and at most zero their half                             *)
LEMMA NamedFits ==
    ASSUME NEW p, Starts(p), p + Size(p) <= Len(stream), IsInteger(Elem(p))
    PROVE  /\ Elem(p).n >= 0 => Fits("u64", Elem(p).n)
           /\ Elem(p).n <= 0 => Fits("i64", Elem(p).n)
<1>1. PICK n \in Int : n = Elem(p).n  BY ElemNumber
<1>2. PICK d \in Nat : d = Power(8) /\ Base <= d  BY PowersGrow
<1>3. PICK h \in Nat : d = 2 * h /\ d \div 2 = h  BY <1>2, Halves
<1>4. h >= 1  BY <1>2, <1>3, BaseFacts
<1>5. Lowest["u64"] = 0 /\ Highest["u64"] = d - 1 /\ Lowest["i64"] = -h /\ Highest["i64"] = h - 1
  BY <1>2, <1>3 DEF Lowest, Highest
<1>6. CASE TagType(Elem(p)) = "uint"
  <2>1. 0 <= n /\ n <= d - 1  BY <1>1, <1>5, <1>6, UintFits DEF Fits
  <2>. QED  BY <1>1, <1>3, <1>4, <1>5, <2>1 DEF Fits
<1>7. CASE TagType(Elem(p)) = "int"
  <2>1. -h <= n /\ n <= h - 1  BY <1>1, <1>5, <1>7, IntFits DEF Fits
  <2>. QED  BY <1>1, <1>3, <1>4, <1>5, <2>1 DEF Fits
<1>. QED  BY <1>6, <1>7 DEF IsInteger

-----------------------------------------------------------------------------
(* Each function: an element that it does not want, or none to be read *)

LEMMA Unmet ==
    ASSUME NEW call, NEW p, NEW s,
           Unreadable(s, p) \/ (Refuses(s, "type") /\ ~Wants(call, Elem(p), BodyAt(p), 0))
    PROVE  Fault(call, p, s)
BY DEF Fault

LEMMA NoKeys ==
    /\ "match" \notin KeyFunctions /\ KeyFunctions \cap Integers_ = {} /\ KeyFunctions \cap DOMAIN Accepts = {}
    /\ "match" \notin Integers_
BY Integers10, Accepts4 DEF KeyFunctions

LEMMA NumbersJustified == ASSUME CInv, WholeNumber  PROVE Justified
<1>1. ASSUME NEW f \in Integers_, Whole(Call(f, Lowest[f], Highest[f]), ExpectInteger(rd, f))
      PROVE  Justified
  <2>. DEFINE call == Call(f, Lowest[f], Highest[f])
  <2>1. call.f = f /\ call.low = Lowest[f] /\ call.high = Highest[f]  BY DEF Call
  <2>. HIDE DEF call
  <2>2. ASSUME At(rd, pos), NEW o \in ExpectInteger(rd, f), ~Good(o)  PROVE Fault(call, pos, o.rd)
    <3>1. CASE Unreadable(o.rd, pos)  BY <3>1, Unmet
    <3>2. CASE Refuses(o.rd, "type") /\ ~(IsInteger(Elem(pos)) /\ Fits(f, Elem(pos).n))
      <4>1. ~(IsInteger(Elem(pos)) /\ Bounded(call, Elem(pos)))
        <5>1. Bounded(call, Elem(pos)) => Elem(pos).n \in Lowest[f] .. Highest[f]  BY <2>1 DEF Bounded
        <5>2. Elem(pos).n \in Lowest[f] .. Highest[f] => Fits(f, Elem(pos).n)  BY DEF Fits
        <5>. QED  BY <3>2, <5>1, <5>2
      <4>2. ~Wants(call, Elem(pos), BodyAt(pos), 0)  BY <2>1, <4>1, WantsNumber
      <4>. QED  BY <3>2, <4>2, Unmet
    <3>. QED  BY <2>2, <3>1, <3>2, ExpectIntegerBad
  <2>3. FaultsAll(call, ExpectInteger(rd, f))  BY <2>2 DEF FaultsAll
  <2>4. rd.error # "ok" => IdleAll(ExpectInteger(rd, f), rd)  BY NumbersIdle
  <2>5. f \notin KeyFunctions  BY NoKeys
  <2>. QED  BY <1>1, <2>3, <2>4, <2>5, WholeJustified DEF call
<1>2. ASSUME NEW f \in {"u8", "i16", "u64"}, NEW low \in Maxima, NEW high \in Maxima,
             Whole(Call(f, low, high), Within(ExpectInteger(rd, f), low, high))
      PROVE  Justified
  <2>. DEFINE call == Call(f, low, high)
  <2>1. call.f = f /\ call.low = low /\ call.high = high /\ f \in Integers_  BY Integers10 DEF Call
  <2>. HIDE DEF call
  <2>2. ASSUME At(rd, pos), NEW o \in Within(ExpectInteger(rd, f), low, high), ~Good(o)
        PROVE  Fault(call, pos, o.rd)
    <3>0. PassedAll(ExpectInteger(rd, f), pos + Size(pos))  BY <2>2, HeadsPassed
    <3>1. PICK q \in ExpectInteger(rd, f) :
             (~Good(q) /\ o.rd = q.rd) \/ (Good(q) /\ Refuses(o.rd, "type") /\ q.v.num \notin low .. high)
      BY <2>2, <3>0, WithinBad
    <3>2. CASE ~Good(q) /\ o.rd = q.rd
      <4>1. CASE Unreadable(o.rd, pos)  BY <4>1, Unmet
      <4>2. CASE Refuses(o.rd, "type") /\ ~(IsInteger(Elem(pos)) /\ Fits(f, Elem(pos).n))
        <5>1. Elem(pos).n \in Lowest[f] .. Highest[f] => Fits(f, Elem(pos).n)  BY DEF Fits
        <5>2. ~Wants(call, Elem(pos), BodyAt(pos), 0)  BY <2>1, <4>2, <5>1, WantsNumber
        <5>. QED  BY <4>2, <5>2, Unmet
      <4>. QED  BY <2>2, <3>2, <4>1, <4>2, ExpectIntegerBad
    <3>3. CASE Good(q) /\ Refuses(o.rd, "type") /\ q.v.num \notin low .. high
      <4>1. q.v = Num(Elem(pos).n)  BY <2>2, <3>3, ExpectIntegerGood
      <4>2. q.v.num = Elem(pos).n  BY <4>1 DEF Num
      <4>3. ~Bounded(call, Elem(pos))  BY <2>1, <3>3, <4>2 DEF Bounded
      <4>4. ~Wants(call, Elem(pos), BodyAt(pos), 0)  BY <2>1, <4>3, WantsNumber
      <4>. QED  BY <3>3, <4>4, Unmet
    <3>. QED  BY <3>1, <3>2, <3>3
  <2>3. FaultsAll(call, Within(ExpectInteger(rd, f), low, high))  BY <2>2 DEF FaultsAll
  <2>4. rd.error # "ok" => IdleAll(Within(ExpectInteger(rd, f), low, high), rd)
    <3>1. rd.error # "ok" => IdleAll(ExpectInteger(rd, f), rd)  BY NumbersIdle
    <3>2. "type" # "ok"  OBVIOUS
    <3>. QED  BY <3>1, <3>2, ChecksIdle
  <2>5. f \notin KeyFunctions  BY DEF KeyFunctions
  <2>. QED  BY <1>2, <2>3, <2>4, <2>5, WholeJustified DEF call
<1>3. ASSUME NEW n \in Int, NEW f \in {"u64", "i64"}, (f = "u64" /\ n >= 0) \/ (f = "i64" /\ n <= 0),
             Whole(Call("match", n, n), Match(ExpectInteger(rd, f), n))
      PROVE  Justified
  <2>. DEFINE call == Call("match", n, n)
  <2>1. call.f = "match" /\ call.low = n /\ call.high = n  BY DEF Call
  <2>. HIDE DEF call
  <2>2. ASSUME At(rd, pos), NEW o \in Match(ExpectInteger(rd, f), n), ~Good(o)
        PROVE  Fault(call, pos, o.rd)
    <3>0. PassedAll(ExpectInteger(rd, f), pos + Size(pos))  BY <2>2, HeadsPassed
    <3>1. PICK q \in ExpectInteger(rd, f) :
             (~Good(q) /\ o.rd = q.rd) \/ (Good(q) /\ Refuses(o.rd, "type") /\ q.v.num # n)
      BY <2>2, <3>0, MatchBad
    <3>2. Bounded(call, Elem(pos)) => Elem(pos).n = n
      <4>1. \A k \in n .. n : k = n  OBVIOUS
      <4>. QED  BY <2>1, <4>1 DEF Bounded
    <3>3. CASE ~Good(q) /\ o.rd = q.rd
      <4>1. CASE Unreadable(o.rd, pos)  BY <4>1, Unmet
      <4>2. CASE /\ Refuses(o.rd, "type") /\ ~(IsInteger(Elem(pos)) /\ Fits(f, Elem(pos).n))
                 /\ pos + Size(pos) <= Len(stream)
        <5>1. Starts(pos)  BY <2>2 DEF At
        <5>2. IsInteger(Elem(pos)) /\ Elem(pos).n = n => Fits(f, n)  BY <1>3, <4>2, <5>1, NamedFits
        <5>3. ~(IsInteger(Elem(pos)) /\ Bounded(call, Elem(pos)))  BY <3>2, <4>2, <5>2
        <5>4. ~Wants(call, Elem(pos), BodyAt(pos), 0)  BY <2>1, <5>3, WantsNumber
        <5>. QED  BY <4>2, <5>4, Unmet
      <4>. QED  BY <2>2, <3>3, <4>1, <4>2, ExpectIntegerBad
    <3>4. CASE Good(q) /\ Refuses(o.rd, "type") /\ q.v.num # n
      <4>1. q.v = Num(Elem(pos).n)  BY <2>2, <3>4, ExpectIntegerGood
      <4>2. q.v.num = Elem(pos).n  BY <4>1 DEF Num
      <4>3. ~Bounded(call, Elem(pos))  BY <3>2, <3>4, <4>2
      <4>4. ~Wants(call, Elem(pos), BodyAt(pos), 0)  BY <2>1, <4>3, WantsNumber
      <4>. QED  BY <3>4, <4>4, Unmet
    <3>. QED  BY <3>1, <3>3, <3>4
  <2>3. FaultsAll(call, Match(ExpectInteger(rd, f), n))  BY <2>2 DEF FaultsAll
  <2>4. rd.error # "ok" => IdleAll(Match(ExpectInteger(rd, f), n), rd)
    <3>1. rd.error # "ok" => IdleAll(ExpectInteger(rd, f), rd)  BY NumbersIdle
    <3>2. "type" # "ok"  OBVIOUS
    <3>. QED  BY <3>1, <3>2, ChecksIdle
  <2>. QED  BY <1>3, <2>3, <2>4, NoKeys, WholeJustified DEF call
<1>4. \A n \in Maxima : n \in Int /\ n >= 0 /\ -n \in Int /\ -n <= 0  BY MaximaAssumption
<1>. QED  BY <1>1, <1>2, <1>3, <1>4 DEF WholeNumber

LEMMA RealJustified == ASSUME CInv, Real  PROVE Justified
<1>. SUFFICES ASSUME NEW f \in DOMAIN Accepts, Whole(Call(f, 0, 0), ExpectReal(rd, f))  PROVE Justified
  BY DEF Real
<1>. DEFINE call == Call(f, 0, 0)
<1>1. call.f = f  BY DEF Call
<1>. HIDE DEF call
<1>2. ASSUME At(rd, pos), NEW o \in ExpectReal(rd, f), ~Good(o)  PROVE Fault(call, pos, o.rd)
  <2>1. Unreadable(o.rd, pos) \/ (Refuses(o.rd, "type") /\ TagType(Elem(pos)) \notin Accepts[f])
    BY <1>2, ExpectRealBad
  <2>2. TagType(Elem(pos)) \notin Accepts[f] => ~Wants(call, Elem(pos), BodyAt(pos), 0)  BY <1>1, WantsNumber
  <2>. QED  BY <2>1, <2>2, Unmet
<1>3. FaultsAll(call, ExpectReal(rd, f))  BY <1>2 DEF FaultsAll
<1>4. rd.error # "ok" => IdleAll(ExpectReal(rd, f), rd)  BY NumbersIdle
<1>5. f \notin KeyFunctions  BY NoKeys
<1>. QED  BY <1>3, <1>4, <1>5, WholeJustified DEF call

LEMMA SimpleJustified == ASSUME CInv, Simple  PROVE Justified
<1>1. CASE Whole(Call("nil", 0, 0), ExpectNil(rd))
  <2>. DEFINE call == Call("nil", 0, 0)
  <2>1. call.f = "nil"  BY DEF Call
  <2>. HIDE DEF call
  <2>2. ASSUME At(rd, pos), NEW o \in ExpectNil(rd), ~Good(o)  PROVE Fault(call, pos, o.rd)
    <3>1. Unreadable(o.rd, pos) \/ (Refuses(o.rd, "type") /\ TagType(Elem(pos)) # "nil")  BY <2>2, ExpectNilBad
    <3>2. TagType(Elem(pos)) # "nil" => ~Wants(call, Elem(pos), BodyAt(pos), 0)  BY <2>1, WantsNumber
    <3>. QED  BY <3>1, <3>2, Unmet
  <2>3. FaultsAll(call, ExpectNil(rd))  BY <2>2 DEF FaultsAll
  <2>4. rd.error # "ok" => IdleAll(ExpectNil(rd), rd)  BY BoolIdle
  <2>5. "nil" \notin KeyFunctions  BY DEF KeyFunctions
  <2>. QED  BY <1>1, <2>3, <2>4, <2>5, WholeJustified DEF call
<1>2. CASE Whole(Call("bool", 0, 0), ExpectBool(rd))
  <2>. DEFINE call == Call("bool", 0, 0)
  <2>1. call.f = "bool"  BY DEF Call
  <2>. HIDE DEF call
  <2>2. ASSUME At(rd, pos), NEW o \in ExpectBool(rd), ~Good(o)  PROVE Fault(call, pos, o.rd)
    <3>1. Unreadable(o.rd, pos) \/ (Refuses(o.rd, "type") /\ TagType(Elem(pos)) # "bool")  BY <2>2, ExpectBoolBad
    <3>2. TagType(Elem(pos)) # "bool" => ~Wants(call, Elem(pos), BodyAt(pos), 0)  BY <2>1, WantsNumber
    <3>. QED  BY <3>1, <3>2, Unmet
  <2>3. FaultsAll(call, ExpectBool(rd))  BY <2>2 DEF FaultsAll
  <2>4. rd.error # "ok" => IdleAll(ExpectBool(rd), rd)  BY BoolIdle
  <2>5. "bool" \notin KeyFunctions  BY DEF KeyFunctions
  <2>. QED  BY <1>2, <2>3, <2>4, <2>5, WholeJustified DEF call
<1>3. ASSUME NEW want \in BOOLEAN, NEW f, f = IF want THEN "true" ELSE "false",
             Whole(Call(f, 0, 0), ExpectJust(rd, want))
      PROVE  Justified
  <2>. DEFINE call == Call(f, 0, 0)
  <2>1. call.f = f /\ f \in {"true", "false"}  BY <1>3 DEF Call
  <2>. HIDE DEF call
  <2>2. ASSUME At(rd, pos), NEW o \in ExpectJust(rd, want), ~Good(o)  PROVE Fault(call, pos, o.rd)
    <3>1. Unreadable(o.rd, pos) \/ (Refuses(o.rd, "type") /\ Elem(pos).tag # f)  BY <1>3, <2>2, ExpectJustBad
    <3>2. Elem(pos).tag # f => ~Wants(call, Elem(pos), BodyAt(pos), 0)  BY <2>1, WantsNumber
    <3>. QED  BY <3>1, <3>2, Unmet
  <2>3. FaultsAll(call, ExpectJust(rd, want))  BY <2>2 DEF FaultsAll
  <2>4. rd.error # "ok" => IdleAll(ExpectJust(rd, want), rd)  BY BoolIdle
  <2>5. f \notin KeyFunctions  BY <2>1 DEF KeyFunctions
  <2>. QED  BY <1>3, <2>3, <2>4, <2>5, WholeJustified DEF call
<1>4. CASE Whole(Call("timestamp", 0, 0), ExpectTimestamp(rd))
  <2>. DEFINE call == Call("timestamp", 0, 0)
  <2>1. call.f = "timestamp"  BY DEF Call
  <2>. HIDE DEF call
  <2>2. ASSUME At(rd, pos), NEW o \in ExpectTimestamp(rd), ~Good(o)  PROVE Fault(call, pos, o.rd)
    <3>1. \/ Unreadable(o.rd, pos)
          \/ Refuses(o.rd, "type") /\ ~IsTime(Elem(pos))
          \/ Refuses(o.rd, "invalid") /\ IsTime(Elem(pos)) /\ ~Stamped(Elem(pos), BodyAt(pos))
      BY <2>2, ExpectTimestampBad
    <3>2. ~IsTime(Elem(pos)) => ~Wants(call, Elem(pos), BodyAt(pos), 0)  BY <2>1, WantsNumber
    <3>3. Refuses(o.rd, "invalid") /\ IsTime(Elem(pos)) /\ ~Stamped(Elem(pos), BodyAt(pos)) => Fault(call, pos, o.rd)
      BY <2>1 DEF Fault
    <3>. QED  BY <3>1, <3>2, <3>3, Unmet
  <2>3. FaultsAll(call, ExpectTimestamp(rd))  BY <2>2 DEF FaultsAll
  <2>4. rd.error # "ok" => IdleAll(ExpectTimestamp(rd), rd)  BY StampIdle DEF CInv
  <2>5. "timestamp" \notin KeyFunctions  BY DEF KeyFunctions
  <2>. QED  BY <1>4, <2>3, <2>4, <2>5, WholeJustified DEF call
<1>. QED  BY <1>1, <1>2, <1>3, <1>4 DEF Simple

LEMMA WholeCaused ==
    ASSUME CInv, NEW f, NEW low, NEW high, NEW outcomes, Whole(Call(f, low, high), outcomes), f \notin KeyFunctions,
           rd.error # "ok" => IdleAll(outcomes, rd),
           ASSUME NEW call, call.f = f, call.low = low, call.high = high, At(rd, pos), NEW o \in outcomes, ~Good(o)
           PROVE  Fault(call, pos, o.rd)
    PROVE  Justified
<1>. DEFINE call == Call(f, low, high)
<1>1. call.f = f /\ call.low = low /\ call.high = high  BY DEF Call
<1>. HIDE DEF call
<1>2. FaultsAll(call, outcomes)  BY <1>1 DEF FaultsAll
<1>. QED  BY <1>2, WholeJustified DEF call

LEMMA OpenCaused ==
    ASSUME CInv, NEW f, NEW low, NEW high, NEW outcomes, Open(Call(f, low, high), outcomes), f \notin KeyFunctions,
           rd.error # "ok" => IdleAll(outcomes, rd),
           ASSUME NEW call, call.f = f, call.low = low, call.high = high, At(rd, pos), NEW o \in outcomes, ~Good(o)
           PROVE  Fault(call, pos, o.rd)
    PROVE  Justified
<1>. DEFINE call == Call(f, low, high)
<1>1. call.f = f /\ call.low = low /\ call.high = high  BY DEF Call
<1>. HIDE DEF call
<1>2. FaultsAll(call, outcomes)  BY <1>1 DEF FaultsAll
<1>. QED  BY <1>2, OpenJustified DEF call

LEMMA CountFault ==
    ASSUME NEW type \in Counted, NEW call, call.f = type, At(rd, pos), NEW o \in ExpectCount(rd, type), ~Good(o)
    PROVE  Fault(call, pos, o.rd)
<1>1. Unreadable(o.rd, pos) \/ (Refuses(o.rd, "type") /\ TagType(Elem(pos)) # type)  BY ExpectCountBad
<1>2. TagType(Elem(pos)) # type => ~Wants(call, Elem(pos), BodyAt(pos), 0)  BY WantsCount DEF Counted
<1>. QED  BY <1>1, <1>2, Unmet

LEMMA StrFault ==
    ASSUME NEW call, At(rd, pos), NEW o \in ExpectStr(rd), ~Good(o),
           TagType(Elem(pos)) # "str" => ~Wants(call, Elem(pos), BodyAt(pos), 0)
    PROVE  Fault(call, pos, o.rd)
BY ExpectStrBad, Unmet

LEMMA WithinFault ==
    ASSUME NEW type \in Counted, NEW call, call.f = type, At(rd, pos),
           NEW o \in Within(ExpectCount(rd, type), call.low, call.high), ~Good(o)
    PROVE  Fault(call, pos, o.rd)
<1>0. PassedAll(ExpectCount(rd, type), pos + Size(pos))  BY HeadsPassed
<1>1. PICK q \in ExpectCount(rd, type) :
         (~Good(q) /\ o.rd = q.rd) \/ (Good(q) /\ Refuses(o.rd, "type") /\ q.v.num \notin call.low .. call.high)
  BY <1>0, WithinBad
<1>2. CASE ~Good(q) /\ o.rd = q.rd  BY <1>2, CountFault
<1>3. CASE Good(q) /\ Refuses(o.rd, "type") /\ q.v.num \notin call.low .. call.high
  <2>1. q.v = Num(Elem(pos).n)  BY <1>3, ExpectCountGood
  <2>2. q.v.num = Elem(pos).n  BY <2>1 DEF Num
  <2>3. ~Bounded(call, Elem(pos))  BY <1>3, <2>2 DEF Bounded
  <2>4. ~Wants(call, Elem(pos), BodyAt(pos), 0)  BY <2>3, WantsCount DEF Counted
  <2>. QED  BY <1>3, <2>4, Unmet
<1>. QED  BY <1>1, <1>2, <1>3

LEMMA Exactly ==
    ASSUME NEW call, NEW n \in Nat, call.low = n, call.high = n, NEW e, Bounded(call, e)
    PROVE  e.n = n
<1>1. \A k \in n .. n : k = n  OBVIOUS
<1>. QED  BY <1>1 DEF Bounded

LEMMA MatchFault ==
    ASSUME NEW type \in Counted, NEW call, call.f = type, NEW n \in Nat, call.low = n, call.high = n, At(rd, pos),
           NEW S, S = ExpectCount(rd, type) \/ (type = "str" /\ S = ExpectStr(rd)),
           NEW o \in Match(S, n), ~Good(o)
    PROVE  Fault(call, pos, o.rd)
<1>0. PassedAll(S, pos + Size(pos))  BY HeadsPassed
<1>1. PICK q \in S : (~Good(q) /\ o.rd = q.rd) \/ (Good(q) /\ Refuses(o.rd, "type") /\ q.v.num # n)
  BY <1>0, MatchBad
<1>2. CASE ~Good(q) /\ o.rd = q.rd
  <2>1. TagType(Elem(pos)) # type => ~Wants(call, Elem(pos), BodyAt(pos), 0)  BY WantsCount DEF Counted
  <2>. QED  BY <1>2, <2>1, CountFault, StrFault
<1>3. CASE Good(q) /\ Refuses(o.rd, "type") /\ q.v.num # n
  <2>1. q.v = Num(Elem(pos).n)  BY <1>3, ExpectCountGood, ExpectStrGood
  <2>2. q.v.num = Elem(pos).n  BY <2>1 DEF Num
  <2>3. ~Bounded(call, Elem(pos))  BY <1>3, <2>2, Exactly
  <2>4. ~Wants(call, Elem(pos), BodyAt(pos), 0)  BY <2>3, WantsCount DEF Counted
  <2>. QED  BY <1>3, <2>4, Unmet
<1>. QED  BY <1>1, <1>2, <1>3

LEMMA CountIdle ==
    ASSUME NEW type, NEW low, NEW high
    PROVE  rd.error # "ok" => /\ IdleAll(ExpectCount(rd, type), rd) /\ IdleAll(ExpectStr(rd), rd)
                              /\ IdleAll(Within(ExpectCount(rd, type), low, high), rd)
                              /\ IdleAll(Match(ExpectCount(rd, type), low), rd)
                              /\ IdleAll(Match(ExpectStr(rd), low), rd)
<1>1. rd.error # "ok" => IdleAll(ExpectCount(rd, type), rd) /\ IdleAll(ExpectStr(rd), rd)  BY NumbersIdle, StrIdle
<1>2. "type" # "ok"  OBVIOUS
<1>. QED  BY <1>1, <1>2, ChecksIdle

LEMMA ContainerJustified == ASSUME CInv, Container  PROVE Justified
<1>. SUFFICES ASSUME NEW type \in {"map", "array"}, NEW n \in Maxima \cup {Most_},
        \/ Whole(Call(type, 0, n), ExpectCount(rd, type))
        \/ Whole(Call(OrNil[type], 0, n), ExpectOrNil(rd, type))
        \/ /\ n \in Maxima
           /\ \/ Whole(Call(type, 0, n), Within(ExpectCount(rd, type), 0, n))
              \/ Whole(Call(type, n, n), Match(ExpectCount(rd, type), n))
              \/ Whole(Call(OrNil[type], 0, n), MaxOrNil(rd, type, n))
              \/ type = "array" /\ Whole(Call("array", 0, n), ArrayAlloc(rd, n, FALSE))
              \/ type = "array" /\ Whole(Call("array_or_nil", 0, n), ArrayAlloc(rd, n, TRUE))
     PROVE Justified
  <2>1. DOMAIN OrNil = {"map", "array"}  BY DEF OrNil
  <2>. QED  BY <2>1 DEF Container
<1>0. /\ type \notin KeyFunctions /\ type \in Counted /\ type # "nil" /\ OrNil[type] \notin KeyFunctions
      /\ (type = "map" /\ OrNil[type] = "map_or_nil") \/ (type = "array" /\ OrNil[type] = "array_or_nil")
  BY DEF OrNil, KeyFunctions, Counted
<1>a. ASSUME NEW call, call.f = OrNil[type], At(rd, pos), NEW o \in ExpectOrNil(rd, type), ~Good(o)
      PROVE  Fault(call, pos, o.rd)
  <2>1. Unreadable(o.rd, pos) \/ (Refuses(o.rd, "type") /\ TagType(Elem(pos)) \notin {type, "nil"})
    BY <1>a, ExpectOrNilBad
  <2>2. TagType(Elem(pos)) \notin {type, "nil"} => ~Wants(call, Elem(pos), BodyAt(pos), 0)
    BY <1>0, <1>a, WantsCount
  <2>. QED  BY <2>1, <2>2, Unmet
<1>1. CASE Whole(Call(type, 0, n), ExpectCount(rd, type))
  <2>1. ASSUME NEW call, call.f = type, At(rd, pos), NEW o \in ExpectCount(rd, type), ~Good(o)
        PROVE  Fault(call, pos, o.rd)
    BY <1>0, <2>1, CountFault
  <2>. QED  BY <1>0, <1>1, <2>1, CountIdle, WholeCaused
<1>2. CASE Whole(Call(OrNil[type], 0, n), ExpectOrNil(rd, type))
  <2>1. rd.error # "ok" => IdleAll(ExpectOrNil(rd, type), rd)  BY NumbersIdle
  <2>. QED  BY <1>0, <1>2, <1>a, <2>1, WholeCaused
<1>3. CASE Whole(Call(type, 0, n), Within(ExpectCount(rd, type), 0, n))
  <2>1. ASSUME NEW call, call.f = type, call.low = 0, call.high = n, At(rd, pos),
               NEW o \in Within(ExpectCount(rd, type), 0, n), ~Good(o)
        PROVE  Fault(call, pos, o.rd)
    <3>1. o \in Within(ExpectCount(rd, type), call.low, call.high)  BY <2>1
    <3>. QED  BY <1>0, <2>1, <3>1, WithinFault
  <2>. QED  BY <1>0, <1>3, <2>1, CountIdle, WholeCaused
<1>4. CASE n \in Maxima /\ Whole(Call(type, n, n), Match(ExpectCount(rd, type), n))
  <2>0. n \in Nat  BY <1>4, MaximaAssumption
  <2>1. ASSUME NEW call, call.f = type, call.low = n, call.high = n, At(rd, pos),
               NEW o \in Match(ExpectCount(rd, type), n), ~Good(o)
        PROVE  Fault(call, pos, o.rd)
    BY <1>0, <2>0, <2>1, MatchFault
  <2>. QED  BY <1>0, <1>4, <2>1, CountIdle, WholeCaused
<1>5. CASE Whole(Call(OrNil[type], 0, n), MaxOrNil(rd, type, n))
  <2>1. ASSUME NEW call, call.f = OrNil[type], call.low = 0, call.high = n, At(rd, pos),
               NEW o \in MaxOrNil(rd, type, n), ~Good(o)
        PROVE  Fault(call, pos, o.rd)
    <3>1. CASE \E q \in ExpectOrNil(rd, type) : ~Good(q) /\ o.rd = q.rd  BY <1>a, <2>1, <3>1
    <3>2. CASE Refuses(o.rd, "type") /\ TagType(Elem(pos)) = type /\ Elem(pos).n > n /\ pos + Size(pos) <= Len(stream)
      <4>0. Starts(pos)  BY <2>1 DEF At
      <4>1. Elem(pos).n \in Int  BY <3>2, <4>0, ElemNumber
      <4>2. PICK k \in Int : k = Elem(pos).n  BY <4>1
      <4>3. n \in Int  BY MaximaAssumption, Powers DEF Most_
      <4>4. k \notin 0 .. n  BY <3>2, <4>2, <4>3
      <4>5. ~Bounded(call, Elem(pos))  BY <2>1, <4>2, <4>4 DEF Bounded
      <4>6. ~Wants(call, Elem(pos), BodyAt(pos), 0)  BY <1>0, <2>1, <3>2, <4>5, WantsCount
      <4>. QED  BY <3>2, <4>6, Unmet
    <3>. QED  BY <2>1, <3>1, <3>2, MaxOrNilBad
  <2>2. rd.error # "ok" => IdleAll(MaxOrNil(rd, type, n), rd)  BY NumbersIdle
  <2>. QED  BY <1>0, <1>5, <2>1, <2>2, WholeCaused
<1>6. ASSUME n \in Maxima, NEW orNil \in BOOLEAN, NEW f, f = IF orNil THEN "array_or_nil" ELSE "array",
             Whole(Call(f, 0, n), ArrayAlloc(rd, n, orNil))
      PROVE  Justified
  <2>0. n \in Nat  BY <1>6, MaximaAssumption
  <2>1. ASSUME NEW call, call.f = f, call.low = 0, call.high = n, At(rd, pos),
               NEW o \in ArrayAlloc(rd, n, orNil), ~Good(o)
        PROVE  Fault(call, pos, o.rd)
    <3>1. \/ Unreadable(o.rd, pos)
          \/ /\ Refuses(o.rd, "type")
             /\ ~(TagType(Elem(pos)) = "array" /\ Elem(pos).n \in 0 .. n) /\ ~(orNil /\ TagType(Elem(pos)) = "nil")
          \/ Refuses(o.rd, "memory") /\ TagType(Elem(pos)) = "array" /\ Elem(pos).n <= n /\ Elem(pos).n > 0
      BY <1>6, <2>0, <2>1, ArrayAllocBad
    <3>2. Bounded(call, Elem(pos)) <=> Elem(pos).n \in 0 .. n  BY <2>1 DEF Bounded
    <3>3. ASSUME ~(TagType(Elem(pos)) = "array" /\ Bounded(call, Elem(pos))), ~(orNil /\ TagType(Elem(pos)) = "nil")
          PROVE  ~Wants(call, Elem(pos), BodyAt(pos), 0)
      <4>1. CASE orNil
        <5>1. call.f = "array_or_nil"  BY <1>6, <2>1, <4>1
        <5>. QED  BY <3>3, <4>1, <5>1, WantsCount
      <4>2. CASE ~orNil
        <5>1. call.f = "array"  BY <1>6, <2>1, <4>2
        <5>. QED  BY <3>3, <5>1, WantsCount
      <4>. QED  BY <4>1, <4>2
    <3>4. call.f \in DOMAIN Allocates /\ Allocates[call.f] = "array"  BY <1>6, <2>1 DEF Allocates
    <3>5. Refuses(o.rd, "memory") /\ TagType(Elem(pos)) = "array" /\ Elem(pos).n <= n /\ Elem(pos).n > 0
             => Fault(call, pos, o.rd)
      BY <2>1, <3>4 DEF Fault
    <3>. QED  BY <3>1, <3>2, <3>3, <3>5, Unmet
  <2>2. rd.error # "ok" => IdleAll(ArrayAlloc(rd, n, orNil), rd)  BY ArrayIdle
  <2>3. f \notin KeyFunctions  BY <1>6 DEF KeyFunctions
  <2>. QED  BY <1>6, <2>1, <2>2, <2>3, WholeCaused
<1>. QED  BY <1>1, <1>2, <1>3, <1>4, <1>5, <1>6

-----------------------------------------------------------------------------
(* Strings, blobs and exts *)

LEMMA Beyond ==
    ASSUME NEW call, NEW n \in Nat, call.low = 0, call.high = n, NEW e, e.n \in Int, e.n > n
    PROVE  ~Bounded(call, e)
<1>1. PICK k \in Int : k = e.n  OBVIOUS
<1>2. k \notin 0 .. n  BY <1>1
<1>. QED  BY <1>1, <1>2 DEF Bounded

(* A string that is longer than the room for it *)
LEMMA TooLongFault ==
    ASSUME NEW call, NEW s, Refuses(s, "too_big"),
           call.f \in DOMAIN Capped, Over(pos, Capped[call.f], call.high)
    PROVE  Fault(call, pos, s)
BY DEF Fault

(* An element that there was no memory for *)
LEMMA MemoryFault ==
    ASSUME NEW call, NEW s, Refuses(s, "memory"), call.f \in DOMAIN Allocates, TagType(Elem(pos)) = Allocates[call.f],
           Elem(pos).n <= call.high, TagType(Elem(pos)) = "str" \/ Elem(pos).n > 0
    PROVE  Fault(call, pos, s)
BY DEF Fault

LEMMA ExtFault ==
    ASSUME NEW call, call.f \in {"ext", "ext_max"}, At(rd, pos), NEW o \in ExpectExt(rd), ~Good(o)
    PROVE  Fault(call, pos, o.rd)
<1>1. Unreadable(o.rd, pos) \/ (Refuses(o.rd, "type") /\ TagType(Elem(pos)) # "ext")  BY ExpectExtBad
<1>2. TagType(Elem(pos)) # "ext" => ~Wants(call, Elem(pos), BodyAt(pos), 0)  BY WantsCount
<1>. QED  BY <1>1, <1>2, Unmet

LEMMA MostFault ==
    ASSUME NEW n \in Nat, NEW call, call.low = 0, call.high = n, At(rd, pos), NEW S,
           \/ call.f = "bin" /\ S = ExpectCount(rd, "bin")
           \/ call.f = "ext_max" /\ S = ExpectExt(rd),
           NEW o \in AtMost(S, n, "type"), ~Good(o)
    PROVE  Fault(call, pos, o.rd)
<1>0. PassedAll(S, pos + Size(pos)) /\ "bin" \in Counted /\ Starts(pos) /\ "type" # "ok"
  BY HeadsPassed DEF Counted, At
<1>1. PICK q \in S : (~Good(q) /\ o.rd = q.rd) \/ (Good(q) /\ Refuses(o.rd, "type") /\ q.v.num > n)
  BY <1>0, AtMostBad
<1>2. CASE ~Good(q) /\ o.rd = q.rd  BY <1>0, <1>2, CountFault, ExtFault
<1>3. CASE Good(q) /\ Refuses(o.rd, "type") /\ q.v.num > n
  <2>1. HeadKnown(q, pos)  BY <1>1, <1>3, HeadsKnown DEF KnownAll
  <2>2. q.v.num = Elem(pos).n  BY <2>1 DEF HeadKnown
  <2>3. Elem(pos).n \in Int  BY <1>0, <2>1, ElemNumber DEF HeadKnown, HeadRead
  <2>4. ~Bounded(call, Elem(pos))  BY <1>3, <2>2, <2>3, Beyond
  <2>5. ~Wants(call, Elem(pos), BodyAt(pos), 0)  BY <2>4, WantsCount
  <2>. QED  BY <1>3, <2>5, Unmet
<1>. QED  BY <1>1, <1>2, <1>3

LEMMA StrMaxFault ==
    ASSUME NEW n \in Nat, NEW call, call.f = "str_max", call.high = n, At(rd, pos),
           NEW o \in AtMost(ExpectStr(rd), n, "too_big"), ~Good(o)
    PROVE  Fault(call, pos, o.rd)
<1>0. PassedAll(ExpectStr(rd), pos + Size(pos)) /\ Starts(pos) /\ "too_big" # "ok"  BY HeadsPassed DEF At
<1>1. PICK q \in ExpectStr(rd) : (~Good(q) /\ o.rd = q.rd) \/ (Good(q) /\ Refuses(o.rd, "too_big") /\ q.v.num > n)
  BY <1>0, AtMostBad
<1>2. CASE ~Good(q) /\ o.rd = q.rd
  <2>1. TagType(Elem(pos)) # "str" => ~Wants(call, Elem(pos), BodyAt(pos), 0)  BY WantsCount
  <2>. QED  BY <1>2, <2>1, StrFault
<1>3. CASE Good(q) /\ Refuses(o.rd, "too_big") /\ q.v.num > n
  <2>1. HeadKnown(q, pos) /\ TagType(Elem(pos)) = "str"  BY <1>3, HeadsKnown DEF KnownAll
  <2>2. q.v.num = Elem(pos).n  BY <2>1 DEF HeadKnown
  <2>3. Over(pos, "str", n)  BY <1>3, <2>1, <2>2 DEF Over
  <2>4. call.f \in DOMAIN Capped /\ Capped[call.f] = "str"  BY DEF Capped
  <2>. QED  BY <1>3, <2>3, <2>4, TooLongFault
<1>. QED  BY <1>1, <1>2, <1>3

LEMMA HeadIdle ==
    ASSUME NEW n
    PROVE  rd.error # "ok" => /\ IdleAll(ExpectExt(rd), rd) /\ IdleAll(ExtSize(rd, n), rd)
                              /\ IdleAll(AtMost(ExpectStr(rd), n, "too_big"), rd)
                              /\ IdleAll(AtMost(ExpectCount(rd, "bin"), n, "type"), rd)
                              /\ IdleAll(AtMost(ExpectExt(rd), n, "type"), rd)
<1>1. rd.error # "ok" => /\ IdleAll(ExpectExt(rd), rd) /\ IdleAll(ExtSize(rd, n), rd)
                         /\ IdleAll(ExpectStr(rd), rd) /\ IdleAll(ExpectCount(rd, "bin"), rd)
  BY NumbersIdle, StrIdle
<1>2. "type" # "ok" /\ "too_big" # "ok"  OBVIOUS
<1>. QED  BY <1>1, <1>2, ChecksIdle

LEMMA HeadJustified == ASSUME CInv, Head_  PROVE Justified
<1>0. /\ "str" \in Counted /\ "bin" \in Counted /\ Maxima \subseteq Nat
      /\ \A f \in {"str", "bin", "ext", "str_max", "ext_max", "tag"} : f \notin KeyFunctions
  BY MaximaAssumption DEF Counted, KeyFunctions
<1>1. CASE Open(Call("str", 0, Most_), ExpectStr(rd))
  <2>1. ASSUME NEW call, call.f = "str", At(rd, pos), NEW o \in ExpectStr(rd), ~Good(o)
        PROVE  Fault(call, pos, o.rd)
    <3>1. TagType(Elem(pos)) # "str" => ~Wants(call, Elem(pos), BodyAt(pos), 0)  BY <2>1, WantsCount
    <3>. QED  BY <2>1, <3>1, StrFault
  <2>. QED  BY <1>0, <1>1, <2>1, CountIdle, OpenCaused
<1>2. CASE Open(Call("bin", 0, Most_), ExpectCount(rd, "bin"))
  <2>1. ASSUME NEW call, call.f = "bin", At(rd, pos), NEW o \in ExpectCount(rd, "bin"), ~Good(o)
        PROVE  Fault(call, pos, o.rd)
    BY <1>0, <2>1, CountFault
  <2>. QED  BY <1>0, <1>2, <2>1, CountIdle, OpenCaused
<1>3. CASE Open(Call("ext", 0, Most_), ExpectExt(rd))
  <2>1. ASSUME NEW call, call.f = "ext", At(rd, pos), NEW o \in ExpectExt(rd), ~Good(o)
        PROVE  Fault(call, pos, o.rd)
    BY <2>1, ExtFault
  <2>. QED  BY <1>0, <1>3, <2>1, HeadIdle, OpenCaused
<1>4. ASSUME NEW n \in Maxima, Open(Call("str_max", 0, n), AtMost(ExpectStr(rd), n, "too_big"))  PROVE Justified
  <2>1. ASSUME NEW call, call.f = "str_max", call.high = n, At(rd, pos),
               NEW o \in AtMost(ExpectStr(rd), n, "too_big"), ~Good(o)
        PROVE  Fault(call, pos, o.rd)
    BY <1>0, <2>1, StrMaxFault
  <2>. QED  BY <1>0, <1>4, <2>1, HeadIdle, OpenCaused
<1>5. ASSUME NEW n \in Maxima, NEW f, NEW S, Open(Call(f, 0, n), AtMost(S, n, "type")),
             (f = "bin" /\ S = ExpectCount(rd, "bin")) \/ (f = "ext_max" /\ S = ExpectExt(rd))
      PROVE  Justified
  <2>1. ASSUME NEW call, call.f = f, call.low = 0, call.high = n, At(rd, pos), NEW o \in AtMost(S, n, "type"), ~Good(o)
        PROVE  Fault(call, pos, o.rd)
    BY <1>0, <1>5, <2>1, MostFault
  <2>2. rd.error # "ok" => IdleAll(AtMost(S, n, "type"), rd)  BY <1>5, HeadIdle
  <2>3. f \notin KeyFunctions  BY <1>0, <1>5
  <2>. QED  BY <1>5, <2>1, <2>2, <2>3, OpenCaused
<1>6. ASSUME NEW n \in Maxima, NEW f, NEW S, Open(Call(f, n, n), Match(S, n)),
             (f = "str" /\ S = ExpectStr(rd)) \/ (f = "bin" /\ S = ExpectCount(rd, "bin"))
      PROVE  Justified
  <2>1. ASSUME NEW call, call.f = f, call.low = n, call.high = n, At(rd, pos), NEW o \in Match(S, n), ~Good(o)
        PROVE  Fault(call, pos, o.rd)
    <3>1. f \in Counted /\ (S = ExpectCount(rd, f) \/ (f = "str" /\ S = ExpectStr(rd)))  BY <1>0, <1>6
    <3>. QED  BY <1>0, <2>1, <3>1, MatchFault
  <2>2. rd.error # "ok" => IdleAll(Match(S, n), rd)  BY <1>6, CountIdle
  <2>3. f \notin KeyFunctions  BY <1>0, <1>6
  <2>. QED  BY <1>6, <2>1, <2>2, <2>3, OpenCaused
<1>7. ASSUME NEW n \in Maxima, Open(Call("ext", n, n), ExtSize(rd, n))  PROVE Justified
  <2>1. ASSUME NEW call, call.f = "ext", call.low = n, call.high = n, At(rd, pos), NEW o \in ExtSize(rd, n), ~Good(o)
        PROVE  Fault(call, pos, o.rd)
    <3>1. Unreadable(o.rd, pos) \/ (Refuses(o.rd, "type") /\ (TagType(Elem(pos)) # "ext" \/ Elem(pos).n # n))
      BY <2>1, ExtSizeBad
    <3>2. Bounded(call, Elem(pos)) => Elem(pos).n = n  BY <1>0, <2>1, Exactly
    <3>3. TagType(Elem(pos)) # "ext" \/ Elem(pos).n # n => ~Wants(call, Elem(pos), BodyAt(pos), 0)
      BY <2>1, <3>2, WantsCount
    <3>. QED  BY <3>1, <3>3, Unmet
  <2>. QED  BY <1>0, <1>7, <2>1, HeadIdle, OpenCaused
<1>8. ASSUME NEW i \in DOMAIN Heads, Open(Call("tag", i, i), ExpectTag(rd, Heads[i]))  PROVE Justified
  <2>1. ASSUME NEW call, call.f = "tag", call.low = i, At(rd, pos), NEW o \in ExpectTag(rd, Heads[i]), ~Good(o)
        PROVE  Fault(call, pos, o.rd)
    <3>1. Unreadable(o.rd, pos) \/ (Refuses(o.rd, "type") /\ ~TagEqual(Heads[i], Elem(pos)))  BY <2>1, ExpectTagBad
    <3>2. ~TagEqual(Heads[i], Elem(pos)) => ~Wants(call, Elem(pos), BodyAt(pos), 0)  BY <2>1, WantsCount
    <3>. QED  BY <3>1, <3>2, Unmet
  <2>2. rd.error # "ok" => IdleAll(ExpectTag(rd, Heads[i]), rd)  BY NumbersIdle
  <2>. QED  BY <1>0, <1>8, <2>1, <2>2, OpenCaused
<1>. QED  BY <1>1, <1>2, <1>3, <1>4, <1>5, <1>6, <1>7, <1>8 DEF Head_

LEMMA BufferIdle ==
    ASSUME NEW n
    PROVE  rd.error # "ok" => /\ IdleAll(Buffered(ExpectStr(rd), n), rd) /\ IdleAll(BufferedUtf8(ExpectStr(rd), n), rd)
                              /\ IdleAll(Buffered(ExpectCount(rd, "bin"), n), rd)
<1>1. rd.error # "ok" => IdleAll(ExpectStr(rd), rd) /\ IdleAll(ExpectCount(rd, "bin"), rd)  BY NumbersIdle, StrIdle
<1>2. "type" # "ok"  OBVIOUS
<1>. QED  BY <1>1, <1>2, ChecksIdle

LEMMA BufferFault ==
    ASSUME NEW n \in Nat, NEW call, call.high = n, At(rd, pos), NEW S,
           \/ call.f = "str_buf" /\ S = ExpectStr(rd)
           \/ call.f = "bin_buf" /\ S = ExpectCount(rd, "bin"),
           NEW o \in Buffered(S, n), ~Good(o)
    PROVE  Fault(call, pos, o.rd)
<1>0. PICK kind : /\ KnownAll(S, pos, kind) /\ Starts(pos)
                  /\ call.f \in DOMAIN Capped /\ Capped[call.f] = kind
  BY HeadsKnown DEF At, Capped
<1>1. CASE \E q \in S : ~Good(q) /\ o.rd = q.rd
  <2>1. PICK q \in S : ~Good(q) /\ o.rd = q.rd  BY <1>1
  <2>2. CASE call.f = "str_buf" /\ S = ExpectStr(rd)
    <3>1. TagType(Elem(pos)) # "str" => ~Wants(call, Elem(pos), BodyAt(pos), 0)  BY <2>2, WantsCount
    <3>. QED  BY <2>1, <2>2, <3>1, StrFault
  <2>3. CASE call.f = "bin_buf" /\ S = ExpectCount(rd, "bin")
    <3>1. Unreadable(o.rd, pos) \/ (Refuses(o.rd, "type") /\ TagType(Elem(pos)) # "bin")
      BY <2>1, <2>3, ExpectCountBad
    <3>2. TagType(Elem(pos)) # "bin" => ~Wants(call, Elem(pos), BodyAt(pos), 0)  BY <2>3, WantsCount
    <3>. QED  BY <3>1, <3>2, Unmet
  <2>. QED  BY <2>2, <2>3
<1>2. CASE Unreadable(o.rd, pos)  BY <1>2, Unmet
<1>3. CASE Refuses(o.rd, "too_big") /\ Over(pos, kind, n)  BY <1>0, <1>3, TooLongFault
<1>. QED  BY <1>0, <1>1, <1>2, <1>3, BufferedBad

LEMMA Utf8Fault ==
    ASSUME NEW n \in Nat, NEW call, call.f = "utf8", call.high = n, At(rd, pos),
           NEW o \in BufferedUtf8(ExpectStr(rd), n), ~Good(o)
    PROVE  Fault(call, pos, o.rd)
<1>0. /\ KnownAll(ExpectStr(rd), pos, "str") /\ KeptAll(ExpectStr(rd), rd)
      /\ call.f \in DOMAIN Capped /\ Capped[call.f] = "str"
  BY HeadsKnown, AtKept, ExpectStrKept DEF Capped
<1>1. CASE \E q \in ExpectStr(rd) : ~Good(q) /\ o.rd = q.rd
  <2>1. TagType(Elem(pos)) # "str" => ~Wants(call, Elem(pos), BodyAt(pos), 0)  BY WantsText
  <2>. QED  BY <1>1, <2>1, StrFault
<1>2. CASE Unreadable(o.rd, pos)  BY <1>2, Unmet
<1>3. CASE Refuses(o.rd, "too_big") /\ Over(pos, "str", n)  BY <1>0, <1>3, TooLongFault
<1>4. CASE Refuses(o.rd, "type") /\ ~IsUtf8(BodyAt(pos))
  <2>1. ~Valid(BodyAt(pos), call.f # "cstr", call.f # "utf8")  BY <1>4 DEF Valid
  <2>2. ~Wants(call, Elem(pos), BodyAt(pos), 0)  BY <2>1, WantsText
  <2>. QED  BY <1>4, <2>2, Unmet
<1>. QED  BY <1>0, <1>1, <1>2, <1>3, <1>4, BufferedUtf8Bad

LEMMA CstrFault ==
    ASSUME NEW n \in Nat, NEW utf8 \in BOOLEAN, NEW call, call.f = IF utf8 THEN "utf8_cstr" ELSE "cstr", call.high = n,
           At(rd, pos), NEW o \in ExpectCstr(rd, n, utf8) \cup CstrAlloc(rd, n, utf8), ~Good(o)
    PROVE  Fault(call, pos, o.rd)
<1>0. call.f \in {"cstr", "utf8_cstr"} /\ call.f \in DOMAIN Allocates /\ Allocates[call.f] = "str"
  BY DEF Allocates
<1>1. \/ Unreadable(o.rd, pos)
      \/ Refuses(o.rd, "type") /\ ~(TagType(Elem(pos)) = "str" /\ Valid(BodyAt(pos), utf8, TRUE))
      \/ Refuses(o.rd, "too_big") /\ TagType(Elem(pos)) = "str" /\ Elem(pos).n >= n
      \/ Refuses(o.rd, "memory") /\ TagType(Elem(pos)) = "str" /\ Elem(pos).n <= n
      \/ Refuses(o.rd, "bug") /\ n = 0
  BY ExpectCstrBad, CstrAllocBad
<1>2. ~(TagType(Elem(pos)) = "str" /\ Valid(BodyAt(pos), utf8, TRUE)) => ~Wants(call, Elem(pos), BodyAt(pos), 0)
  <2>1. CASE utf8
    <3>1. call.f = "utf8_cstr"  BY <2>1
    <3>2. Valid(BodyAt(pos), call.f # "cstr", call.f # "utf8") => Valid(BodyAt(pos), utf8, TRUE)
      BY <3>1 DEF Valid
    <3>. QED  BY <1>0, <3>2, WantsText
  <2>2. CASE ~utf8
    <3>1. call.f = "cstr"  BY <2>2
    <3>2. Valid(BodyAt(pos), call.f # "cstr", call.f # "utf8") => Valid(BodyAt(pos), utf8, TRUE)
      BY <2>2, <3>1 DEF Valid
    <3>. QED  BY <1>0, <3>2, WantsText
  <2>. QED  BY <2>1, <2>2
<1>3. Refuses(o.rd, "too_big") /\ TagType(Elem(pos)) = "str" /\ Elem(pos).n >= n => Fault(call, pos, o.rd)
  BY <1>0 DEF Fault
<1>4. Refuses(o.rd, "memory") /\ TagType(Elem(pos)) = "str" /\ Elem(pos).n <= n => Fault(call, pos, o.rd)
  BY <1>0, MemoryFault
<1>5. Refuses(o.rd, "bug") /\ n = 0 => Fault(call, pos, o.rd)  BY <1>0 DEF Fault
<1>. QED  BY <1>1, <1>2, <1>3, <1>4, <1>5, Unmet

LEMMA AllocFault ==
    ASSUME NEW n \in Nat, NEW call, call.low = 0, call.high = n, At(rd, pos), NEW o, ~Good(o),
           \/ call.f = "bin_alloc" /\ o \in BinAlloc(rd, n)
           \/ call.f = "ext_alloc" /\ o \in ExtAlloc(rd, n)
    PROVE  Fault(call, pos, o.rd)
<1>1. PICK kind : (call.f = "bin_alloc" /\ kind = "bin") \/ (call.f = "ext_alloc" /\ kind = "ext")  OBVIOUS
<1>2. \/ Unreadable(o.rd, pos)
      \/ Refuses(o.rd, "type") /\ (TagType(Elem(pos)) # kind \/ Elem(pos).n > n)
      \/ Refuses(o.rd, "memory") /\ TagType(Elem(pos)) = kind /\ Elem(pos).n <= n /\ Elem(pos).n > 0
  BY <1>1, BinAllocBad, ExtAllocBad
<1>3. TagType(Elem(pos)) # kind \/ Elem(pos).n > n => ~Wants(call, Elem(pos), BodyAt(pos), 0)
  <2>1. Bounded(call, Elem(pos)) => ~(Elem(pos).n > n)
    <3>1. PICK m : m = Elem(pos).n  OBVIOUS
    <3>2. m \in 0 .. n => ~(m > n)  OBVIOUS
    <3>. QED  BY <3>1, <3>2 DEF Bounded
  <2>2. Wants(call, Elem(pos), BodyAt(pos), 0) = (TagType(Elem(pos)) = kind /\ Bounded(call, Elem(pos)))
    BY <1>1, WantsCount
  <2>. QED  BY <2>1, <2>2
<1>4. call.f \in DOMAIN Allocates /\ Allocates[call.f] = kind  BY <1>1 DEF Allocates
<1>5. Refuses(o.rd, "memory") /\ TagType(Elem(pos)) = kind /\ Elem(pos).n <= n /\ Elem(pos).n > 0 => Fault(call, pos, o.rd)
  BY <1>4, MemoryFault
<1>. QED  BY <1>2, <1>3, <1>5, Unmet

LEMMA ExtBufFault ==
    ASSUME NEW n \in Nat, NEW call, call.f = "ext_buf", call.high = n, At(rd, pos), NEW o \in ExtBuf(rd, n), ~Good(o)
    PROVE  Fault(call, pos, o.rd)
<1>1. TagType(Elem(pos)) # "ext" => ~Wants(call, Elem(pos), BodyAt(pos), 0)  BY WantsCount
<1>2. call.f \in DOMAIN Capped /\ Capped[call.f] = "ext"  BY DEF Capped
<1>. QED  BY <1>1, <1>2, ExtBufBad, TooLongFault, Unmet

LEMMA BytesJustified == ASSUME CInv, Bytes  PROVE Justified
<1>. SUFFICES ASSUME NEW n \in Maxima,
        \/ Whole(Call("str_buf", 0, n), Buffered(ExpectStr(rd), n))
        \/ Whole(Call("utf8", 0, n), BufferedUtf8(ExpectStr(rd), n))
        \/ Whole(Call("bin_buf", 0, n), Buffered(ExpectCount(rd, "bin"), n))
        \/ Whole(Call("ext_buf", 0, n), ExtBuf(rd, n))
        \/ \E utf8 \in BOOLEAN :
              LET f == IF utf8 THEN "utf8_cstr" ELSE "cstr"
              IN  \/ Whole(Call(f, 0, n), ExpectCstr(rd, n, utf8))
                  \/ Whole(Call(f, 0, n), CstrAlloc(rd, n, utf8))
        \/ Whole(Call("bin_alloc", 0, n), BinAlloc(rd, n))
        \/ Whole(Call("ext_alloc", 0, n), ExtAlloc(rd, n))
     PROVE Justified
  BY DEF Bytes
<1>0. /\ n \in Nat
      /\ \A f \in {"str_buf", "utf8", "bin_buf", "ext_buf", "cstr", "utf8_cstr", "bin_alloc", "ext_alloc"} :
            f \notin KeyFunctions
  BY MaximaAssumption DEF KeyFunctions
<1>1. ASSUME NEW f, NEW S, Whole(Call(f, 0, n), Buffered(S, n)),
             (f = "str_buf" /\ S = ExpectStr(rd)) \/ (f = "bin_buf" /\ S = ExpectCount(rd, "bin"))
      PROVE  Justified
  <2>1. ASSUME NEW call, call.f = f, call.high = n, At(rd, pos), NEW o \in Buffered(S, n), ~Good(o)
        PROVE  Fault(call, pos, o.rd)
    BY <1>0, <1>1, <2>1, BufferFault
  <2>2. rd.error # "ok" => IdleAll(Buffered(S, n), rd)  BY <1>1, BufferIdle
  <2>3. f \notin KeyFunctions  BY <1>0, <1>1
  <2>. QED  BY <1>1, <2>1, <2>2, <2>3, WholeCaused
<1>2. CASE Whole(Call("utf8", 0, n), BufferedUtf8(ExpectStr(rd), n))
  <2>1. ASSUME NEW call, call.f = "utf8", call.high = n, At(rd, pos), NEW o \in BufferedUtf8(ExpectStr(rd), n), ~Good(o)
        PROVE  Fault(call, pos, o.rd)
    BY <1>0, <2>1, Utf8Fault
  <2>. QED  BY <1>0, <1>2, <2>1, BufferIdle, WholeCaused
<1>3. CASE Whole(Call("ext_buf", 0, n), ExtBuf(rd, n))
  <2>1. ASSUME NEW call, call.f = "ext_buf", call.high = n, At(rd, pos), NEW o \in ExtBuf(rd, n), ~Good(o)
        PROVE  Fault(call, pos, o.rd)
    BY <1>0, <2>1, ExtBufFault
  <2>2. rd.error # "ok" => IdleAll(ExtBuf(rd, n), rd)  BY HeldIdle
  <2>. QED  BY <1>0, <1>3, <2>1, <2>2, WholeCaused
<1>4. ASSUME NEW utf8 \in BOOLEAN, NEW f, f = IF utf8 THEN "utf8_cstr" ELSE "cstr", NEW S,
             S = ExpectCstr(rd, n, utf8) \/ S = CstrAlloc(rd, n, utf8), Whole(Call(f, 0, n), S)
      PROVE  Justified
  <2>1. ASSUME NEW call, call.f = f, call.high = n, At(rd, pos), NEW o \in S, ~Good(o)
        PROVE  Fault(call, pos, o.rd)
    BY <1>0, <1>4, <2>1, CstrFault
  <2>2. rd.error # "ok" => IdleAll(S, rd)  BY <1>4, HeldIdle
  <2>3. f \notin KeyFunctions  BY <1>0, <1>4
  <2>. QED  BY <1>4, <2>1, <2>2, <2>3, WholeCaused
<1>5. ASSUME NEW f, NEW S, Whole(Call(f, 0, n), S),
             (f = "bin_alloc" /\ S = BinAlloc(rd, n)) \/ (f = "ext_alloc" /\ S = ExtAlloc(rd, n))
      PROVE  Justified
  <2>1. ASSUME NEW call, call.f = f, call.low = 0, call.high = n, At(rd, pos), NEW o \in S, ~Good(o)
        PROVE  Fault(call, pos, o.rd)
    BY <1>0, <1>5, <2>1, AllocFault
  <2>2. rd.error # "ok" => IdleAll(S, rd)  BY <1>5, HeldIdle
  <2>3. f \notin KeyFunctions  BY <1>0, <1>5
  <2>. QED  BY <1>5, <2>1, <2>2, <2>3, WholeCaused
<1>. QED  BY <1>1, <1>2, <1>3, <1>4, <1>5

-----------------------------------------------------------------------------
(* Names and keys *)

LEMMA NameFault ==
    ASSUME NEW i \in 1 .. Count, NEW call, call.f = "str_match", call.low = i, At(rd, pos),
           NEW o \in Match(ExpectStr(rd), Len(Names[i])), ~Good(o)
    PROVE  Fault(call, pos, o.rd)
<1>0. PassedAll(ExpectStr(rd), pos + Size(pos))  BY HeadsPassed
<1>1. PICK q \in ExpectStr(rd) :
         (~Good(q) /\ o.rd = q.rd) \/ (Good(q) /\ Refuses(o.rd, "type") /\ q.v.num # Len(Names[i]))
  BY <1>0, MatchBad
<1>2. CASE ~Good(q) /\ o.rd = q.rd
  <2>1. TagType(Elem(pos)) # "str" => ~Wants(call, Elem(pos), BodyAt(pos), 0)  BY WantsMatch
  <2>. QED  BY <1>2, <2>1, StrFault
<1>3. CASE Good(q) /\ Refuses(o.rd, "type") /\ q.v.num # Len(Names[i])
  <2>1. q.v = Num(Elem(pos).n)  BY <1>3, ExpectStrGood
  <2>2. Elem(pos).n # Len(Names[call.low])  BY <1>3, <2>1 DEF Num
  <2>3. ~Wants(call, Elem(pos), BodyAt(pos), 0)  BY <2>2, WantsMatch
  <2>. QED  BY <1>3, <2>3, Unmet
<1>. QED  BY <1>1, <1>2, <1>3

LEMMA LookupFault ==
    ASSUME NEW call, call.f \in Lookups, NEW s, Refuses(s, "too_big"), s.fill, Over(pos, "str", s.size)
    PROVE  Fault(call, pos, s)
BY DEF Fault

LEMMA NameJustified == ASSUME CInv, Name  PROVE Justified
<1>1. ASSUME NEW i \in 1 .. Count, Open(Call("str_match", i, i), Match(ExpectStr(rd), Len(Names[i])))
      PROVE  Justified
  <2>1. ASSUME NEW call, call.f = "str_match", call.low = i, At(rd, pos),
               NEW o \in Match(ExpectStr(rd), Len(Names[i])), ~Good(o)
        PROVE  Fault(call, pos, o.rd)
    BY <2>1, NameFault
  <2>2. "str_match" \notin KeyFunctions  BY DEF KeyFunctions
  <2>3. rd.error # "ok" => IdleAll(Match(ExpectStr(rd), Len(Names[i])), rd)  BY CountIdle
  <2>. QED  BY <1>1, <2>1, <2>2, <2>3, OpenCaused
<1>2. CASE Whole(Call("enum", 0, 0), ExpectEnum(rd))
  <2>1. ASSUME NEW call, call.f = "enum", At(rd, pos), NEW o \in ExpectEnum(rd), ~Good(o)
        PROVE  Fault(call, pos, o.rd)
    <3>1. \/ Unreadable(o.rd, pos)
          \/ /\ Refuses(o.rd, "type")
             /\ ~(TagType(Elem(pos)) = "str" /\ \E i \in 1 .. Count : BodyAt(pos) = Names[i])
          \/ Refuses(o.rd, "too_big") /\ o.rd.fill /\ Over(pos, "str", o.rd.size)
      BY <2>1, ExpectEnumBad
    <3>2. ~(TagType(Elem(pos)) = "str" /\ \E i \in 1 .. Count : BodyAt(pos) = Names[i]) =>
             ~Wants(call, Elem(pos), BodyAt(pos), 0)
      BY <2>1, WantsText
    <3>3. call.f \in Lookups  BY <2>1 DEF Lookups
    <3>. QED  BY <3>1, <3>2, <3>3, Unmet, LookupFault
  <2>2. "enum" \notin KeyFunctions  BY DEF KeyFunctions
  <2>3. rd.error # "ok" => IdleAll(ExpectEnum(rd), rd)  BY NamesIdle
  <2>. QED  BY <1>2, <2>1, <2>2, <2>3, WholeCaused
<1>3. CASE Whole(Call("enum_optional", 0, 0), EnumOptional(rd))
  <2>1. ASSUME NEW call, call.f = "enum_optional", At(rd, pos), NEW o \in EnumOptional(rd), ~Good(o)
        PROVE  Fault(call, pos, o.rd)
    <3>1. call.f \in Lookups  BY <2>1 DEF Lookups
    <3>. QED  BY <2>1, <3>1, EnumOptionalBad, Unmet, LookupFault
  <2>2. "enum_optional" \notin KeyFunctions  BY DEF KeyFunctions
  <2>3. rd.error # "ok" => IdleAll(EnumOptional(rd), rd)  BY NamesIdle
  <2>. QED  BY <1>3, <2>1, <2>2, <2>3, WholeCaused
<1>. QED  BY <1>1, <1>2, <1>3 DEF Name

(* A key that is answered is marked, and no other flag is *)
LEMMA KeyMarked ==
    ASSUME CInv, NEW call, NEW count, NEW outcomes, Keyed(call, outcomes), call.f \in KeyFunctions,
           rd.error # "ok" => IdleAll(outcomes, rd), outcomes = KeyCstr(rd) \/ outcomes = KeyUint(rd, count),
           At(rd, pos) => \A o \in outcomes : Good(o) => Keys(o)
    PROVE  Marking
<1>1. /\ Ask(call, outcomes) /\ asked' = call
      /\ found' = IF "marked" \in DOMAIN result' THEN found \cup {result'.marked} ELSE found
  BY DEF Keyed, Ask
<1>2. PICK o \in outcomes : rd' = o.rd /\ result' = o.v  BY <1>1 DEF Ask
<1>3. CASE ~Good(o)
  <2>1. "marked" \notin DOMAIN o.v  BY <1>3, RefusedUnmarked
  <2>. QED  BY <1>1, <1>2, <1>3, <2>1 DEF Marking, Good
<1>4. CASE Good(o)
  <2>1. rd.error = "ok"  BY <1>4 DEF IdleAll, Good
  <2>2. Keys(o)  BY <1>1, <1>4, <2>1, ExpectsAt DEF CInv, EInv, Ask
  <2>3. CASE o.v.num = Count /\ "marked" \notin DOMAIN o.v  BY <1>1, <1>2, <2>3 DEF Marking
  <2>4. CASE o.v = [num |-> o.v.num, marked |-> o.v.num] /\ o.v.num \in (0 .. Count - 1) \ found
    <3>1. PICK n : n = o.v.num  OBVIOUS
    <3>2. "marked" \in DOMAIN o.v /\ o.v.marked = n  BY <2>4, <3>1
    <3>3. Count \in Nat  BY NamesAssumption DEF Count
    <3>4. n # Count /\ n \in (0 .. Count - 1) \ found  BY <2>4, <3>1, <3>3
    <3>. QED  BY <1>1, <1>2, <1>4, <3>1, <3>2, <3>4 DEF Marking, Good
  <2>. QED  BY <2>2, <2>3, <2>4 DEF Keys
<1>. QED  BY <1>3, <1>4

LEMMA KeyJustified == ASSUME CInv, Key  PROVE Justified
<1>1. ASSUME NEW count \in {0, Count}, Keyed(Call("key_uint", 0, count), KeyUint(rd, count))
      PROVE  Justified
  <2>. DEFINE call == Call("key_uint", 0, count)
  <2>1. call.f = "key_uint" /\ call.high = count /\ call.from = pos  BY DEF Call
  <2>2. Ask(call, KeyUint(rd, count)) /\ left' = left /\ Keyed(call, KeyUint(rd, count))  BY <1>1 DEF Keyed
  <2>. HIDE DEF call
  <2>3. ASSUME At(rd, pos), NEW o \in KeyUint(rd, count), ~Good(o)  PROVE Fault(call, pos, o.rd)
    <3>1. count \in Nat  BY NamesAssumption DEF Count
    <3>2. \/ Unreadable(o.rd, pos)
          \/ Refuses(o.rd, "invalid") /\ TagType(Elem(pos)) = "uint" /\ Elem(pos).n \in found
          \/ Refuses(o.rd, "bug") /\ count = 0
      BY <2>3, <3>1, KeyUintBad
    <3>. QED  BY <2>1, <3>2 DEF Fault, Again
  <2>4. FaultsAll(call, KeyUint(rd, count))  BY <2>3 DEF FaultsAll
  <2>5. rd.error # "ok" => IdleAll(KeyUint(rd, count), rd)  BY NamesIdle
  <2>6. Marking
    <3>1. At(rd, pos) => \A o \in KeyUint(rd, count) : Good(o) => Keys(o)  BY KeyUintGood
    <3>2. call.f \in KeyFunctions  BY <2>1 DEF KeyFunctions
    <3>. QED  BY <2>2, <2>5, <3>1, <3>2, KeyMarked
  <2>7. rd'.error # "ok" => left' \in Nat  BY <2>2 DEF CInv
  <2>. QED  BY <2>1, <2>2, <2>4, <2>5, <2>6, <2>7, AskJustified
<1>2. CASE Keyed(Call("key_cstr", 0, Count), KeyCstr(rd))
  <2>. DEFINE call == Call("key_cstr", 0, Count)
  <2>1. call.f = "key_cstr" /\ call.from = pos  BY DEF Call
  <2>2. Ask(call, KeyCstr(rd)) /\ left' = left /\ Keyed(call, KeyCstr(rd))  BY <1>2 DEF Keyed
  <2>. HIDE DEF call
  <2>3. ASSUME At(rd, pos), NEW o \in KeyCstr(rd), ~Good(o)  PROVE Fault(call, pos, o.rd)
    <3>1. \/ Unreadable(o.rd, pos) \/ (Refuses(o.rd, "invalid") /\ Twice(pos))
          \/ Refuses(o.rd, "too_big") /\ o.rd.fill /\ Over(pos, "str", o.rd.size)
      BY <2>3, KeyCstrBad
    <3>2. call.f \in Lookups  BY <2>1 DEF Lookups
    <3>3. Refuses(o.rd, "invalid") /\ Twice(pos) => Fault(call, pos, o.rd)  BY <2>1 DEF Fault, Again, Twice
    <3>. QED  BY <3>1, <3>2, <3>3, Unmet, LookupFault
  <2>4. FaultsAll(call, KeyCstr(rd))  BY <2>3 DEF FaultsAll
  <2>5. rd.error # "ok" => IdleAll(KeyCstr(rd), rd)  BY NamesIdle
  <2>6. Marking
    <3>1. At(rd, pos) => \A o \in KeyCstr(rd) : Good(o) => Keys(o)  BY KeyCstrGood
    <3>2. call.f \in KeyFunctions  BY <2>1 DEF KeyFunctions
    <3>. QED  BY <2>2, <2>5, <3>1, <3>2, KeyMarked
  <2>7. rd'.error # "ok" => left' \in Nat  BY <2>2 DEF CInv
  <2>. QED  BY <2>1, <2>2, <2>4, <2>5, <2>6, <2>7, AskJustified
<1>. QED  BY <1>1, <1>2 DEF Key

-----------------------------------------------------------------------------
(* A name that is matched byte by byte *)

LEMMA OneByte ==
    ASSUME stream \in Seq(Cell), NEW p \in Nat, p + 1 <= Len(stream)
    PROVE  Number(SubSeq(stream, p + 1, p + 1)) = stream[p + 1].n % Base
<1>1. PICK m : m = SubSeq(stream, p + 1, p + 1)  OBVIOUS
<1>2. /\ Len(SubSeq(stream, p + 1, p + 1)) = 1 /\ \A i \in 1 .. 1 : SubSeq(stream, p + 1, p + 1)[i] = stream[p + i]
  <2>1. \A n \in Nat : p + n <= Len(stream) =>
           /\ Len(SubSeq(stream, p + 1, p + n)) = n
           /\ \A i \in 1 .. n : SubSeq(stream, p + 1, p + n)[i] = stream[p + i]
    BY Part
  <2>. QED  BY <2>1
<1>3. Len(m) = 1 /\ \A i \in 1 .. 1 : m[i] = stream[p + i]  BY <1>1, <1>2
<1>4. 1 \in 1 .. 1  OBVIOUS
<1>5. Len(m) = 1 /\ m[1] = stream[p + 1]  BY <1>3, <1>4
<1>6. Number(m) = Digit(m[1])  BY <1>5 DEF Number
<1>. QED  BY <1>1, <1>5, <1>6 DEF Digit

(* Between two bytes of a name: how many are behind, and the next *)
LEMMA MatchingAt ==
    ASSUME EInv, Matching
    PROVE  LET name == Names[asked.low]
               p == asked.from
           IN  /\ Starts(p) /\ p + Size(p) <= Len(stream) /\ Stands(rd, pos)
               /\ \E m \in Nat :
                     /\ m = Len(name) - left /\ pos = p + Size(p) + m /\ m + 1 <= Contents(Elem(p))
                     /\ m + 1 \in 1 .. Len(name) /\ name[m + 1].n \in 0 .. Base - 1
<1>. DEFINE name == Names[asked.low]
            p == asked.from
            q == p + Size(p)
            m == Len(name) - left
<1>0. rd.error = "ok" /\ asked.f = "str_match" /\ left > 0  BY DEF Matching
<1>1. /\ Starts(p) /\ q <= Len(stream) /\ Wants(asked, Elem(p), BodyAt(p), left)
      /\ pos + left = q + Contents(Elem(p)) /\ left <= Contents(Elem(p)) /\ asked.low \in 1 .. Count
  BY <1>0 DEF EInv, Answered
<1>2. Stands(rd, pos) /\ left \in Nat  BY <1>0 DEF EInv, Ordered
<1>3. Contents(Elem(p)) = Len(name) /\ m \in Nat  BY <1>0, <1>1, <1>2, MatchedPrefix
<1>4. name \in Seq([t : {"byte"}, n : 0 .. Base - 1]) /\ Len(name) \in Nat  BY <1>1, NameCells
<1>5. q \in Nat /\ pos \in Nat  BY <1>1, <1>2, ElemContents DEF Stands
<1>. HIDE DEF name, q
<1>6. pos = q + m /\ m + 1 <= Contents(Elem(p)) /\ m + 1 \in 1 .. Len(name)
  <2>1. PICK x \in Nat, y \in Nat, c \in Nat, z \in Nat : x = pos /\ y = left /\ c = Len(name) /\ z = q
    BY <1>2, <1>4, <1>5
  <2>2. x + y = z + c /\ y > 0 /\ y <= c /\ m = c - y /\ Contents(Elem(p)) = c  BY <1>0, <1>1, <1>3, <2>1
  <2>3. x = z + (c - y) /\ c - y + 1 <= c /\ c - y + 1 \in 1 .. c  BY <2>2
  <2>. QED  BY <2>1, <2>2, <2>3
<1>7. name[m + 1].n \in 0 .. Base - 1
  <2>. DEFINE T == [t : {"byte"}, n : 0 .. Base - 1]
  <2>1. name \in Seq(T)  BY <1>4 DEF T
  <2>. HIDE DEF T, m
  <2>2. name[m + 1] \in T
    <3>1. PICK k : k = m + 1  OBVIOUS
    <3>2. name[k] \in T  BY <1>6, <2>1, <3>1
    <3>. QED  BY <3>1, <3>2
  <2>. QED  BY <2>2 DEF T
<1>. HIDE DEF m, p
<1>8. \E k \in Nat : /\ k = Len(name) - left /\ pos = p + Size(p) + k /\ k + 1 <= Contents(Elem(p))
                     /\ k + 1 \in 1 .. Len(name) /\ name[k + 1].n \in 0 .. Base - 1
  <2>1. m \in Nat /\ m = Len(name) - left /\ pos = p + Size(p) + m  BY <1>3, <1>6 DEF m, q
  <2>. QED  BY <2>1, <1>6, <1>7
<1>. QED  BY <1>1, <1>2, <1>8 DEF name, p, q

LEMMA MatchByteFault ==
    ASSUME EInv, Matching, NEW o \in MatchOne(rd, Names[asked.low][Len(Names[asked.low]) - left + 1]), ~Good(o)
    PROVE  Fault(asked, asked.from, o.rd)
<1>. DEFINE name == Names[asked.low]
            p == asked.from
<1>0. rd.error = "ok" /\ asked.f = "str_match"  BY DEF Matching
<1>1. Starts(p) /\ p + Size(p) <= Len(stream) /\ Stands(rd, pos)  BY MatchingAt
<1>2. PICK m \in Nat : /\ m = Len(name) - left /\ pos = p + Size(p) + m /\ m + 1 <= Contents(Elem(p))
                       /\ m + 1 \in 1 .. Len(name) /\ name[m + 1].n \in 0 .. Base - 1
  BY MatchingAt
<1>3. o \in MatchOne(rd, name[m + 1])  BY <1>2
<1>. HIDE DEF name, p
<1>4. /\ p + Size(p) \in Nat /\ Contents(Elem(p)) \in Nat /\ Size(p) \in Nat /\ 1 <= Size(p) /\ pos \in Nat
      /\ stream \in Seq(Cell)
  <2>1. p + Size(p) \in Nat /\ Contents(Elem(p)) \in Nat  BY <1>1, ElemContents
  <2>2. Size(p) \in Nat /\ 1 <= Size(p)  BY <1>1, TagSizes DEF Size, Starts
  <2>. QED  BY <1>1, <2>1, <2>2, StreamCells DEF Stands, Starts
<1>5. \/ Lacks(o.rd, pos, 1) \/ TooBig(o.rd, 1)
      \/ Refuses(o.rd, "type") /\ pos + 1 <= Len(stream) /\ name[m + 1].n # Number(SubSeq(stream, pos + 1, pos + 1))
  BY <1>0, <1>1, <1>3, MatchOneBad
<1>6. CASE Lacks(o.rd, pos, 1)
  <2>1. pos + 1 = p + Size(p) + (m + 1) /\ m + 1 \in Nat  BY <1>2, <1>4
  <2>2. Lacks(o.rd, p + Size(p), m + 1)  BY <1>6, <2>1 DEF Lacks, Cut, Starved
  <2>3. Unreadable(o.rd, p)  BY <1>1, <1>2, <2>1, <2>2, BodyLacks
  <2>. QED  BY <2>3, Unmet DEF p
<1>7. CASE TooBig(o.rd, 1)
  <2>1. Unreadable(o.rd, p)  BY <1>1, <1>4, <1>7, HeadLacks
  <2>. QED  BY <2>1, Unmet DEF p
<1>8. CASE /\ Refuses(o.rd, "type") /\ pos + 1 <= Len(stream)
           /\ name[m + 1].n # Number(SubSeq(stream, pos + 1, pos + 1))
  <2>1. ASSUME Wants(asked, Elem(p), BodyAt(p), 0)  PROVE FALSE
    <3>1. \A k \in 1 .. Len(name) - 0 : k \in DOMAIN BodyAt(p) /\ BodyAt(p)[k] = name[k]
      BY <1>0, <2>1, WantsMatch DEF name
    <3>2. m + 1 \in 1 .. Len(name) - 0
      <4>1. PICK c : c = Len(name)  OBVIOUS
      <4>2. m + 1 \in 1 .. c  BY <1>2, <4>1
      <4>3. Len(name) \in Int
        <5>1. asked.low \in 1 .. Count  BY <1>0 DEF EInv, Answered, Matching
        <5>. QED  BY <5>1, NameCells DEF name
      <4>. QED  BY <4>1, <4>2, <4>3
    <3>3. BodyAt(p)[m + 1] = name[m + 1]  BY <3>1, <3>2
    <3>4. m < Contents(Elem(p)) /\ p + Size(p) + m + 1 <= Len(stream)  BY <1>2, <1>4, <1>8
    <3>5. BodyAt(p)[m + 1] = stream[p + Size(p) + m + 1]  BY <1>1, <3>4, BodyByte
    <3>6. stream[pos + 1] = name[m + 1]  BY <1>2, <3>3, <3>5
    <3>7. Number(SubSeq(stream, pos + 1, pos + 1)) = name[m + 1].n % Base  BY <1>4, <1>8, <3>6, OneByte
    <3>8. \A n \in 0 .. Base - 1 : n % Base = n  BY BaseFacts
    <3>. QED  BY <1>2, <1>8, <3>7, <3>8
  <2>. QED  BY <1>8, <2>1, Unmet DEF p
<1>. QED  BY <1>5, <1>6, <1>7, <1>8

LEMMA MatchByteJustified == ASSUME CInv, MatchByte  PROVE Justified
<1>1. PICK o \in MatchOne(rd, Names[asked.low][Len(Names[asked.low]) - left + 1]) :
         rd' = o.rd /\ result' = o.v /\ left' = IF Good(o) THEN left - 1 ELSE 0
  BY DEF MatchByte
<1>2. /\ stream' = stream /\ asked' = asked /\ found' = found
      /\ Matching /\ rd.error = "ok" /\ asked.f = "str_match"
  BY DEF MatchByte, Matching
<1>3. ASSUME rd'.error # "ok"
      PROVE  /\ Halted(rd') /\ (Expects(asked') => Caused(asked, Element(asked), rd.error)')
             /\ left' \in Nat
  <2>1. ~Good(o)  BY <1>1, <1>3 DEF Good
  <2>2. Fault(asked, asked.from, o.rd)  BY <1>2, <2>1, MatchByteFault DEF CInv
  <2>3. Elem(asked.from)' = Elem(asked.from) /\ Size(asked.from)' = Size(asked.from)  BY <1>2 DEF Elem, Size
  <2>4. BodyAt(asked.from)' = BodyAt(asked.from)  BY <1>2, <2>3 DEF BodyAt
  <2>5. Unreadable(o.rd, asked.from) => Unreadable(rd, asked.from)'  BY <1>1, <1>2, <2>3 DEF Unreadable
  <2>6. Fault(asked, asked.from, rd)'
    BY <1>1, <1>2, <2>2, <2>3, <2>4, <2>5 DEF Fault, Over, Again
  <2>7. Caused(asked, Element(asked), rd.error)'  BY <2>6, FaultCaused, PTL
  <2>8. left' = 0  BY <1>1, <2>1
  <2>. QED  BY <1>1, <2>2, <2>7, <2>8, FaultHalts
<1>4. asked'.f \notin KeyFunctions  BY <1>2 DEF KeyFunctions
<1>. QED  BY <1>2, <1>3, <1>4 DEF Justified, Marking

-----------------------------------------------------------------------------
(* What is read without an expectation, and the whole program *)

LEMMA ReaderNames == ASSUME ReaderCall  PROVE asked'.f \notin KeyFunctions
<1>. USE DEF KeyFunctions
<1>1. ASSUME NEW f, NEW num, asked' = [f |-> f, num |-> num, from |-> pos], f \notin KeyFunctions
      PROVE  asked'.f \notin KeyFunctions
  BY <1>1
<1>2. ASSUME NEW f, NEW num, NEW outcomes, NEW bytes, NEW after, Do(f, num, outcomes, bytes, after),
             f \notin KeyFunctions
      PROVE  asked'.f \notin KeyFunctions
  BY <1>1, <1>2 DEF Do
<1>3. CASE Read \/ Peek  BY <1>2, <1>3 DEF Read, Peek
<1>4. CASE ReadPart  BY <1>2, <1>4 DEF ReadPart
<1>5. CASE ReadText  BY <1>2, <1>5 DEF ReadText
<1>6. CASE Discard  BY <1>1, <1>6 DEF Discard
<1>7. CASE Remaining \/ Reject  BY <1>2, <1>7 DEF Remaining, Reject
<1>8. CASE SkipRest  BY <1>2, <1>8 DEF SkipRest
<1>. QED  BY <1>3, <1>4, <1>5, <1>6, <1>7, <1>8 DEF ReaderCall, Next

LEMMA ReaderLeaves == ASSUME ReaderCall, rd'.error # "ok"  PROVE left' = left
<1>1. ASSUME NEW f, NEW num, NEW outcomes, NEW bytes, NEW after, Do(f, num, outcomes, bytes, after)
      PROVE  left' = left
  <2>1. PICK o \in outcomes : rd' = o.rd /\ left' = IF Good(o) THEN after ELSE left  BY <1>1 DEF Do
  <2>. QED  BY <2>1 DEF Good
<1>3. CASE Read \/ Peek  BY <1>1, <1>3 DEF Read, Peek
<1>4. CASE ReadPart  BY <1>1, <1>4 DEF ReadPart
<1>5. CASE ReadText  BY <1>1, <1>5 DEF ReadText
<1>6. CASE Discard  BY <1>6 DEF Discard
<1>7. CASE Remaining \/ Reject  BY <1>1, <1>7 DEF Remaining, Reject
<1>8. CASE SkipRest  BY <1>1, <1>8 DEF SkipRest
<1>. QED  BY <1>3, <1>4, <1>5, <1>6, <1>7, <1>8 DEF ReaderCall, Next

LEMMA ReaderJustified == ASSUME CInv, ReaderCall  PROVE Justified
<1>0. Ordered /\ left \in Nat /\ (rd.error # "ok" => Halted(rd))  BY DEF CInv, EInv
<1>a. Marking  BY ReaderNames DEF ReaderCall, Marking
<1>1. CASE rd.error = "ok" /\ rd'.error # "ok"
  <2>1. Next => Halted(rd')  BY <1>0, <1>1, NextHalts
  <2>2. SkipRest => Halted(rd')
    <3>1. Stands(rd, pos)  BY <1>0, <1>1 DEF Ordered
    <3>2. HaltsAll(SkipBytes(rd, left))  BY <1>0, <1>1, <3>1, BytesHalt
    <3>. QED  BY <1>1, <3>2, DoHalts DEF SkipRest
  <2>3. Discard => Next  BY DEF Next
  <2>. QED  BY <1>0, <1>a, <1>1, <2>1, <2>2, <2>3, ReaderAsks, ReaderLeaves DEF ReaderCall, Justified
<1>2. CASE rd.error # "ok"
  <2>1. Next => rd' = rd  BY <1>0, <1>2, NextIdle
  <2>2. SkipRest => rd' = rd
    <3>1. IdleAll(SkipBytes(rd, left), rd)  BY <1>0, <1>2, BytesIdle
    <3>. QED  BY <3>1, DoIdle DEF SkipRest
  <2>3. Discard => Next  BY DEF Next
  <2>. QED  BY <1>0, <1>a, <1>2, <2>1, <2>2, <2>3, ReaderLeaves DEF ReaderCall, Justified
<1>3. CASE rd.error = "ok" /\ rd'.error = "ok"  BY <1>a, <1>3 DEF Justified
<1>. QED  BY <1>1, <1>2, <1>3

LEMMA NextJustified == ASSUME CInv, ExpectNext  PROVE Justified
BY NumbersJustified, RealJustified, SimpleJustified, ContainerJustified, HeadJustified, BytesJustified,
   NameJustified, KeyJustified, MatchByteJustified, ReaderJustified DEF ExpectNext

LEMMA InitCause == ExpectInit => CInv
<1>. SUFFICES ASSUME ExpectInit  PROVE CInv  OBVIOUS
<1>1. EInv  BY ExpectInitAnswered
<1>2. PICK setup : rd = New(setup)  BY DEF ExpectInit, Init
<1>. DEFINE memory == setup.size = 0
            held == IF memory \/ setup.count > Len(stream) THEN Len(stream) ELSE setup.count
            plain == [buffer |-> IF memory THEN stream ELSE Padded(SubSeq(stream, 1, held), setup.size),
                      data |-> 0, end |-> held, drawn |-> held, size |-> setup.size,
                      fill |-> FALSE, skip |-> setup.skip,
                      fn |-> TRUE, error |-> "ok", told |-> << >>, held |-> FALSE]
<1>3. New(setup) = IF ~setup.fill THEN plain
                   ELSE IF setup.size < MinSize THEN FlagError(plain, "bug")
                   ELSE [plain EXCEPT !.fill = TRUE]
  BY DEF New
<1>4. DOMAIN plain = Fields /\ plain.error = "ok" /\ plain.data \in Nat  BY DEF Fields
<1>5. [plain EXCEPT !.fill = TRUE].error = "ok"  OBVIOUS
<1>. HIDE DEF plain
<1>6. "bug" # "ok"  OBVIOUS
<1>7. Halted(FlagError(plain, "bug"))
  <2>1. Refuses(FlagError(plain, "bug"), "bug")  BY <1>4, <1>6, FlagHalts
  <2>. QED  BY <2>1 DEF Refuses
<1>8. rd.error # "ok" => Halted(rd)  BY <1>2, <1>3, <1>4, <1>5, <1>7
<1>9. left = 0  BY DEF ExpectInit, Init
<1>. QED  BY <1>1, <1>8, <1>9 DEF CInv

LEMMA NextCause == ASSUME CInv, [ExpectNext]_expectVars  PROVE CInv'
<1>1. EInv'  BY ExpectNextAnswered DEF CInv
<1>2. CASE UNCHANGED expectVars
  <2>1. rd' = rd /\ left' = left  BY <1>2 DEF expectVars, vars
  <2>. QED  BY <1>1, <2>1 DEF CInv, Halted
<1>3. CASE ExpectNext
  <2>1. Justified  BY <1>3, NextJustified
  <2>2. rd.error = "ok" /\ rd'.error # "ok" => Halted(rd)'  BY <2>1 DEF Justified, Halted
  <2>3. rd.error # "ok" => rd' = rd  BY <2>1 DEF Justified
  <2>4. (rd.error # "ok" => Halted(rd))'  BY <2>2, <2>3 DEF CInv, Halted
  <2>5. (left \in Nat)'  BY <1>1, <2>1 DEF Justified, EInv, Ordered
  <2>. QED  BY <1>1, <2>4, <2>5 DEF CInv
<1>. QED  BY <1>2, <1>3

(* An error is flagged for its cause in the element and no other: see       *)
(* Caused; nothing is read after it; a key is answered once, and its flag   *)
(* is the one that is marked (expect.c:66-810)                              *)
THEOREM ErrorsJustified == ExpectSpec => FlaggedForCause
<1>1. ExpectInit => CInv  BY InitCause
<1>2. CInv /\ [ExpectNext]_expectVars => CInv'  BY NextCause
<1>3. CInv /\ [ExpectNext]_expectVars =>
         [/\ rd.error = "ok" /\ rd'.error # "ok" /\ Expects(asked') => Caused(asked, Element(asked), rd.error)'
          /\ rd.error # "ok" => rd' = rd
          /\ IF rd'.error = "ok" /\ asked'.f \in KeyFunctions /\ result'.num # Count
             THEN result'.num \in (0 .. Count - 1) \ found /\ found' = found \cup {result'.num}
             ELSE found' = found
         ]_expectVars
  BY NextJustified DEF Justified, Marking
<1>. QED  BY <1>1, <1>2, <1>3, PTL DEF ExpectSpec, FlaggedForCause

=============================================================================
