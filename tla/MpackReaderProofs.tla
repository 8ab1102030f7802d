------------------------- MODULE MpackReaderProofs -------------------------
(***************************************************************************)
(* Proofs about MpackReader: whatever the source delivers and whichever    *)
(* call fails, the program hears of an error once, and until there is one  *)
(* it reads the bytes of the stream in order.  The last part, on which     *)
(* MpackExpectProofs builds, says why a read fails.                        *)
(***************************************************************************)
EXTENDS MpackReader, TLAPS

Fields == {"buffer", "data", "end", "drawn", "size", "fill", "skip", "fn", "error", "told", "held"}

(* What any call does to the error of reader r: one that is there stays,   *)
(* one that is new is told when there is a handler                         *)
Kept(s, r) ==
    /\ DOMAIN s = Fields /\ s.fn = r.fn /\ s.held = r.held
    /\ s.size = r.size /\ s.fill = r.fill
    /\ r.error # "ok" => s.error = r.error
    /\ s.told = IF s.error # r.error /\ r.fn THEN Append(r.told, [error |-> s.error, held |-> r.held])
                ELSE r.told
KeptAll(outcomes, r) == \A o \in outcomes : Kept(o.rd, r)

(* A reader between two calls *)
Fair(r) ==
    /\ DOMAIN r = Fields /\ r.fn = TRUE /\ r.held = FALSE
    /\ r.told = IF r.error = "ok" THEN <<>> ELSE <<[error |-> r.error, held |-> FALSE]>>
FairAll(outcomes) == \A o \in outcomes : Fair(o.rd)

LEMMA Stays == ASSUME NEW r, DOMAIN r = Fields  PROVE Kept(r, r)
BY DEF Kept

LEMMA KeptAgain ==
    ASSUME NEW q, NEW s, NEW r, Kept(q, s), Kept(s, r)
    PROVE  Kept(q, r)
BY DEF Kept

LEMMA FlagKept ==
    ASSUME NEW r, DOMAIN r = Fields, NEW e, e # "ok"
    PROVE  Kept(FlagError(r, e), r)
BY DEF FlagError, Kept, Fields

LEMMA FairKept ==
    ASSUME NEW s, NEW r, Fair(r), Kept(s, r)
    PROVE  Fair(s)
<1>1. \A x : Append(<< >>, x) = <<x>>  OBVIOUS
<1>2. CASE s.error = r.error  BY <1>2 DEF Fair, Kept
<1>3. CASE s.error # r.error
  <2>1. r.error = "ok" /\ r.told = << >> /\ r.fn = TRUE /\ r.held = FALSE  BY <1>3 DEF Fair, Kept
  <2>2. s.told = Append(<< >>, [error |-> s.error, held |-> FALSE])  BY <1>3, <2>1 DEF Kept
  <2>. QED  BY <1>1, <1>3, <2>1, <2>2 DEF Fair, Kept
<1>. QED  BY <1>2, <1>3

-----------------------------------------------------------------------------
(* Filling *)

LEMMA DrawKept ==
    ASSUME NEW r, DOMAIN r = Fields, NEW n
    PROVE  Kept(Draw(r, n), r)
BY DEF Draw, Kept, Fields

LEMMA WriteKept ==
    ASSUME NEW r, DOMAIN r = Fields, NEW at, NEW bytes
    PROVE  Kept(Write(r, at, bytes), r)
BY DEF Write, Kept, Fields

LEMMA FillRangeKept ==
    ASSUME NEW r, DOMAIN r = Fields, NEW min, NEW max
    PROVE  KeptAll(FillRange(r, min, max), r)
<1>1. ASSUME NEW n, NEW e \in FillErrors
      PROVE  Kept(FlagError(Draw(r, n), e), r)
  <2>1. Kept(Draw(r, n), r)  BY DrawKept
  <2>2. DOMAIN Draw(r, n) = Fields  BY <2>1 DEF Kept
  <2>3. e # "ok"  BY DEF FillErrors
  <2>. QED  BY <2>1, <2>2, <2>3, FlagKept, KeptAgain
<1>2. ASSUME NEW o \in FillRange(r, min, max)  PROVE Kept(o.rd, r)
  <2>1. CASE \E n \in min .. Most(r, max) : o = Out(Draw(r, n), Drawn(r, n))
    BY <2>1, DrawKept DEF Out
  <2>2. CASE \E n \in 0 .. Most(r, min - 1), e \in FillErrors : o = Out(FlagError(Draw(r, n), e), Drawn(r, n))
    BY <2>2, <1>1 DEF Out
  <2>. QED  BY <2>1, <2>2 DEF FillRange
<1>. QED  BY <1>2 DEF KeptAll

(* A call that moves the bytes of the buffer, or its place in it *)
LEMMA MovedKept ==
    ASSUME NEW r, DOMAIN r = Fields, NEW data, NEW end, NEW at, NEW bytes
    PROVE  /\ Kept([r EXCEPT !.data = data], r)
           /\ Kept([r EXCEPT !.end = end], r)
           /\ Kept([Write(r, at, bytes) EXCEPT !.data = data, !.end = end], r)
           /\ Kept([Write(r, at, bytes) EXCEPT !.end = end, !.data = data], r)
BY DEF Write, Kept, Fields

LEMMA TakeKept ==
    ASSUME NEW r, DOMAIN r = Fields, NEW count
    PROVE  Kept(Take(r, count).rd, r)
BY MovedKept DEF Take, Out

LEMMA EnsureKept ==
    ASSUME NEW r, DOMAIN r = Fields, NEW count
    PROVE  KeptAll(Ensure(r, count), r)
<1>. DEFINE c == Compacted(r)
            full(o) == Write(o.rd, InBuffer(r), o.v)
            filled(o) == Out(IF Good(o) THEN [full(o) EXCEPT !.end = @ + Len(o.v)] ELSE full(o), Good(o))
            range == FillRange(c, count - InBuffer(r), r.size - InBuffer(r))
<1>1. Kept(c, r)  BY MovedKept DEF Compacted
<1>2. ASSUME NEW o \in range  PROVE Kept(filled(o).rd, r)
  <2>1. DOMAIN c = Fields  BY <1>1 DEF Kept
  <2>2. Kept(o.rd, c)  BY <2>1, FillRangeKept DEF KeptAll
  <2>3. DOMAIN o.rd = Fields  BY <2>2 DEF Kept
  <2>4. Kept(full(o), o.rd)  BY <2>3, WriteKept
  <2>5. DOMAIN full(o) = Fields  BY <2>4 DEF Kept
  <2>6. Kept([full(o) EXCEPT !.end = full(o).end + Len(o.v)], full(o))  BY <2>5, MovedKept
  <2>7. Kept(full(o), r)  BY <1>1, <2>2, <2>4, KeptAgain
  <2>8. Kept([full(o) EXCEPT !.end = @ + Len(o.v)], r)  BY <2>6, <2>7, KeptAgain
  <2>. HIDE DEF full
  <2>. QED  BY <2>7, <2>8 DEF Out
<1>3. Ensure(r, count) =
        IF count <= InBuffer(r) THEN {Out(r, TRUE)}
        ELSE IF ~r.fill THEN {Out(FlagError(r, "invalid"), FALSE)}
        ELSE IF count > r.size THEN {Out(FlagError(r, "too_big"), FALSE)}
        ELSE {filled(o) : o \in range}
  BY DEF Ensure
<1>4. Kept(Out(r, TRUE).rd, r)  BY Stays DEF Out
<1>5. Kept(Out(FlagError(r, "invalid"), FALSE).rd, r)  BY FlagKept DEF Out
<1>6. Kept(Out(FlagError(r, "too_big"), FALSE).rd, r)  BY FlagKept DEF Out
<1>. HIDE DEF filled, range
<1>. QED  BY <1>2, <1>3, <1>4, <1>5, <1>6 DEF KeptAll

LEMMA RestKept ==
    ASSUME NEW r, DOMAIN r = Fields, NEW first, NEW rest
    PROVE  KeptAll(Rest(r, first, rest), r)
<1>. DEFINE small(o) == IF Good(o)
                        THEN Out([Write(o.rd, 0, o.v) EXCEPT !.data = rest, !.end = Len(o.v)],
                                 first \o SubSeq(o.v, 1, rest))
                        ELSE Out(Write(o.rd, 0, o.v), Padded(first, Len(first) + rest))
            large(o) == Out(o.rd, Padded(first \o o.v, Len(first) + rest))
<1>1. ASSUME NEW max, NEW o \in FillRange(r, rest, max)
      PROVE  Kept(small(o).rd, r) /\ Kept(large(o).rd, r)
  <2>1. Kept(o.rd, r)  BY FillRangeKept DEF KeptAll
  <2>2. DOMAIN o.rd = Fields  BY <2>1 DEF Kept
  <2>3. Kept(Write(o.rd, 0, o.v), r)  BY <2>1, <2>2, WriteKept, KeptAgain
  <2>4. Kept([Write(o.rd, 0, o.v) EXCEPT !.data = rest, !.end = Len(o.v)], r)
    BY <2>1, <2>2, MovedKept, KeptAgain
  <2>. QED  BY <2>1, <2>3, <2>4 DEF Out
<1>2. Rest(r, first, rest) =
        IF rest <= r.size \div ReadFraction THEN {small(o) : o \in FillRange(r, rest, r.size)}
        ELSE {large(o) : o \in FillRange(r, rest, rest)}
  BY DEF Rest
<1>. HIDE DEF small, large
<1>. QED  BY <1>1, <1>2 DEF KeptAll

LEMMA ReadNativeKept ==
    ASSUME NEW r, DOMAIN r = Fields, NEW count
    PROVE  KeptAll(ReadNative(r, count), r)
<1>. DEFINE flushed == Take(r, InBuffer(r))
            rest == Rest(flushed.rd, flushed.v, count - InBuffer(r))
<1>1. Kept(Take(r, count).rd, r) /\ Kept(flushed.rd, r)  BY TakeKept
<1>2. DOMAIN flushed.rd = Fields  BY <1>1 DEF Kept
<1>3. \A o \in rest : Kept(o.rd, r)  BY <1>1, <1>2, RestKept, KeptAgain DEF KeptAll
<1>4. Kept(Out(r, Zeros(count)).rd, r)  BY Stays DEF Out
<1>5. Kept(Out(FlagError(r, "invalid"), Zeros(count)).rd, r)  BY FlagKept DEF Out
<1>6. ReadNative(r, count) = IF count <= InBuffer(r) THEN {Take(r, count)}
                             ELSE IF r.error # "ok" THEN {Out(r, Zeros(count))}
                             ELSE IF ~r.fill THEN {Out(FlagError(r, "invalid"), Zeros(count))}
                             ELSE rest
  BY DEF ReadNative
<1>. HIDE DEF flushed, rest
<1>. QED  BY <1>1, <1>3, <1>4, <1>5, <1>6 DEF KeptAll
-----------------------------------------------------------------------------
(* Skipping *)

LEMMA LastFillKept ==
    ASSUME NEW r, DOMAIN r = Fields, NEW count
    PROVE  KeptAll(LastFill(r, count), r)
<1>. DEFINE behind == [r EXCEPT !.data = 0]
<1>1. Kept(behind, r)  BY MovedKept
<1>2. ASSUME NEW o \in FillRange(behind, count, r.size)
      PROVE  /\ Kept(o.rd, r)
             /\ Kept([Write(o.rd, 0, o.v) EXCEPT !.data = count, !.end = Len(o.v)], r)
  <2>1. DOMAIN behind = Fields  BY <1>1 DEF Kept
  <2>2. Kept(o.rd, behind)  BY <2>1, FillRangeKept DEF KeptAll
  <2>3. DOMAIN o.rd = Fields  BY <2>2 DEF Kept
  <2>4. Kept([Write(o.rd, 0, o.v) EXCEPT !.data = count, !.end = Len(o.v)], o.rd)  BY <2>3, MovedKept
  <2>5. Kept(o.rd, r)  BY <1>1, <2>2, KeptAgain
  <2>. QED  BY <2>4, <2>5, KeptAgain
<1>. HIDE DEF behind
<1>3. ASSUME NEW o \in LastFill(r, count)  PROVE Kept(o.rd, r)
  <2>1. PICK p \in FillRange(behind, count, r.size) :
          o = Out(IF Good(p) THEN [Write(p.rd, 0, p.v) EXCEPT !.data = count, !.end = Len(p.v)] ELSE p.rd, Null)
    BY DEF LastFill, behind
  <2>2. \/ o.rd = [Write(p.rd, 0, p.v) EXCEPT !.data = count, !.end = Len(p.v)]
        \/ o.rd = p.rd
    BY <2>1 DEF Out
  <2>. QED  BY <1>2, <2>2
<1>. QED  BY <1>3 DEF KeptAll

LEMMA SkipUsingFillKept ==
    ASSUME NEW r, DOMAIN r = Fields, NEW count
    PROVE  KeptAll(SkipUsingFill(r, count), r)
<1>. DEFINE whole == ((count - 1) \div r.size) * r.size
            emptied == IF whole = 0 THEN {Out(r, << >>)} ELSE FillRange(r, whole, whole)
            last(o) == IF Good(o) THEN LastFill(o.rd, count - whole) ELSE {Out(o.rd, Null)}
<1>1. ASSUME NEW o \in emptied  PROVE Kept(o.rd, r)
  <2>1. Kept(Out(r, << >>).rd, r)  BY Stays DEF Out
  <2>2. KeptAll(FillRange(r, whole, whole), r)  BY FillRangeKept
  <2>. QED  BY <2>1, <2>2 DEF KeptAll
<1>2. ASSUME NEW o \in emptied, NEW p \in last(o)  PROVE Kept(p.rd, r)
  <2>1. Kept(o.rd, r)  BY <1>1
  <2>2. DOMAIN o.rd = Fields  BY <2>1 DEF Kept
  <2>3. KeptAll(LastFill(o.rd, count - whole), o.rd)  BY <2>2, LastFillKept
  <2>. HIDE DEF emptied, whole
  <2>. QED  BY <2>1, <2>3, KeptAgain DEF KeptAll, Out
<1>3. SkipUsingFill(r, count) = UNION {last(o) : o \in emptied}  BY DEF SkipUsingFill
<1>. HIDE DEF last, emptied
<1>. QED  BY <1>2, <1>3 DEF KeptAll

LEMMA SkipBytesKept ==
    ASSUME NEW r, DOMAIN r = Fields, NEW count
    PROVE  KeptAll(SkipBytes(r, count), r)
<1>. DEFINE rest == count - InBuffer(r)
            emptied == [r EXCEPT !.data = r.end]
<1>1. Kept(emptied, r) /\ Kept([r EXCEPT !.data = @ + count], r)  BY MovedKept
<1>2. DOMAIN emptied = Fields  BY <1>1 DEF Kept
<1>3. ASSUME NEW o \in Seek(emptied, rest)  PROVE Kept(o.rd, r)
  <2>1. Kept(FlagError(emptied, "io"), emptied)  BY <1>2, FlagKept
  <2>2. Kept(Draw(emptied, rest), emptied)  BY <1>2, DrawKept
  <2>3. o.rd = FlagError(emptied, "io") \/ o.rd = Draw(emptied, rest)
    <3>. HIDE DEF emptied, rest
    <3>. QED  BY DEF Seek, Out
  <2>. QED  BY <1>1, <2>1, <2>2, <2>3, KeptAgain
<1>4. ASSUME NEW o \in SkipUsingFill(emptied, rest)  PROVE Kept(o.rd, r)
  BY <1>1, <1>2, SkipUsingFillKept, KeptAgain DEF KeptAll
<1>5. Kept(Out(r, Null).rd, r) /\ Kept(Out([r EXCEPT !.data = @ + count], Null).rd, r)
  BY <1>1, Stays DEF Out
<1>6. Kept(Out(FlagError(r, "invalid"), Null).rd, r)  BY FlagKept DEF Out
<1>7. SkipBytes(r, count) =
        IF r.error # "ok" THEN {Out(r, Null)}
        ELSE IF rest <= 0 THEN {Out([r EXCEPT !.data = @ + count], Null)}
        ELSE IF ~r.fill THEN {Out(FlagError(r, "invalid"), Null)}
        ELSE IF r.skip /\ rest > r.size \div SkipFraction THEN Seek(emptied, rest)
        ELSE SkipUsingFill(emptied, rest)
  BY DEF SkipBytes
<1>. HIDE DEF rest, emptied
<1>. QED  BY <1>3, <1>4, <1>5, <1>6, <1>7 DEF KeptAll

-----------------------------------------------------------------------------
(* Bytes *)

LEMMA RefusedKept ==
    ASSUME NEW o, NEW r, Kept(o.rd, r), NEW v
    PROVE  Kept(Refused(o, v).rd, r)
<1>1. DOMAIN o.rd = Fields  BY DEF Kept
<1>2. Kept(FlagError(o.rd, "type"), o.rd)  BY <1>1, FlagKept
<1>3. Kept(FlagError(o.rd, "type"), r)  BY <1>2, KeptAgain
<1>. QED  BY <1>3 DEF Refused, Out

LEMMA ReadBytesKept ==
    ASSUME NEW r, DOMAIN r = Fields, NEW count
    PROVE  KeptAll(ReadBytes(r, count), r)
BY ReadNativeKept DEF KeptAll, ReadBytes, Out

LEMMA ReadUtf8Kept ==
    ASSUME NEW r, DOMAIN r = Fields, NEW count
    PROVE  KeptAll(ReadUtf8(r, count), r)
<1>1. \A o \in ReadBytes(r, count) : Kept(o.rd, r) /\ Kept(Refused(o, o.v).rd, r)
  BY ReadBytesKept, RefusedKept DEF KeptAll
<1>. QED  BY <1>1 DEF KeptAll, ReadUtf8

LEMMA ReadCstrKept ==
    ASSUME NEW r, DOMAIN r = Fields, NEW size, NEW count, NEW utf8
    PROVE  KeptAll(ReadCstr(r, size, count, utf8), r)
<1>. DEFINE read(o) == IF Good(o) /\ ~Valid(o.v, utf8, TRUE) THEN Refused(o, EmptyString(size))
                       ELSE Out(o.rd, [bytes |-> Padded(o.v \o <<NUL>>, size)])
<1>1. ASSUME NEW o \in ReadNative(r, count)  PROVE Kept(read(o).rd, r)
  <2>1. Kept(o.rd, r)  BY ReadNativeKept DEF KeptAll
  <2>2. Kept(Refused(o, EmptyString(size)).rd, r)  BY <2>1, RefusedKept
  <2>3. Kept(Out(o.rd, [bytes |-> Padded(o.v \o <<NUL>>, size)]).rd, r)  BY <2>1 DEF Out
  <2>. QED  BY <2>2, <2>3
<1>2. Kept(Out(r, EmptyString(size)).rd, r)  BY Stays DEF Out
<1>3. Kept(Out(FlagError(r, "too_big"), EmptyString(size)).rd, r)  BY FlagKept DEF Out
<1>4. ReadCstr(r, size, count, utf8) =
        IF r.error # "ok" THEN {Out(r, EmptyString(size))}
        ELSE IF count > size - 1 THEN {Out(FlagError(r, "too_big"), EmptyString(size))}
        ELSE {read(o) : o \in ReadNative(r, count)}
  BY DEF ReadCstr
<1>. HIDE DEF read
<1>. QED  BY <1>1, <1>2, <1>3, <1>4 DEF KeptAll

LEMMA BytesInplaceKept ==
    ASSUME NEW r, DOMAIN r = Fields, NEW count
    PROVE  KeptAll(BytesInplace(r, count), r)
<1>1. ASSUME NEW o \in Ensure(r, count)
      PROVE  Kept(o.rd, r) /\ Kept(Take(o.rd, count).rd, r)
  <2>1. Kept(o.rd, r)  BY EnsureKept DEF KeptAll
  <2>2. DOMAIN o.rd = Fields  BY <2>1 DEF Kept
  <2>3. Kept(Take(o.rd, count).rd, o.rd)  BY <2>2, TakeKept
  <2>. QED  BY <2>1, <2>3, KeptAgain
<1>2. Kept(r, r)  BY Stays
<1>3. ASSUME NEW o \in BytesInplace(r, count)  PROVE Kept(o.rd, r)
  BY <1>1, <1>2 DEF BytesInplace, Out
<1>. QED  BY <1>3 DEF KeptAll

LEMMA Utf8InplaceKept ==
    ASSUME NEW r, DOMAIN r = Fields, NEW count
    PROVE  KeptAll(Utf8Inplace(r, count), r)
<1>1. \A o \in BytesInplace(r, count) : Kept(o.rd, r) /\ Kept(Refused(o, Null).rd, r)
  BY BytesInplaceKept, RefusedKept DEF KeptAll
<1>. QED  BY <1>1 DEF KeptAll, Utf8Inplace

(* While the block is held the handler is put away; it is told of an error  *)
(* when the block is released                                              *)
LEMMA BytesAllocFair ==
    ASSUME NEW r, Fair(r), NEW count, NEW terminated
    PROVE  FairAll(BytesAlloc(r, count, terminated))
<1>. DEFINE quiet == [r EXCEPT !.held = TRUE, !.fn = FALSE]
            loud(o) == [o.rd EXCEPT !.fn = r.fn]
<1>1. /\ DOMAIN quiet = Fields /\ quiet.fn = FALSE /\ quiet.held = TRUE
      /\ quiet.error = r.error /\ quiet.told = r.told
  BY DEF Fair, Fields
<1>2. ASSUME r.error = "ok", NEW o \in ReadNative(quiet, count)
      PROVE  /\ Good(Out(loud(o), o.v)) => Fair(Released(loud(o)))
             /\ ~Good(Out(loud(o), o.v)) => Fair(Told(Released(loud(o))))
  <2>1. Kept(o.rd, quiet)  BY <1>1, ReadNativeKept DEF KeptAll
  <2>2. /\ DOMAIN o.rd = Fields /\ o.rd.fn = FALSE /\ o.rd.held = TRUE /\ o.rd.told = << >>
    BY <1>1, <1>2, <2>1 DEF Kept, Fair
  <2>. DEFINE free == Released(loud(o))
  <2>3. /\ DOMAIN free = Fields /\ free.fn = TRUE /\ free.held = FALSE /\ free.told = << >>
        /\ free.error = o.rd.error
    BY <2>2 DEF Released, Fields, Fair
  <2>4. Good(Out(loud(o), o.v)) <=> o.rd.error = "ok"  BY <2>2 DEF Good, Out, Fields
  <2>5. o.rd.error = "ok" => Fair(free)  BY <2>3 DEF Fair
  <2>6. o.rd.error # "ok" => Fair(Told(free))
    <3>. HIDE DEF free
    <3>1. Append(<< >>, [error |-> free.error, held |-> FALSE]) = <<[error |-> free.error, held |-> FALSE]>>
      OBVIOUS
    <3>. QED  BY <2>3, <3>1 DEF Told, Fair, Fields
  <2>. QED  BY <2>4, <2>5, <2>6
<1>3. Fair(FlagError(r, "memory"))  BY FlagKept, FairKept DEF Fair
<1>4. ASSUME NEW o \in BytesAlloc(r, count, terminated)  PROVE Fair(o.rd)
  <2>. DEFINE ends == r.error # "ok" \/ (count = 0 /\ ~terminated)
              whole(p) == [bytes |-> p.v \o (IF terminated THEN <<NUL>> ELSE << >>)]
              read(p) == IF Good(p) THEN Out(Released(p.rd), whole(p)) ELSE Out(Told(Released(p.rd)), Null)
  <2>0. BytesAlloc(r, count, terminated) =
          IF ends THEN {Out(r, Null)}
          ELSE {Out(FlagError(r, "memory"), Null)} \cup {read(p) : p \in ReadQuietly(r, count)}
    BY DEF BytesAlloc
  <2>1. CASE ends
    <3>1. o = Out(r, Null)  BY <2>0, <2>1
    <3>. QED  BY <3>1 DEF Out
  <2>2. CASE ~ends
    <3>1. CASE o = Out(FlagError(r, "memory"), Null)  BY <1>3, <3>1 DEF Out
    <3>2. ASSUME NEW p \in ReadQuietly(r, count), o = read(p)  PROVE Fair(o.rd)
      <4>1. PICK q \in ReadNative(quiet, count) : p = Out(loud(q), q.v)  BY DEF ReadQuietly
      <4>2. p.rd = loud(q)  BY <4>1 DEF Out
      <4>3. o.rd = IF Good(p) THEN Released(p.rd) ELSE Told(Released(p.rd))  BY <3>2 DEF Out
      <4>. HIDE DEF quiet, loud
      <4>. QED  BY <1>2, <2>2, <4>1, <4>2, <4>3
    <3>. HIDE DEF read
    <3>. QED  BY <2>0, <2>2, <3>1, <3>2
  <2>. QED  BY <2>1, <2>2
<1>. QED  BY <1>4 DEF FairAll

-----------------------------------------------------------------------------
(* Tags *)

LEMMA PeekTagKept ==
    ASSUME NEW r, DOMAIN r = Fields
    PROVE  KeptAll(PeekTag(r), r)
<1>1. ASSUME NEW o \in Ensure(r, 1), NEW p \in Parse(o)  PROVE Kept(p.rd, r)
  <2>1. Kept(o.rd, r)  BY EnsureKept DEF KeptAll
  <2>2. DOMAIN o.rd = Fields  BY <2>1 DEF Kept
  <2>3. Kept(FlagError(o.rd, "invalid"), r)  BY <2>1, <2>2, FlagKept, KeptAgain
  <2>4. \A n : \A w \in Ensure(o.rd, n) : Kept(w.rd, r)
    BY <2>1, <2>2, EnsureKept, KeptAgain DEF KeptAll
  <2>5. \/ p.rd = o.rd \/ p.rd = FlagError(o.rd, "invalid")
        \/ \E w \in Ensure(o.rd, TagSize(o.rd.buffer[o.rd.data + 1].t)) : p.rd = w.rd
    BY DEF Parse, Out
  <2>. QED  BY <2>1, <2>3, <2>4, <2>5
<1>2. Kept(Out(r, NilTag).rd, r)  BY Stays DEF Out
<1>3. PeekTag(r) = IF r.error # "ok" THEN {Out(r, NilTag)} ELSE UNION {Parse(o) : o \in Ensure(r, 1)}
  BY DEF PeekTag
<1>. QED  BY <1>1, <1>2, <1>3 DEF KeptAll

LEMMA ReadTagKept ==
    ASSUME NEW r, DOMAIN r = Fields
    PROVE  KeptAll(ReadTag(r), r)
<1>1. ASSUME NEW o \in PeekTag(r)
      PROVE  Kept(o.rd, r) /\ Kept([o.rd EXCEPT !.data = @ + TagSize(o.v.tag)], r)
  <2>1. Kept(o.rd, r)  BY PeekTagKept DEF KeptAll
  <2>2. DOMAIN o.rd = Fields  BY <2>1 DEF Kept
  <2>3. Kept([o.rd EXCEPT !.data = @ + TagSize(o.v.tag)], o.rd)  BY <2>2, MovedKept
  <2>. QED  BY <2>1, <2>3, KeptAgain
<1>2. ASSUME NEW o \in ReadTag(r)  PROVE Kept(o.rd, r)
  <2>1. PICK p \in PeekTag(r) : o = IF Good(p) THEN Out([p.rd EXCEPT !.data = @ + TagSize(p.v.tag)], p.v) ELSE p
    BY DEF ReadTag
  <2>2. o.rd = p.rd \/ o.rd = [p.rd EXCEPT !.data = @ + TagSize(p.v.tag)]  BY <2>1 DEF Out
  <2>. QED  BY <1>1, <2>2
<1>. QED  BY <1>2 DEF KeptAll

LEMMA DiscardOneKept ==
    ASSUME NEW r, DOMAIN r = Fields
    PROVE  KeptAll(DiscardOne(r), r)
<1>1. ASSUME NEW tag \in ReadTag(r), NEW o \in SkipBytes(tag.rd, Contents(tag.v))
      PROVE  Kept(o.rd, r)
  <2>1. Kept(tag.rd, r)  BY ReadTagKept DEF KeptAll
  <2>2. DOMAIN tag.rd = Fields  BY <2>1 DEF Kept
  <2>. QED  BY <2>1, <2>2, SkipBytesKept, KeptAgain DEF KeptAll
<1>. QED  BY <1>1 DEF KeptAll, DiscardOne, Out

LEMMA ReadTimestampKept ==
    ASSUME NEW r, DOMAIN r = Fields, NEW size
    PROVE  KeptAll(ReadTimestamp(r, size), r)
<1>1. ASSUME NEW o \in ReadNative(r, size)  PROVE Kept(Stamp(o).rd, r)
  <2>1. Kept(o.rd, r)  BY ReadNativeKept DEF KeptAll
  <2>2. DOMAIN o.rd = Fields  BY <2>1 DEF Kept
  <2>3. Kept(FlagError(o.rd, "invalid"), r)  BY <2>1, <2>2, FlagKept, KeptAgain
  <2>4. Stamp(o).rd = o.rd \/ Stamp(o).rd = FlagError(o.rd, "invalid")  BY DEF Stamp, Out
  <2>. QED  BY <2>1, <2>3, <2>4
<1>2. Kept(FlagError(r, "invalid"), r)  BY FlagKept
<1>. QED  BY <1>1, <1>2 DEF KeptAll, ReadTimestamp, Out

-----------------------------------------------------------------------------
(* The program *)

LEMMA DoFair ==
    ASSUME Fair(rd), NEW f, NEW num, NEW outcomes, NEW bytes, NEW after,
           Do(f, num, outcomes, bytes, after), KeptAll(outcomes, rd) \/ FairAll(outcomes)
    PROVE  Fair(rd')
BY FairKept DEF Do, KeptAll, FairAll

(* The inductive invariant *)
IInv == Fair(rd)

LEMMA NextFair == IInv /\ [Next]_vars => IInv'
<1>. SUFFICES ASSUME Fair(rd), [Next]_vars  PROVE Fair(rd')  BY DEF IInv, Fair
<1>. USE DEF KeptAll
<1>0. DOMAIN rd = Fields  BY DEF Fair
<1>1. CASE UNCHANGED vars  BY <1>1 DEF vars
<1>2. CASE Read
  <2>1. KeptAll(Tags(ReadTag(rd)), rd)  BY <1>0, ReadTagKept DEF Tags, Out
  <2>. QED  BY <1>2, <2>1, DoFair DEF Read
<1>3. CASE Peek
  <2>1. KeptAll(Tags(PeekTag(rd)), rd)  BY <1>0, PeekTagKept DEF Tags, Out
  <2>. QED  BY <1>3, <2>1, DoFair DEF Peek
<1>4. CASE ReadPart
  BY <1>0, <1>4, ReadBytesKept, BytesInplaceKept, SkipBytesKept, BytesAllocFair, DoFair DEF ReadPart
<1>5. CASE ReadText
  BY <1>0, <1>5, ReadUtf8Kept, Utf8InplaceKept, ReadCstrKept, ReadTimestampKept, DoFair DEF ReadText
<1>6. CASE Discard
  BY <1>0, <1>6, DiscardOneKept, FairKept DEF Discard
<1>7. CASE Remaining
  BY <1>0, <1>7, Stays, FairKept DEF Remaining, Do, Out
<1>8. CASE Reject
  <2>1. Kept(FlagError(rd, "data"), rd)  BY <1>0, FlagKept
  <2>. QED  BY <1>8, <2>1, FairKept DEF Reject, Do, Out
<1>. QED  BY <1>1, <1>2, <1>3, <1>4, <1>5, <1>6, <1>7, <1>8 DEF Next

LEMMA InitFair == Init => IInv
<1>. SUFFICES ASSUME NEW setup, rd = New(setup)  PROVE Fair(rd)  BY DEF Init, IInv
<1>. DEFINE memory == setup.size = 0
            held == IF memory \/ setup.count > Len(stream) THEN Len(stream) ELSE setup.count
            plain == [buffer |-> IF memory THEN stream ELSE Padded(SubSeq(stream, 1, held), setup.size),
                      data |-> 0, end |-> held, drawn |-> held, size |-> setup.size,
                      fill |-> FALSE, skip |-> setup.skip,
                      fn |-> TRUE, error |-> "ok", told |-> << >>, held |-> FALSE]
<1>1. Fair(plain)  BY DEF Fair, Fields
<1>2. DOMAIN plain = Fields  BY <1>1 DEF Fair
<1>3. Fair([plain EXCEPT !.fill = TRUE])  BY <1>1 DEF Fair, Fields
<1>4. New(setup) = IF ~setup.fill THEN plain
                   ELSE IF setup.size < MinSize THEN FlagError(plain, "bug")
                   ELSE [plain EXCEPT !.fill = TRUE]
  BY DEF New
<1>. HIDE DEF plain
<1>5. Fair(FlagError(plain, "bug"))  BY <1>1, <1>2, FlagKept, FairKept
<1>. QED  BY <1>1, <1>3, <1>4, <1>5

(* The error handler of the program, which may jump out of the call, is    *)
(* called once, with the error that stays, and never while the reader      *)
(* holds a block that a jump would lose (reader.c:211-220, :497-537).      *)
THEOREM ToldOnce == ReaderSpec => []ErrorToldOnce
<1>1. IInv => ErrorToldOnce  BY DEF IInv, Fair, ErrorToldOnce
<1>. QED  BY <1>1, InitFair, NextFair, PTL DEF ReaderSpec

-----------------------------------------------------------------------------
(* Parts of sequences *)

LEMMA Part ==
    ASSUME NEW S, NEW s \in Seq(S), NEW a \in Nat, NEW n \in Nat, a + n <= Len(s)
    PROVE  /\ SubSeq(s, a + 1, a + n) \in Seq(S) /\ Len(SubSeq(s, a + 1, a + n)) = n
           /\ \A i \in 1 .. n : SubSeq(s, a + 1, a + n)[i] = s[a + i]
OBVIOUS

LEMMA Prefix ==
    ASSUME NEW S, NEW s \in Seq(S), NEW n \in Nat, n <= Len(s)
    PROVE  /\ SubSeq(s, 1, n) \in Seq(S) /\ Len(SubSeq(s, 1, n)) = n
           /\ \A i \in 1 .. n : SubSeq(s, 1, n)[i] = s[i]
OBVIOUS

LEMMA SameSeq ==
    ASSUME NEW S, NEW s \in Seq(S), NEW t \in Seq(S), Len(s) = Len(t),
           \A i \in 1 .. Len(s) : s[i] = t[i]
    PROVE  s = t
OBVIOUS

-----------------------------------------------------------------------------
(* The buffer *)

Cell == [t : DOMAIN Width \cup {"byte", "stale"}, n : Int]
StreamCell == [t : DOMAIN Width \cup {"byte"}, n : -Base .. Base - 1]

(* The n cells of s behind a are those of t behind b *)
Agree(s, t, a, b, n) ==
    /\ s \in Seq(Cell) /\ t \in Seq(Cell) /\ a \in Nat /\ b \in Nat /\ n \in Nat
    /\ a + n <= Len(s) /\ b + n <= Len(t) /\ \A i \in 1 .. n : s[a + i] = t[b + i]

SameBytes(s, t, a, b, n) == SubSeq(s, a + 1, a + n) = SubSeq(t, b + 1, b + n)

LEMMA SamePart ==
    ASSUME NEW s, NEW t, NEW a, NEW b, NEW n, Agree(s, t, a, b, n)
    PROVE  SameBytes(s, t, a, b, n)
<1>1. s \in Seq(Cell) /\ a \in Nat /\ n \in Nat /\ a + n <= Len(s)  BY DEF Agree
<1>2. t \in Seq(Cell) /\ b \in Nat /\ n \in Nat /\ b + n <= Len(t)  BY DEF Agree
<1>3. /\ SubSeq(s, a + 1, a + n) \in Seq(Cell) /\ Len(SubSeq(s, a + 1, a + n)) = n
      /\ \A i \in 1 .. n : SubSeq(s, a + 1, a + n)[i] = s[a + i]
  BY <1>1
<1>4. /\ SubSeq(t, b + 1, b + n) \in Seq(Cell) /\ Len(SubSeq(t, b + 1, b + n)) = n
      /\ \A i \in 1 .. n : SubSeq(t, b + 1, b + n)[i] = t[b + i]
  BY <1>2
<1>5. \A i \in 1 .. n : s[a + i] = t[b + i]  BY DEF Agree
<1>. DEFINE u == SubSeq(s, a + 1, a + n)
            v == SubSeq(t, b + 1, b + n)
<1>6. u \in Seq(Cell) /\ v \in Seq(Cell) /\ Len(u) = n /\ Len(v) = n /\ \A i \in 1 .. n : u[i] = v[i]
  BY <1>3, <1>4, <1>5
<1>. HIDE DEF u, v
<1>7. u = v  BY <1>6, SameSeq
<1>. QED  BY <1>7 DEF u, v, SameBytes

(* Reader r stands behind p bytes of the stream, and holds the next ones *)
Stands(r, p) ==
    /\ DOMAIN r = Fields
    /\ r.buffer \in Seq(Cell) /\ stream \in Seq(Cell)
    /\ r.data \in Nat /\ r.end \in Nat /\ r.drawn \in Nat /\ p \in Nat
    /\ r.data <= r.end /\ r.end <= Len(r.buffer) /\ r.drawn <= Len(stream)
    /\ p + (r.end - r.data) = r.drawn
    /\ \A i \in 1 .. (r.end - r.data) : r.buffer[r.data + i] = stream[p + i]
    /\ r.fill => r.size = Len(r.buffer) /\ r.size >= 1

(* What is written to a buffer that has room for it *)
LEMMA WrittenBytes ==
    ASSUME NEW b \in Seq(Cell), NEW bytes \in Seq(Cell), NEW at \in Nat, at + Len(bytes) <= Len(b)
    PROVE  /\ Written(b, at, bytes) \in Seq(Cell) /\ Len(Written(b, at, bytes)) = Len(b)
           /\ \A i \in 1 .. Len(bytes) : Written(b, at, bytes)[at + i] = bytes[i]
           /\ \A i \in 1 .. at : Written(b, at, bytes)[i] = b[i]
<1>. DEFINE w == Written(b, at, bytes)
<1>1. w = [i \in 1 .. Len(b) |-> IF i \in at + 1 .. at + Len(bytes) THEN bytes[i - at] ELSE b[i]]
  BY DEF Written
<1>2. \A i \in 1 .. Len(b) : (IF i \in at + 1 .. at + Len(bytes) THEN bytes[i - at] ELSE b[i]) \in Cell
  OBVIOUS
<1>3. w \in Seq(Cell) /\ Len(w) = Len(b)  BY <1>1, <1>2
<1>4. \A i \in 1 .. Len(bytes) : w[at + i] = bytes[i]  BY <1>1
<1>5. \A i \in 1 .. at : w[i] = b[i]  BY <1>1
<1>. QED  BY <1>3, <1>4, <1>5

(* What the source delivers is the next part of the stream *)
Ready(r) == /\ DOMAIN r = Fields /\ stream \in Seq(Cell)
            /\ r.drawn \in Nat /\ r.drawn <= Len(stream)
Brought(r, o, n) ==
    /\ r.drawn + n <= Len(stream) /\ o.rd = [r EXCEPT !.drawn = r.drawn + n]
    /\ o.v \in Seq(Cell) /\ Len(o.v) = n
    /\ \A i \in 1 .. n : o.v[i] = stream[r.drawn + i]

(* Nothing else of the reader changes *)
LEMMA BroughtFields ==
    ASSUME NEW r, DOMAIN r = Fields, NEW o, NEW n, Brought(r, o, n)
    PROVE  /\ DOMAIN o.rd = Fields /\ o.rd.drawn = r.drawn + n /\ o.rd.buffer = r.buffer
           /\ o.rd.data = r.data /\ o.rd.end = r.end /\ o.rd.size = r.size /\ o.rd.fill = r.fill
BY DEF Brought, Fields

LEMMA Delivered ==
    ASSUME NEW r, Ready(r), NEW min \in Nat, NEW max \in Nat, NEW o \in FillRange(r, min, max), Good(o)
    PROVE  \E n \in Nat : min <= n /\ n <= max /\ Brought(r, o, n)
<1>. USE DEF Ready
<1>1. ASSUME NEW n, NEW e \in FillErrors  PROVE ~Good(Out(FlagError(Draw(r, n), e), Drawn(r, n)))
  <2>1. DOMAIN Draw(r, n) = Fields  BY DrawKept DEF Kept
  <2>. HIDE DEF Ready
  <2>. QED  BY <2>1 DEF Good, Out, FlagError, FillErrors, Fields
<1>2. PICK n \in min .. Most(r, max) : o = Out(Draw(r, n), Drawn(r, n))
  <2>1. ~(\E n \in 0 .. Most(r, min - 1), e \in FillErrors : o = Out(FlagError(Draw(r, n), e), Drawn(r, n)))
    <3>. SUFFICES ASSUME NEW n, NEW e \in FillErrors, o = Out(FlagError(Draw(r, n), e), Drawn(r, n))
                  PROVE  FALSE
      OBVIOUS
    <3>1. ~Good(Out(FlagError(Draw(r, n), e), Drawn(r, n)))  BY <1>1
    <3>. QED  BY <3>1
  <2>2. \/ \E n \in min .. Most(r, max) : o = Out(Draw(r, n), Drawn(r, n))
        \/ \E n \in 0 .. Most(r, min - 1), e \in FillErrors : o = Out(FlagError(Draw(r, n), e), Drawn(r, n))
    BY DEF FillRange
  <2>. QED  BY <2>1, <2>2
<1>3. n \in Nat /\ min <= n /\ n <= max /\ r.drawn + n <= Len(stream)
  BY <1>2 DEF Most
<1>4. o.rd = [r EXCEPT !.drawn = r.drawn + n] /\ o.v = SubSeq(stream, r.drawn + 1, r.drawn + n)
  BY <1>2 DEF Out, Draw, Drawn
<1>5. o.v \in Seq(Cell) /\ Len(o.v) = n /\ \A i \in 1 .. n : o.v[i] = stream[r.drawn + i]
  <2>. DEFINE a == r.drawn
  <2>1. a \in Nat /\ a + n <= Len(stream) /\ o.v = SubSeq(stream, a + 1, a + n)  BY <1>3, <1>4
  <2>. HIDE DEF a
  <2>2. /\ SubSeq(stream, a + 1, a + n) \in Seq(Cell) /\ Len(SubSeq(stream, a + 1, a + n)) = n
        /\ \A i \in 1 .. n : SubSeq(stream, a + 1, a + n)[i] = stream[a + i]
    BY <1>3, <2>1, Part, Zenon
  <2>3. /\ o.v \in Seq(Cell) /\ Len(o.v) = n /\ \A i \in 1 .. n : o.v[i] = stream[a + i]
    BY <2>1, <2>2
  <2>. QED  BY <2>3 DEF a
<1>6. Brought(r, o, n)  BY <1>3, <1>4, <1>5 DEF Brought
<1>. QED  BY <1>3, <1>6

LEMMA CompactedStands ==
    ASSUME NEW r, NEW p, Stands(r, p)
    PROVE  /\ Stands(Compacted(r), p) /\ Compacted(r).data = 0 /\ Compacted(r).end = r.end - r.data
           /\ Compacted(r).drawn = r.drawn /\ Compacted(r).size = r.size /\ Compacted(r).fill = r.fill
           /\ Len(Compacted(r).buffer) = Len(r.buffer)
<1>. DEFINE n == r.end - r.data
            moved == SubSeq(r.buffer, r.data + 1, r.data + n)
            w == Written(r.buffer, 0, moved)
            c == Compacted(r)
<1>1. n \in Nat /\ n <= Len(r.buffer) /\ r.data + n = r.end /\ r.data + n <= Len(r.buffer)
  BY DEF Stands
<1>2. moved \in Seq(Cell) /\ Len(moved) = n /\ \A i \in 1 .. n : moved[i] = r.buffer[r.data + i]
  <2>. DEFINE a == r.data
              b == r.buffer
  <2>1. a \in Nat /\ b \in Seq(Cell) /\ a + n <= Len(b) /\ n \in Nat /\ moved = SubSeq(b, a + 1, a + n)
    BY <1>1 DEF Stands
  <2>. HIDE DEF n, a, b, moved
  <2>2. /\ SubSeq(b, a + 1, a + n) \in Seq(Cell) /\ Len(SubSeq(b, a + 1, a + n)) = n
        /\ \A i \in 1 .. n : SubSeq(b, a + 1, a + n)[i] = b[a + i]
    BY <2>1, Part, Zenon
  <2>3. moved \in Seq(Cell) /\ Len(moved) = n /\ \A i \in 1 .. n : moved[i] = b[a + i]
    BY <2>1, <2>2
  <2>. QED  BY <2>3 DEF a, b
<1>3. /\ w \in Seq(Cell) /\ Len(w) = Len(r.buffer)
      /\ \A i \in 1 .. n : w[i] = moved[i]
  <2>. HIDE DEF moved, n
  <2>1. 0 + Len(moved) <= Len(r.buffer)  BY <1>1, <1>2
  <2>2. \A i \in 1 .. n : 0 + i = i  BY <1>1
  <2>. QED  BY <1>2, <2>1, <2>2, WrittenBytes DEF Stands
<1>4. /\ DOMAIN c = Fields /\ c.buffer = w /\ c.end = n /\ c.data = 0
      /\ c.drawn = r.drawn /\ c.size = r.size /\ c.fill = r.fill
  BY <1>1 DEF Compacted, Write, InBuffer, Stands, Fields
<1>. HIDE DEF n, moved, w, c
<1>5. \A i \in 1 .. (c.end - c.data) : c.buffer[c.data + i] = stream[p + i]
  <2>1. \A i \in 1 .. n : r.buffer[r.data + i] = stream[p + i]  BY DEF Stands, n
  <2>2. \A i \in 1 .. n : w[i] = stream[p + i]  BY <1>2, <1>3, <2>1
  <2>3. c.end - c.data = n /\ \A i \in 1 .. n : c.data + i = i  BY <1>1, <1>4
  <2>. QED  BY <1>4, <2>2, <2>3
<1>6. p + (c.end - c.data) = c.drawn  BY <1>1, <1>4 DEF Stands, n
<1>7. /\ r.drawn \in Nat /\ p \in Nat /\ r.drawn <= Len(stream) /\ stream \in Seq(Cell)
      /\ r.fill => r.size = Len(r.buffer) /\ r.size >= 1
  BY DEF Stands
<1>. QED  BY <1>1, <1>3, <1>4, <1>5, <1>6, <1>7 DEF Stands, c, n

(* A buffer to which the next bytes have been written, of which some are taken *)
Refills(s, b, bytes, k, n, q, d) ==
    /\ b \in Seq(Cell) /\ bytes \in Seq(Cell) /\ k \in Nat /\ n \in Nat /\ q \in Nat /\ d \in Nat
    /\ Len(bytes) = n /\ k + n <= Len(b) /\ d <= k + n
    /\ stream \in Seq(Cell) /\ q + k + n <= Len(stream)
    /\ \A i \in 1 .. k : b[i] = stream[q + i]
    /\ \A i \in 1 .. n : bytes[i] = stream[q + k + i]
    /\ DOMAIN s = Fields /\ s.buffer = Written(b, k, bytes) /\ s.data = d /\ s.end = k + n
    /\ s.drawn = q + k + n
    /\ s.fill => s.size = Len(b) /\ s.size >= 1

LEMMA Refilled ==
    ASSUME NEW s, NEW b, NEW bytes, NEW k, NEW n, NEW q, NEW d, Refills(s, b, bytes, k, n, q, d)
    PROVE  Stands(s, q + d)
<1>. USE DEF Refills
<1>. DEFINE w == Written(b, k, bytes)
<1>1. /\ w \in Seq(Cell) /\ Len(w) = Len(b)
      /\ \A i \in 1 .. n : w[k + i] = bytes[i]
      /\ \A i \in 1 .. k : w[i] = b[i]
  <2>1. k + Len(bytes) <= Len(b)  OBVIOUS
  <2>2. /\ w \in Seq(Cell) /\ Len(w) = Len(b)
        /\ \A i \in 1 .. Len(bytes) : w[k + i] = bytes[i]
        /\ \A i \in 1 .. k : w[i] = b[i]
    BY <2>1, WrittenBytes
  <2>. QED  BY <2>2
<1>. HIDE DEF w
<1>2. \A i \in 1 .. (k + n) : w[i] = stream[q + i]
  <2>. SUFFICES ASSUME NEW i \in 1 .. (k + n)  PROVE w[i] = stream[q + i]  OBVIOUS
  <2>1. CASE i <= k
    <3>1. i \in 1 .. k  BY <2>1
    <3>. QED  BY <1>1, <3>1
  <2>2. CASE ~(i <= k)
    <3>1. i - k \in 1 .. n /\ k + (i - k) = i /\ q + k + (i - k) = q + i  BY <2>2
    <3>2. w[k + (i - k)] = bytes[i - k] /\ bytes[i - k] = stream[q + k + (i - k)]  BY <1>1, <3>1
    <3>. QED  BY <3>1, <3>2
  <2>. QED  BY <2>1, <2>2
<1>3. \A i \in 1 .. ((k + n) - d) : w[d + i] = stream[(q + d) + i]
  <2>. SUFFICES ASSUME NEW i \in 1 .. ((k + n) - d)  PROVE w[d + i] = stream[(q + d) + i]  OBVIOUS
  <2>1. d + i \in 1 .. (k + n) /\ q + (d + i) = (q + d) + i  OBVIOUS
  <2>2. w[d + i] = stream[q + (d + i)]  BY <1>2, <2>1
  <2>. QED  BY <2>1, <2>2
<1>4. (q + d) + ((k + n) - d) = q + k + n /\ q + d \in Nat /\ k + n \in Nat /\ q + k + n \in Nat
  OBVIOUS
<1>. QED  BY <1>1, <1>3, <1>4 DEF Stands, w

LEMMA EnsureStands ==
    ASSUME NEW r, NEW p, Stands(r, p), r.error = "ok", NEW count \in Nat,
           NEW o \in Ensure(r, count), Good(o)
    PROVE  Stands(o.rd, p) /\ InBuffer(o.rd) >= count /\ o.v = TRUE /\ o.rd.error = "ok"
<1>. DEFINE c == Compacted(r)
            k == InBuffer(r)
            full(q) == Write(q.rd, k, q.v)
            range == FillRange(c, count - k, r.size - k)
            filled(q) == Out(IF Good(q) THEN [full(q) EXCEPT !.end = @ + Len(q.v)] ELSE full(q), Good(q))
<1>0. DOMAIN r = Fields  BY DEF Stands
<1>1. ASSUME NEW e, NEW v, e # "ok"  PROVE ~Good(Out(FlagError(r, e), v))
  BY <1>0, <1>1 DEF Good, Out, FlagError, Fields
<1>2. Ensure(r, count) =
        IF count <= k THEN {Out(r, TRUE)}
        ELSE IF ~r.fill THEN {Out(FlagError(r, "invalid"), FALSE)}
        ELSE IF count > r.size THEN {Out(FlagError(r, "too_big"), FALSE)}
        ELSE {filled(q) : q \in range}
  BY DEF Ensure
<1>. HIDE DEF filled, range
<1>3. CASE count <= k
  <2>1. o = Out(r, TRUE)  BY <1>2, <1>3
  <2>2. k \in Nat  BY DEF InBuffer, Stands
  <2>3. o.rd = r /\ o.v = TRUE  BY <2>1 DEF Out
  <2>. QED  BY <1>3, <2>2, <2>3
<1>4. CASE ~(count <= k)
  <2>1. CASE ~r.fill
    <3>1. o = Out(FlagError(r, "invalid"), FALSE)  BY <1>2, <1>4, <2>1
    <3>. QED  BY <1>1, <3>1
  <2>2. CASE r.fill /\ count > r.size
    <3>1. o = Out(FlagError(r, "too_big"), FALSE)  BY <1>2, <1>4, <2>2
    <3>. QED  BY <1>1, <3>1
  <2>3. CASE r.fill /\ ~(count > r.size)
    <3>1. PICK q \in range : o = filled(q)  BY <1>2, <1>4, <2>3
    <3>2. Good(q) /\ o.rd = [full(q) EXCEPT !.end = @ + Len(q.v)] /\ o.v = TRUE
      <4>1. o.v = Good(q) /\ o.rd = (IF Good(q) THEN [full(q) EXCEPT !.end = @ + Len(q.v)] ELSE full(q))
        BY <3>1 DEF Out, filled
      <4>2. CASE ~Good(q)
        <5>1. o.rd = full(q)  BY <4>1, <4>2
        <5>2. DOMAIN q.rd = Fields
          <6>1. DOMAIN c = Fields  BY CompactedStands DEF Stands
          <6>. HIDE DEF c
          <6>. QED  BY <6>1, FillRangeKept DEF KeptAll, Kept, range
        <5>3. o.rd.error = q.rd.error  BY <5>1, <5>2 DEF Write, Fields
        <5>. QED  BY <4>2, <5>3 DEF Good
      <4>3. CASE Good(q)
        <5>. HIDE DEF full
        <5>. QED  BY <4>1, <4>3
      <4>. QED  BY <4>2, <4>3
    <3>3. /\ Stands(c, p) /\ c.data = 0 /\ c.end = k /\ c.drawn = r.drawn /\ c.size = r.size
          /\ c.fill = r.fill /\ Len(c.buffer) = Len(r.buffer)
      BY CompactedStands DEF InBuffer
    <3>4. /\ k \in Nat /\ r.size = Len(r.buffer) /\ k <= Len(r.buffer) /\ r.size \in Nat /\ r.size >= 1
          /\ r.drawn \in Nat /\ p + k = r.drawn /\ p \in Nat /\ stream \in Seq(Cell)
      BY <2>3 DEF Stands, InBuffer
    <3>. HIDE DEF c, k
    <3>5. count - k \in Nat /\ r.size - k \in Nat
      <4>. DEFINE z == r.size
      <4>1. z \in Nat /\ count <= z /\ k \in Nat /\ ~(count <= k)  BY <1>4, <2>3, <3>4
      <4>. HIDE DEF z
      <4>2. count - k \in Nat /\ z - k \in Nat  BY <4>1
      <4>. QED  BY <4>2 DEF z
    <3>6. /\ DOMAIN c = Fields /\ c.buffer \in Seq(Cell) /\ c.drawn \in Nat /\ c.drawn <= Len(stream)
          /\ \A i \in 1 .. k : c.buffer[i] = stream[p + i]
      <4>1. \A i \in 1 .. (k - 0) : c.buffer[0 + i] = stream[p + i]  BY <3>3 DEF Stands
      <4>2. \A i \in 1 .. k : i \in 1 .. (k - 0) /\ 0 + i = i  BY <3>4
      <4>3. \A i \in 1 .. k : c.buffer[i] = stream[p + i]
        <5>. SUFFICES ASSUME NEW i \in 1 .. k  PROVE c.buffer[i] = stream[p + i]  OBVIOUS
        <5>1. i \in 1 .. (k - 0) /\ 0 + i = i  BY <4>2
        <5>2. c.buffer[0 + i] = stream[p + i]  BY <4>1, <5>1
        <5>. QED  BY <5>1, <5>2
      <4>. QED  BY <3>3, <4>3 DEF Stands
    <3>7. PICK n \in Nat : count - k <= n /\ n <= r.size - k /\ Brought(c, q, n)
      <4>. DEFINE min == count - k
                  max == r.size - k
      <4>1. min \in Nat /\ max \in Nat /\ q \in FillRange(c, min, max)  BY <3>5 DEF range
      <4>. HIDE DEF min, max
      <4>2. Ready(c)  BY <3>4, <3>6 DEF Ready
      <4>3. \E n \in Nat : min <= n /\ n <= max /\ Brought(c, q, n)  BY <3>2, <4>1, <4>2, Delivered
      <4>. QED  BY <4>3 DEF min, max
    <3>. USE DEF Brought
    <3>8. /\ DOMAIN o.rd = Fields /\ o.rd.buffer = Written(c.buffer, k, q.v) /\ o.rd.data = 0
          /\ o.rd.end = k + n /\ o.rd.drawn = r.drawn + n /\ o.rd.size = r.size /\ o.rd.fill = r.fill
          /\ o.rd.error = q.rd.error
      BY <3>2, <3>3, <3>6, <3>7 DEF Write, Fields
    <3>9. /\ k + n <= Len(c.buffer) /\ 0 <= k + n /\ p + k + n <= Len(stream)
          /\ o.rd.drawn = p + k + n /\ p + 0 = p
      <4>. DEFINE z == r.size
                  d == r.drawn
                  l == Len(c.buffer)
      <4>1. z \in Nat /\ d \in Nat /\ l = z /\ d = p + k /\ n <= z - k /\ o.rd.drawn = d + n
            /\ d + n <= Len(stream)
        BY <3>3, <3>4, <3>7, <3>8
      <4>. HIDE DEF z, d, l
      <4>2. k + n <= l /\ 0 <= k + n /\ d + n = p + k + n /\ p + 0 = p  BY <3>4, <4>1
      <4>. QED  BY <4>1, <4>2 DEF z, d, l
    <3>10. \A i \in 1 .. n : q.v[i] = stream[p + k + i]  BY <3>3, <3>4, <3>7
    <3>11. o.rd.fill => o.rd.size = Len(c.buffer) /\ o.rd.size >= 1  BY <3>3, <3>4, <3>8
    <3>12. Stands(o.rd, p + 0)
      <4>1. Refills(o.rd, c.buffer, q.v, k, n, p, 0)
        BY <3>4, <3>6, <3>7, <3>8, <3>9, <3>10, <3>11 DEF Refills
      <4>. QED  BY <4>1, Refilled
    <3>13. InBuffer(o.rd) >= count  BY <3>4, <3>7, <3>8 DEF InBuffer
    <3>. QED  BY <3>2, <3>8, <3>9, <3>12, <3>13 DEF Good
  <2>. QED  BY <2>1, <2>2, <2>3
<1>. QED  BY <1>3, <1>4

-----------------------------------------------------------------------------
(* Reading *)

(* v begins with the count bytes behind the first p of the stream *)
Yields(v, p, count) ==
    /\ v \in Seq(Cell) /\ count \in Nat /\ p \in Nat /\ count <= Len(v) /\ p + count <= Len(stream)
    /\ \A i \in 1 .. count : v[i] = stream[p + i]

Got(o, p, count) == /\ o.rd.error = "ok" /\ Stands(o.rd, p + count)
                    /\ Yields(o.v, p, count) /\ Len(o.v) = count

LEMMA TakeGot ==
    ASSUME NEW r, NEW p, Stands(r, p), r.error = "ok", NEW count \in Nat, count <= InBuffer(r)
    PROVE  Got(Take(r, count), p, count)
<1>. DEFINE d == r.data
            e == r.end
            b == r.buffer
            s == [r EXCEPT !.data = @ + count]
            v == SubSeq(b, d + 1, d + count)
<1>1. /\ d \in Nat /\ e \in Nat /\ b \in Seq(Cell) /\ p \in Nat /\ d <= e /\ e <= Len(b)
      /\ count <= e - d /\ r.drawn \in Nat /\ p + (e - d) = r.drawn /\ r.drawn <= Len(stream)
      /\ \A i \in 1 .. (e - d) : b[d + i] = stream[p + i]
  BY DEF Stands, InBuffer
<1>2. /\ DOMAIN s = Fields /\ s.data = d + count /\ s.end = e /\ s.buffer = b /\ s.drawn = r.drawn
      /\ s.size = r.size /\ s.fill = r.fill /\ s.error = "ok"
  BY DEF Stands, Fields
<1>3. Take(r, count).rd = s /\ Take(r, count).v = v  BY DEF Take, Out
<1>. HIDE DEF d, e, b, s, v
<1>4. d + count <= Len(b) /\ p + count <= Len(stream) /\ d + count \in Nat /\ p + count \in Nat
  BY <1>1 DEF Stands
<1>5. v \in Seq(Cell) /\ Len(v) = count /\ \A i \in 1 .. count : v[i] = b[d + i]
  <2>1. /\ SubSeq(b, d + 1, d + count) \in Seq(Cell) /\ Len(SubSeq(b, d + 1, d + count)) = count
        /\ \A i \in 1 .. count : SubSeq(b, d + 1, d + count)[i] = b[d + i]
    <3>1. d \in Nat /\ b \in Seq(Cell) /\ d + count <= Len(b)  BY <1>1, <1>4
    <3>. QED  BY <3>1
  <2>. QED  BY <2>1 DEF v
<1>6. \A i \in 1 .. count : v[i] = stream[p + i]
  <2>1. \A i \in 1 .. count : i \in 1 .. (e - d)  BY <1>1
  <2>. QED  BY <1>1, <1>5, <2>1
<1>7. Yields(v, p, count)
  <2>1. count <= Len(v)  BY <1>5
  <2>. QED  BY <1>1, <1>4, <1>5, <1>6, <2>1 DEF Yields
<1>8. \A i \in 1 .. (e - (d + count)) : b[(d + count) + i] = stream[(p + count) + i]
  <2>. SUFFICES ASSUME NEW i \in 1 .. (e - (d + count))
                PROVE  b[(d + count) + i] = stream[(p + count) + i]
    OBVIOUS
  <2>1. /\ count + i \in 1 .. (e - d) /\ d + (count + i) = (d + count) + i
        /\ p + (count + i) = (p + count) + i
    BY <1>1
  <2>2. b[d + (count + i)] = stream[p + (count + i)]  BY <1>1, <2>1
  <2>. QED  BY <2>1, <2>2
<1>9. d + count <= e /\ (p + count) + (e - (d + count)) = r.drawn  BY <1>1
<1>10. Stands(s, p + count)
  <2>1. stream \in Seq(Cell) /\ (r.fill => r.size = Len(b) /\ r.size >= 1)  BY DEF Stands, b
  <2>. QED  BY <1>1, <1>2, <1>4, <1>8, <1>9, <2>1 DEF Stands
<1>. QED  BY <1>2, <1>3, <1>5, <1>7, <1>10 DEF Got

(* What was in the buffer and what the source delivers then *)
Adjoin(a, b, p, rest) ==
    /\ a \in Seq(Cell) /\ b \in Seq(Cell) /\ p \in Nat /\ rest \in Nat /\ rest <= Len(b)
    /\ stream \in Seq(Cell) /\ p + Len(a) + rest <= Len(stream)
    /\ \A i \in 1 .. Len(a) : a[i] = stream[p + i]
    /\ \A i \in 1 .. rest : b[i] = stream[p + Len(a) + i]

LEMMA Joins ==
    ASSUME NEW a, NEW b, NEW p, NEW rest, Adjoin(a, b, p, rest)
    PROVE  /\ a \o SubSeq(b, 1, rest) \in Seq(Cell)
           /\ Len(a \o SubSeq(b, 1, rest)) = Len(a) + rest
           /\ Yields(a \o SubSeq(b, 1, rest), p, Len(a) + rest)
<1>0. /\ a \in Seq(Cell) /\ b \in Seq(Cell) /\ p \in Nat /\ rest \in Nat /\ rest <= Len(b)
      /\ stream \in Seq(Cell) /\ p + Len(a) + rest <= Len(stream)
      /\ \A i \in 1 .. Len(a) : a[i] = stream[p + i]
      /\ \A i \in 1 .. rest : b[i] = stream[p + Len(a) + i]
  BY DEF Adjoin
<1>. DEFINE k == Len(a)
            c == SubSeq(b, 1, rest)
            v == a \o c
<1>1. c \in Seq(Cell) /\ Len(c) = rest /\ \A i \in 1 .. rest : c[i] = b[i]
  BY <1>0, Prefix
<1>2. k \in Nat  BY <1>0
<1>. HIDE DEF c
<1>3. /\ v \in Seq(Cell) /\ Len(v) = k + Len(c)
      /\ \A i \in 1 .. k : v[i] = a[i]
      /\ \A i \in 1 .. Len(c) : v[k + i] = c[i]
  <2>1. /\ a \o c \in Seq(Cell) /\ Len(a \o c) = Len(a) + Len(c)
        /\ \A i \in 1 .. Len(a) : (a \o c)[i] = a[i]
        /\ \A i \in 1 .. Len(c) : (a \o c)[Len(a) + i] = c[i]
    <3>1. a \in Seq(Cell) /\ c \in Seq(Cell)  BY <1>0, <1>1
    <3>. QED  BY <3>1
  <2>. QED  BY <2>1
<1>. HIDE DEF v, k
<1>4. v \in Seq(Cell) /\ Len(v) = k + rest  BY <1>1, <1>3
<1>5. ASSUME NEW i \in 1 .. (k + rest)  PROVE v[i] = stream[p + i]
  <2>1. CASE i <= k
    <3>1. i \in 1 .. k  BY <1>2, <2>1
    <3>. QED  BY <1>0, <1>3, <3>1 DEF k
  <2>2. CASE ~(i <= k)
    <3>1. i - k \in 1 .. rest /\ k + (i - k) = i /\ p + k + (i - k) = p + i  BY <1>0, <1>2, <2>2
    <3>2. v[k + (i - k)] = c[i - k] /\ c[i - k] = b[i - k]  BY <1>1, <1>3, <3>1
    <3>3. b[i - k] = stream[p + k + (i - k)]  BY <1>0, <3>1 DEF k
    <3>. QED  BY <3>1, <3>2, <3>3
  <2>. QED  BY <2>1, <2>2
<1>6. k + rest \in Nat /\ k + rest <= Len(v) /\ p + (k + rest) <= Len(stream)
  <2>1. p + k + rest <= Len(stream)  BY <1>0 DEF k
  <2>. QED  BY <1>0, <1>2, <1>4, <2>1
<1>7. Yields(v, p, k + rest)  BY <1>0, <1>4, <1>5, <1>6 DEF Yields
<1>. QED  BY <1>4, <1>7 DEF v, k, c

LEMMA PaddedSame ==
    ASSUME NEW S, NEW v \in Seq(S)
    PROVE  Padded(v, Len(v)) = v
BY DEF Padded

LEMMA RestGot ==
    ASSUME NEW r, Ready(r), r.buffer \in Seq(Cell), r.fill, r.size = Len(r.buffer), r.size >= 1,
           r.data = r.end, r.end \in Nat, r.end <= Len(r.buffer),
           NEW first \in Seq(Cell), NEW p \in Nat, p + Len(first) = r.drawn,
           \A i \in 1 .. Len(first) : first[i] = stream[p + i],
           NEW rest \in Nat, NEW o \in Rest(r, first, rest), Good(o)
    PROVE  Got(o, p, Len(first) + rest)
<1>. DEFINE k == Len(first)
            small(q) == IF Good(q)
                        THEN Out([Write(q.rd, 0, q.v) EXCEPT !.data = rest, !.end = Len(q.v)],
                                 first \o SubSeq(q.v, 1, rest))
                        ELSE Out(Write(q.rd, 0, q.v), Padded(first, k + rest))
            large(q) == Out(q.rd, Padded(first \o q.v, k + rest))
<1>1. Rest(r, first, rest) =
        IF rest <= r.size \div ReadFraction THEN {small(q) : q \in FillRange(r, rest, r.size)}
        ELSE {large(q) : q \in FillRange(r, rest, rest)}
  BY DEF Rest
<1>2. DOMAIN r = Fields /\ stream \in Seq(Cell) /\ r.drawn \in Nat /\ k \in Nat /\ r.size \in Nat
  BY DEF Ready
<1>3. CASE rest <= r.size \div ReadFraction
  <2>1. PICK q \in FillRange(r, rest, r.size) : o = small(q)
    <3>. HIDE DEF small, large
    <3>. QED  BY <1>1, <1>3
  <2>2. Good(q)
    <3>. SUFFICES ASSUME ~Good(q)  PROVE FALSE  OBVIOUS
    <3>1. o.rd = Write(q.rd, 0, q.v)  BY <2>1 DEF Out
    <3>2. DOMAIN q.rd = Fields
      <4>1. KeptAll(FillRange(r, rest, r.size), r)  BY <1>2, FillRangeKept
      <4>. HIDE DEF small, large
      <4>. QED  BY <4>1 DEF KeptAll, Kept
    <3>3. o.rd.error = q.rd.error  BY <3>1, <3>2 DEF Write, Fields
    <3>. QED  BY <3>3 DEF Good
  <2>3. PICK n \in Nat : rest <= n /\ n <= r.size /\ Brought(r, q, n)
    BY <1>2, <2>2, Delivered
  <2>4. /\ o.rd = [Write(q.rd, 0, q.v) EXCEPT !.data = rest, !.end = Len(q.v)]
        /\ o.v = first \o SubSeq(q.v, 1, rest)
    BY <2>1, <2>2 DEF Out
  <2>5. Refills(o.rd, r.buffer, q.v, 0, n, r.drawn, rest)
    <3>1. /\ q.rd = [r EXCEPT !.drawn = r.drawn + n] /\ q.v \in Seq(Cell) /\ Len(q.v) = n
          /\ r.drawn + n <= Len(stream) /\ \A i \in 1 .. n : q.v[i] = stream[r.drawn + i]
      BY <2>3 DEF Brought
    <3>2. /\ DOMAIN o.rd = Fields /\ o.rd.buffer = Written(r.buffer, 0, q.v) /\ o.rd.data = rest
          /\ o.rd.end = n /\ o.rd.drawn = r.drawn + n /\ o.rd.size = r.size /\ o.rd.fill = r.fill
      <4>. DEFINE w == Write(q.rd, 0, q.v)
      <4>1. /\ DOMAIN q.rd = Fields /\ q.rd.drawn = r.drawn + n /\ q.rd.size = r.size
            /\ q.rd.fill = r.fill /\ q.rd.buffer = r.buffer
        BY <1>2, <3>1 DEF Fields
      <4>2. /\ DOMAIN w = Fields /\ w.drawn = r.drawn + n /\ w.size = r.size
            /\ w.fill = r.fill /\ w.buffer = Written(r.buffer, 0, q.v)
        BY <4>1 DEF Write, Fields
      <4>3. o.rd = [w EXCEPT !.data = rest, !.end = Len(q.v)]  BY <2>4
      <4>. HIDE DEF w
      <4>. DEFINE l == Len(q.v)
                  s == [w EXCEPT !.data = rest, !.end = l]
      <4>4. /\ DOMAIN s = Fields /\ s.data = rest /\ s.end = l /\ s.buffer = w.buffer
            /\ s.drawn = w.drawn /\ s.size = w.size /\ s.fill = w.fill
        BY <4>2 DEF Fields
      <4>5. o.rd = s /\ l = n  BY <3>1, <4>3
      <4>. HIDE DEF s, l
      <4>. QED  BY <4>2, <4>4, <4>5
    <3>3. 0 + n = n /\ r.drawn + 0 = r.drawn /\ n <= Len(r.buffer)  BY <1>2, <2>3
    <3>4. \A i \in 1 .. 0 : r.buffer[i] = stream[r.drawn + i]  OBVIOUS
    <3>. QED  BY <1>2, <2>3, <3>1, <3>2, <3>3, <3>4 DEF Refills
  <2>6. Stands(o.rd, r.drawn + rest)  BY <2>5, Refilled
  <2>7. Adjoin(first, q.v, p, rest)
    <3>1. /\ q.v \in Seq(Cell) /\ Len(q.v) = n /\ r.drawn + n <= Len(stream)
          /\ \A i \in 1 .. n : q.v[i] = stream[r.drawn + i]
      BY <2>3 DEF Brought
    <3>2. \A i \in 1 .. rest : i \in 1 .. n /\ p + k + i = r.drawn + i  BY <1>2, <2>3
    <3>3. p + k + rest <= Len(stream)  BY <1>2, <2>3, <3>1
    <3>. QED  BY <1>2, <2>3, <3>1, <3>2, <3>3 DEF Adjoin
  <2>. DEFINE v == q.v
  <2>. HIDE DEF v
  <2>9. /\ Len(first \o SubSeq(v, 1, rest)) = k + rest
        /\ Yields(first \o SubSeq(v, 1, rest), p, k + rest)
    BY <2>7, Joins DEF v
  <2>10. r.drawn + rest = p + (k + rest)
    <3>. DEFINE d == r.drawn
    <3>1. d = p + k /\ d \in Nat /\ k \in Nat  BY <1>2
    <3>. HIDE DEF d, k
    <3>2. d + rest = p + (k + rest)  BY <3>1
    <3>. QED  BY <3>2 DEF d
  <2>. HIDE DEF k
  <2>. QED  BY <2>4, <2>6, <2>9, <2>10 DEF Got, Good, v
<1>4. CASE ~(rest <= r.size \div ReadFraction)
  <2>1. PICK q \in FillRange(r, rest, rest) : o = large(q)
    <3>. HIDE DEF small, large
    <3>. QED  BY <1>1, <1>4
  <2>2. o.rd = q.rd /\ o.v = Padded(first \o q.v, k + rest)  BY <2>1 DEF Out
  <2>3. PICK n \in Nat : rest <= n /\ n <= rest /\ Brought(r, q, n)
    BY <1>2, <2>2, Delivered DEF Good
  <2>4. /\ q.rd = [r EXCEPT !.drawn = r.drawn + n] /\ q.v \in Seq(Cell) /\ Len(q.v) = n
        /\ r.drawn + n <= Len(stream) /\ \A i \in 1 .. n : q.v[i] = stream[r.drawn + i]
    BY <2>3 DEF Brought
  <2>5. n = rest  BY <2>3
  <2>6. /\ DOMAIN q.rd = Fields /\ q.rd.buffer = r.buffer /\ q.rd.data = r.end /\ q.rd.end = r.end
        /\ q.rd.drawn = r.drawn + rest /\ q.rd.size = r.size /\ q.rd.fill = r.fill
    <3>. HIDE DEF small, large, k
    <3>1. DOMAIN r = Fields /\ r.data = r.end  BY <1>2
    <3>2. /\ DOMAIN q.rd = Fields /\ q.rd.drawn = r.drawn + n /\ q.rd.buffer = r.buffer
          /\ q.rd.data = r.data /\ q.rd.end = r.end /\ q.rd.size = r.size /\ q.rd.fill = r.fill
      BY <2>3, <3>1, BroughtFields
    <3>. QED  BY <2>5, <3>1, <3>2
  <2>. DEFINE v == q.v
              s == q.rd
  <2>7. /\ v \in Seq(Cell) /\ rest <= Len(v) /\ p + k + rest <= Len(stream) /\ Len(v) = rest
        /\ \A i \in 1 .. rest : v[i] = stream[p + k + i]
    BY <1>2, <2>4, <2>5
  <2>8. r.drawn + rest = p + (k + rest) /\ r.drawn + rest \in Nat /\ p + (k + rest) \in Nat
    <3>. DEFINE d == r.drawn
    <3>1. d = p + k /\ d \in Nat /\ k \in Nat  BY <1>2
    <3>. HIDE DEF d, k
    <3>2. d + rest = p + (k + rest) /\ d + rest \in Nat /\ p + (k + rest) \in Nat  BY <3>1
    <3>. QED  BY <3>2 DEF d
  <2>9. Stands(s, p + (k + rest))
    <3>1. /\ r.drawn + rest <= Len(stream) /\ r.end - r.end = 0
          /\ p + (k + rest) + (r.end - r.end) = r.drawn + rest
      BY <1>2, <2>4, <2>5, <2>8
    <3>2. \A i \in 1 .. (r.end - r.end) : r.buffer[r.end + i] = stream[p + (k + rest) + i]
      BY <3>1
    <3>. HIDE DEF k
    <3>. QED  BY <1>2, <2>6, <2>8, <3>1, <3>2 DEF Stands
  <2>. HIDE DEF v, s
  <2>10. /\ first \o SubSeq(v, 1, rest) \in Seq(Cell) /\ Len(first \o SubSeq(v, 1, rest)) = k + rest
         /\ Yields(first \o SubSeq(v, 1, rest), p, k + rest)
    <3>1. Adjoin(first, v, p, rest)  BY <1>2, <2>7 DEF Adjoin
    <3>. QED  BY <3>1, Joins
  <2>11. SubSeq(v, 1, rest) = v  BY <2>7
  <2>12. Padded(first \o v, k + rest) = first \o v  BY <2>10, <2>11, PaddedSame
  <2>13. o.v = first \o v /\ o.rd = s  BY <2>2, <2>12 DEF v, s
  <2>. QED  BY <2>9, <2>10, <2>11, <2>13 DEF Got, Good
<1>. QED  BY <1>3, <1>4

LEMMA ReadNativeGot ==
    ASSUME NEW r, NEW p, Stands(r, p), r.error = "ok", NEW count \in Nat,
           NEW o \in ReadNative(r, count), Good(o)
    PROVE  Got(o, p, count)
<1>. DEFINE k == InBuffer(r)
            f == Take(r, k)
            rest == count - k
<1>1. ReadNative(r, count) = IF count <= k THEN {Take(r, count)}
                             ELSE IF r.error # "ok" THEN {Out(r, Zeros(count))}
                             ELSE IF ~r.fill THEN {Out(FlagError(r, "invalid"), Zeros(count))}
                             ELSE Rest(f.rd, f.v, rest)
  BY DEF ReadNative
<1>2. k \in Nat /\ DOMAIN r = Fields  BY DEF Stands, InBuffer
<1>3. CASE count <= k
  <2>1. o = Take(r, count)  BY <1>1, <1>3
  <2>. QED  BY <1>3, <2>1, TakeGot
<1>4. CASE ~(count <= k)
  <2>1. CASE ~r.fill
    <3>1. o = Out(FlagError(r, "invalid"), Zeros(count))  BY <1>1, <1>4, <2>1
    <3>. QED  BY <1>2, <3>1 DEF Good, Out, FlagError, Fields
  <2>2. CASE r.fill
    <3>. HIDE DEF k, f
    <3>1. o \in Rest(f.rd, f.v, rest)  BY <1>1, <1>4, <2>2
    <3>2. Got(f, p, k)
      <4>1. k <= InBuffer(r)  BY <1>2 DEF k
      <4>. QED  BY <1>2, <4>1, TakeGot DEF f
    <3>3. f.rd = [r EXCEPT !.data = @ + k]  BY DEF f, Take, Out
    <3>4. /\ DOMAIN f.rd = Fields /\ f.rd.data = r.data + k /\ f.rd.end = r.end /\ f.rd.buffer = r.buffer
          /\ f.rd.fill = r.fill /\ f.rd.size = r.size /\ f.rd.drawn = r.drawn
      BY <1>2, <3>3 DEF Fields
    <3>5. /\ f.rd.data = f.rd.end /\ p + k = r.drawn /\ p \in Nat
      BY <3>4 DEF Stands, k, InBuffer
    <3>6. /\ Ready(f.rd) /\ f.rd.buffer \in Seq(Cell) /\ f.rd.end \in Nat /\ f.rd.end <= Len(f.rd.buffer)
          /\ f.rd.fill /\ f.rd.size = Len(f.rd.buffer) /\ f.rd.size >= 1
      BY <2>2, <3>4 DEF Stands, Ready
    <3>7. /\ f.v \in Seq(Cell) /\ Len(f.v) = k /\ \A i \in 1 .. k : f.v[i] = stream[p + i]
      BY <3>2 DEF Got, Yields
    <3>8. rest \in Nat /\ k + rest = count  BY <1>2, <1>4
    <3>. HIDE DEF rest
    <3>9. Got(o, p, Len(f.v) + rest)
      <4>1. p + Len(f.v) = f.rd.drawn /\ \A i \in 1 .. Len(f.v) : f.v[i] = stream[p + i]
        BY <3>4, <3>5, <3>7
      <4>. QED  BY <3>1, <3>5, <3>6, <3>7, <3>8, <4>1, RestGot
    <3>. QED  BY <3>7, <3>8, <3>9
  <2>. QED  BY <2>1, <2>2
<1>. QED  BY <1>3, <1>4

-----------------------------------------------------------------------------
(* Skipping *)

LEMMA FlagBad ==
    ASSUME NEW r, DOMAIN r = Fields, NEW e, e # "ok"
    PROVE  FlagError(r, e).error # "ok"
BY DEF FlagError, Fields

Blank(r) == /\ Ready(r) /\ r.buffer \in Seq(Cell) /\ r.fill
            /\ r.size = Len(r.buffer) /\ r.size >= 1 /\ r.size \in Nat

Passed(o, p) == o.rd.error = "ok" /\ Stands(o.rd, p)

LEMMA WholeBuffers ==
    ASSUME NEW a \in Nat, NEW b \in Nat, b >= 1
    PROVE  (a \div b) * b \in Nat /\ (a \div b) * b <= a
<1>1. a \div b \in Nat /\ b * (a \div b) <= a  OBVIOUS
<1>2. (a \div b) * b = b * (a \div b)  BY <1>1
<1>3. b * (a \div b) \in Nat  BY <1>1
<1>. QED  BY <1>1, <1>2, <1>3

LEMMA LastFillPassed ==
    ASSUME NEW r, Blank(r), NEW count \in Nat, NEW o \in LastFill(r, count), Good(o)
    PROVE  Passed(o, r.drawn + count)
<1>. DEFINE behind == [r EXCEPT !.data = 0]
            last(q) == Out(IF Good(q) THEN [Write(q.rd, 0, q.v) EXCEPT !.data = count, !.end = Len(q.v)]
                           ELSE q.rd, Null)
            size == r.size
<1>1. DOMAIN r = Fields /\ stream \in Seq(Cell) /\ r.drawn \in Nat /\ size \in Nat /\ r.drawn <= Len(stream)
  BY DEF Blank, Ready
<1>2. /\ DOMAIN behind = Fields /\ behind.buffer = r.buffer /\ behind.drawn = r.drawn
      /\ behind.size = r.size /\ behind.fill = r.fill
  BY <1>1 DEF Fields
<1>3. PICK q \in FillRange(behind, count, size) : o = last(q)  BY DEF LastFill
<1>. HIDE DEF behind, size
<1>4. Good(q)
  <2>. SUFFICES ASSUME ~Good(q)  PROVE FALSE  OBVIOUS
  <2>1. o.rd = q.rd  BY <1>3 DEF Out
  <2>. QED  BY <2>1 DEF Good
<1>5. Ready(behind)  BY <1>1, <1>2 DEF Ready
<1>6. PICK n \in Nat : count <= n /\ n <= size /\ Brought(behind, q, n)
  BY <1>1, <1>3, <1>4, <1>5, Delivered
<1>7. o.rd = [Write(q.rd, 0, q.v) EXCEPT !.data = count, !.end = Len(q.v)]
  BY <1>3, <1>4 DEF Out
<1>8. /\ q.rd = [behind EXCEPT !.drawn = behind.drawn + n] /\ q.v \in Seq(Cell) /\ Len(q.v) = n
      /\ r.drawn + n <= Len(stream) /\ \A i \in 1 .. n : q.v[i] = stream[r.drawn + i]
  BY <1>2, <1>6 DEF Brought
<1>9. /\ DOMAIN o.rd = Fields /\ o.rd.buffer = Written(r.buffer, 0, q.v) /\ o.rd.data = count
      /\ o.rd.end = n /\ o.rd.drawn = r.drawn + n /\ o.rd.size = r.size /\ o.rd.fill = r.fill
  <2>. DEFINE w == Write(q.rd, 0, q.v)
              l == Len(q.v)
              s == [w EXCEPT !.data = count, !.end = l]
  <2>1. /\ DOMAIN q.rd = Fields /\ q.rd.drawn = r.drawn + n /\ q.rd.size = r.size
        /\ q.rd.fill = r.fill /\ q.rd.buffer = r.buffer
    BY <1>2, <1>8 DEF Fields
  <2>2. /\ DOMAIN w = Fields /\ w.drawn = r.drawn + n /\ w.size = r.size
        /\ w.fill = r.fill /\ w.buffer = Written(r.buffer, 0, q.v)
    BY <2>1 DEF Write, Fields
  <2>3. o.rd = s /\ l = n  BY <1>7, <1>8
  <2>. HIDE DEF w
  <2>4. /\ DOMAIN s = Fields /\ s.data = count /\ s.end = l /\ s.buffer = w.buffer
        /\ s.drawn = w.drawn /\ s.size = w.size /\ s.fill = w.fill
    BY <2>2 DEF Fields
  <2>. HIDE DEF s, l
  <2>. QED  BY <2>2, <2>3, <2>4
<1>10. 0 + n = n /\ r.drawn + 0 = r.drawn /\ n <= Len(r.buffer)
  BY <1>1, <1>6 DEF Blank, size
<1>11. \A i \in 1 .. 0 : r.buffer[i] = stream[r.drawn + i]  OBVIOUS
<1>12. r.buffer \in Seq(Cell) /\ (r.fill => r.size = Len(r.buffer) /\ r.size >= 1)  BY DEF Blank
<1>13. Refills(o.rd, r.buffer, q.v, 0, n, r.drawn, count)
  BY <1>1, <1>6, <1>8, <1>9, <1>10, <1>11, <1>12 DEF Refills
<1>14. Stands(o.rd, r.drawn + count)  BY <1>13, Refilled
<1>. QED  BY <1>14 DEF Passed, Good

LEMMA SkipUsingFillPassed ==
    ASSUME NEW r, Blank(r), r.error = "ok", NEW count \in Nat, count >= 1,
           NEW o \in SkipUsingFill(r, count), Good(o)
    PROVE  Passed(o, r.drawn + count)
<1>. DEFINE whole == ((count - 1) \div r.size) * r.size
            emptied == IF whole = 0 THEN {Out(r, << >>)} ELSE FillRange(r, whole, whole)
            last(q) == IF Good(q) THEN LastFill(q.rd, count - whole) ELSE {Out(q.rd, Null)}
<1>1. whole \in Nat /\ whole <= count
  <2>. DEFINE a == count - 1
              b == r.size
  <2>1. a \in Nat /\ b \in Nat /\ b >= 1 /\ a <= count  BY DEF Blank
  <2>2. whole = (a \div b) * b  OBVIOUS
  <2>. HIDE DEF a, b, whole
  <2>3. (a \div b) * b \in Nat /\ (a \div b) * b <= a  BY <2>1, WholeBuffers
  <2>. QED  BY <2>1, <2>2, <2>3
<1>2. PICK q \in emptied : o \in last(q)
  <2>1. SkipUsingFill(r, count) = UNION {last(q) : q \in emptied}  BY DEF SkipUsingFill
  <2>. HIDE DEF last, emptied
  <2>. QED  BY <2>1
<1>. HIDE DEF whole
<1>3. Good(q)
  <2>. SUFFICES ASSUME ~Good(q)  PROVE FALSE  OBVIOUS
  <2>1. o = Out(q.rd, Null)  BY <1>2
  <2>. QED  BY <2>1 DEF Good, Out
<1>4. o \in LastFill(q.rd, count - whole)  BY <1>2, <1>3
<1>5. Blank(q.rd) /\ q.rd.drawn = r.drawn + whole
  <2>1. CASE whole = 0
    <3>1. q.rd = r  BY <1>2, <2>1 DEF Out
    <3>2. r.drawn + 0 = r.drawn  BY DEF Blank, Ready
    <3>. QED  BY <2>1, <3>1, <3>2
  <2>2. CASE whole # 0
    <3>1. q \in FillRange(r, whole, whole)  BY <1>2, <2>2
    <3>2. Ready(r)  BY DEF Blank
    <3>3. PICK n \in Nat : whole <= n /\ n <= whole /\ Brought(r, q, n)
      BY <1>1, <1>3, <3>1, <3>2, Delivered
    <3>4. n = whole  BY <1>1, <3>3
    <3>5. /\ q.rd = [r EXCEPT !.drawn = r.drawn + whole] /\ r.drawn + whole <= Len(stream)
      BY <3>3, <3>4 DEF Brought
    <3>6. /\ DOMAIN q.rd = Fields /\ q.rd.drawn = r.drawn + whole /\ q.rd.buffer = r.buffer
          /\ q.rd.size = r.size /\ q.rd.fill = r.fill
      BY <3>2, <3>5 DEF Ready, Fields
    <3>7. r.drawn + whole \in Nat  BY <1>1, <3>2 DEF Ready
    <3>. QED  BY <3>2, <3>5, <3>6, <3>7 DEF Blank, Ready
  <2>. QED  BY <2>1, <2>2
<1>6. count - whole \in Nat  BY <1>1
<1>7. Passed(o, q.rd.drawn + (count - whole))  BY <1>4, <1>5, <1>6, LastFillPassed
<1>8. q.rd.drawn + (count - whole) = r.drawn + count
  <2>. DEFINE d == r.drawn
  <2>1. d \in Nat /\ q.rd.drawn = d + whole  BY <1>5 DEF Blank, Ready
  <2>. HIDE DEF d
  <2>2. (d + whole) + (count - whole) = d + count  BY <1>1, <2>1
  <2>. QED  BY <2>1, <2>2 DEF d
<1>. QED  BY <1>7, <1>8

LEMMA SkipBytesPassed ==
    ASSUME NEW r, NEW p, Stands(r, p), r.error = "ok", NEW count \in Nat,
           NEW o \in SkipBytes(r, count), Good(o)
    PROVE  Passed(o, p + count)
<1>. DEFINE k == InBuffer(r)
            rest == count - k
            emptied == [r EXCEPT !.data = r.end]
<1>1. SkipBytes(r, count) =
        IF r.error # "ok" THEN {Out(r, Null)}
        ELSE IF rest <= 0 THEN {Out([r EXCEPT !.data = @ + count], Null)}
        ELSE IF ~r.fill THEN {Out(FlagError(r, "invalid"), Null)}
        ELSE IF r.skip /\ rest > r.size \div SkipFraction THEN Seek(emptied, rest)
        ELSE SkipUsingFill(emptied, rest)
  BY DEF SkipBytes
<1>2. k \in Nat /\ DOMAIN r = Fields /\ p + k = r.drawn /\ p \in Nat  BY DEF Stands, InBuffer
<1>3. /\ DOMAIN emptied = Fields /\ emptied.buffer = r.buffer /\ emptied.data = r.end
      /\ emptied.end = r.end /\ emptied.drawn = r.drawn /\ emptied.size = r.size
      /\ emptied.fill = r.fill /\ emptied.error = "ok"
  BY <1>2 DEF Fields
<1>. HIDE DEF k, emptied
<1>4. CASE rest <= 0
  <2>1. o = Out([r EXCEPT !.data = @ + count], Null)  BY <1>1, <1>4
  <2>2. count <= k  BY <1>2, <1>4
  <2>3. Got(Take(r, count), p, count)  BY <2>2, TakeGot DEF k
  <2>. QED  BY <2>1, <2>3 DEF Got, Passed, Take, Out
<1>5. CASE ~(rest <= 0)
  <2>1. CASE ~r.fill
    <3>1. o = Out(FlagError(r, "invalid"), Null)  BY <1>1, <1>5, <2>1
    <3>. QED  BY <1>2, <3>1 DEF Good, Out, FlagError, Fields
  <2>2. CASE r.fill
    <3>1. rest \in Nat /\ rest >= 1 /\ r.drawn + rest = p + count
      <4>. DEFINE d == r.drawn
      <4>1. d = p + k  BY <1>2
      <4>. HIDE DEF d
      <4>2. rest \in Nat /\ rest >= 1 /\ d + rest = p + count  BY <1>2, <1>5, <4>1
      <4>. QED  BY <4>2 DEF d
    <3>. HIDE DEF rest
    <3>2. CASE o \in SkipUsingFill(emptied, rest)
      <4>1. Blank(emptied)  BY <1>3, <2>2 DEF Stands, Blank, Ready
      <4>2. Passed(o, emptied.drawn + rest)  BY <1>3, <3>1, <3>2, <4>1, SkipUsingFillPassed
      <4>. QED  BY <1>3, <3>1, <4>2
    <3>3. CASE o \in Seek(emptied, rest)
      <4>1. o # Out(FlagError(emptied, "io"), Null)
        BY <1>3, FlagBad DEF Good, Out
      <4>2. emptied.drawn + rest <= Len(stream) /\ o = Out(Draw(emptied, rest), Null)
        BY <3>3, <4>1 DEF Seek
      <4>. DEFINE s == o.rd
      <4>3. /\ DOMAIN s = Fields /\ s.buffer = r.buffer /\ s.data = r.end /\ s.end = r.end
            /\ s.drawn = r.drawn + rest /\ s.size = r.size /\ s.fill = r.fill /\ s.error = "ok"
        BY <1>3, <4>2 DEF Out, Draw, Fields
      <4>. HIDE DEF s
      <4>4. /\ p + count \in Nat /\ r.end \in Nat /\ r.end - r.end = 0 /\ r.end <= r.end
            /\ p + count + (r.end - r.end) = p + count
        BY <1>2 DEF Stands
      <4>5. s.drawn \in Nat /\ s.drawn = p + count /\ s.drawn <= Len(stream)
        BY <1>3, <3>1, <4>2, <4>3, <4>4
      <4>6. \A i \in 1 .. (r.end - r.end) : r.buffer[r.end + i] = stream[p + count + i]
        BY <4>4
      <4>7. Stands(s, p + count)
        BY <4>3, <4>4, <4>5, <4>6 DEF Stands
      <4>. QED  BY <4>3, <4>7 DEF Passed, s
    <3>. QED  BY <1>1, <1>5, <2>2, <3>2, <3>3
  <2>. QED  BY <2>1, <2>2
<1>. QED  BY <1>4, <1>5

-----------------------------------------------------------------------------
(* Bytes *)

Reads(o, p, count) == Passed(o, p + count) /\ (o.v # Null => Yields(o.v.bytes, p, count))

LEMMA NulCell == NUL \in Cell /\ Stale \in Cell
BY DEF NUL, Byte, Stale, Cell

LEMMA ReadBytesReads ==
    ASSUME NEW r, NEW p, Stands(r, p), r.error = "ok", NEW count \in Nat,
           NEW o \in ReadBytes(r, count), Good(o)
    PROVE  Reads(o, p, count)
<1>1. PICK q \in ReadNative(r, count) : o = Out(q.rd, [bytes |-> q.v])  BY DEF ReadBytes
<1>2. Got(q, p, count)  BY <1>1, ReadNativeGot DEF Good, Out
<1>. QED  BY <1>1, <1>2 DEF Out, Got, Reads, Passed

LEMMA RefusedBad ==
    ASSUME NEW o, DOMAIN o.rd = Fields, NEW v
    PROVE  ~Good(Refused(o, v))
BY FlagBad DEF Refused, Good, Out

LEMMA ReadUtf8Reads ==
    ASSUME NEW r, NEW p, Stands(r, p), r.error = "ok", NEW count \in Nat,
           NEW o \in ReadUtf8(r, count), Good(o)
    PROVE  Reads(o, p, count)
<1>1. PICK q \in ReadBytes(r, count) :
        o = IF Good(q) /\ ~IsUtf8(q.v.bytes) THEN Refused(q, q.v) ELSE q
  BY DEF ReadUtf8
<1>2. DOMAIN q.rd = Fields  BY ReadBytesKept DEF KeptAll, Kept, Stands
<1>3. o = q  BY <1>1, <1>2, RefusedBad
<1>. QED  BY <1>3, ReadBytesReads

(* What follows the bytes that are read does not concern them *)
LEMMA Longer ==
    ASSUME NEW v, NEW p, NEW count, Yields(v, p, count), NEW w \in Seq(Cell),
           count <= Len(w), \A i \in 1 .. count : w[i] = v[i]
    PROVE  Yields(w, p, count)
BY DEF Yields

(* Bytes that are those of the stream and no more *)
LEMMA ExactBytes ==
    ASSUME stream \in Seq(Cell), NEW v, NEW p, NEW n, Yields(v, p, n), Len(v) = n
    PROVE  v = SubSeq(stream, p + 1, p + n)
<1>1. v \in Seq(Cell) /\ p \in Nat /\ n \in Nat /\ p + n <= Len(stream) /\ \A i \in 1 .. n : v[i] = stream[p + i]
  BY DEF Yields
<1>. DEFINE w == SubSeq(stream, p + 1, p + n)
<1>2. w \in Seq(Cell) /\ Len(w) = n /\ \A i \in 1 .. n : w[i] = stream[p + i]  BY <1>1, Part
<1>. HIDE DEF w
<1>3. v = w  BY <1>1, <1>2, SameSeq
<1>. QED  BY <1>3 DEF w

LEMMA ReadCstrReads ==
    ASSUME NEW r, NEW p, Stands(r, p), r.error = "ok", NEW count \in Nat, NEW size \in Nat, NEW utf8,
           NEW o \in ReadCstr(r, size, count, utf8), Good(o)
    PROVE  /\ Reads(o, p, count) /\ o.v = [bytes |-> o.v.bytes]
           /\ Valid(SubSeq(stream, p + 1, p + count), utf8, TRUE)
<1>. DEFINE read(q) == IF Good(q) /\ ~Valid(q.v, utf8, TRUE) THEN Refused(q, EmptyString(size))
                       ELSE Out(q.rd, [bytes |-> Padded(q.v \o <<NUL>>, size)])
<1>0. DOMAIN r = Fields  BY DEF Stands
<1>1. ReadCstr(r, size, count, utf8) =
        IF r.error # "ok" THEN {Out(r, EmptyString(size))}
        ELSE IF count > size - 1 THEN {Out(FlagError(r, "too_big"), EmptyString(size))}
        ELSE {read(q) : q \in ReadNative(r, count)}
  BY DEF ReadCstr
<1>. HIDE DEF read
<1>2. CASE count > size - 1
  <2>1. o = Out(FlagError(r, "too_big"), EmptyString(size))  BY <1>1, <1>2
  <2>. QED  BY <1>0, <2>1, FlagBad DEF Good, Out
<1>3. CASE ~(count > size - 1)
  <2>1. PICK q \in ReadNative(r, count) : o = read(q)  BY <1>1, <1>3
  <2>2. DOMAIN q.rd = Fields  BY <1>0, ReadNativeKept DEF KeptAll, Kept
  <2>3. o = Out(q.rd, [bytes |-> Padded(q.v \o <<NUL>>, size)])  BY <2>1, <2>2, RefusedBad DEF read
  <2>14. Good(q)  BY <2>3 DEF Good, Out
  <2>15. Valid(q.v, utf8, TRUE)  BY <2>1, <2>2, <2>14, RefusedBad DEF read
  <2>4. Got(q, p, count)  BY <2>14, ReadNativeGot
  <2>. DEFINE v == q.v
              w == Padded(v \o <<NUL>>, size)
  <2>5. v \in Seq(Cell) /\ Len(v) = count /\ Yields(v, p, count)  BY <2>4 DEF Got, Yields
  <2>. HIDE DEF v
  <2>6. /\ v \o <<NUL>> \in Seq(Cell) /\ Len(v \o <<NUL>>) = count + 1
        /\ \A i \in 1 .. count : (v \o <<NUL>>)[i] = v[i]
    BY <2>5, NulCell
  <2>7. w = [i \in 1 .. size |-> IF i <= Len(v \o <<NUL>>) THEN (v \o <<NUL>>)[i] ELSE Stale]
    BY DEF Padded
  <2>8. \A i \in 1 .. size : (IF i <= Len(v \o <<NUL>>) THEN (v \o <<NUL>>)[i] ELSE Stale) \in Cell
    <3>. DEFINE u == v \o <<NUL>>
    <3>1. u \in Seq(Cell)  BY <2>6
    <3>. HIDE DEF u
    <3>2. \A i \in 1 .. size : (IF i <= Len(u) THEN u[i] ELSE Stale) \in Cell  BY <3>1, NulCell
    <3>. QED  BY <3>2 DEF u
  <2>9. w \in Seq(Cell) /\ Len(w) = size  BY <2>7, <2>8
  <2>10. count <= size /\ \A i \in 1 .. count : i \in 1 .. size /\ i <= count + 1  BY <1>3
  <2>11. \A i \in 1 .. count : w[i] = v[i]  BY <2>6, <2>7, <2>10
  <2>. HIDE DEF w
  <2>12. Yields(w, p, count)  BY <2>5, <2>9, <2>10, <2>11, Longer
  <2>13. o.rd = q.rd /\ o.v.bytes = w /\ o.v = [bytes |-> w]  BY <2>3 DEF Out, v, w
  <2>16. Reads(o, p, count)  BY <2>4, <2>12, <2>13 DEF Reads, Passed, Got
  <2>17. Valid(v, utf8, TRUE)  BY <2>15 DEF v
  <2>18. stream \in Seq(Cell)  BY DEF Stands
  <2>19. v = SubSeq(stream, p + 1, p + count)  BY <2>5, <2>18, ExactBytes
  <2>. QED  BY <2>13, <2>16, <2>17, <2>19
<1>. QED  BY <1>2, <1>3

LEMMA BytesAllocReads ==
    ASSUME NEW r, NEW p, Stands(r, p), r.error = "ok", NEW count \in Nat, NEW terminated \in BOOLEAN,
           NEW o \in BytesAlloc(r, count, terminated), Good(o)
    PROVE  /\ Reads(o, p, count)
           /\ IF count = 0 /\ ~terminated THEN o.v = Null ELSE o.v = [bytes |-> o.v.bytes]
<1>. DEFINE quiet == [r EXCEPT !.held = TRUE, !.fn = FALSE]
            loud(q) == [q.rd EXCEPT !.fn = r.fn]
            tail == IF terminated THEN <<NUL>> ELSE << >>
            read(q) == IF Good(q) THEN Out(Released(q.rd), [bytes |-> q.v \o tail])
                       ELSE Out(Told(Released(q.rd)), Null)
<1>0. DOMAIN r = Fields  BY DEF Stands
<1>1. BytesAlloc(r, count, terminated) =
        IF count = 0 /\ ~terminated THEN {Out(r, Null)}
        ELSE {Out(FlagError(r, "memory"), Null)} \cup {read(q) : q \in ReadQuietly(r, count)}
  BY DEF BytesAlloc
<1>. HIDE DEF read
<1>2. CASE count = 0 /\ ~terminated
  <2>1. o.rd = r /\ o.v = Null  BY <1>1, <1>2 DEF Out
  <2>2. p + 0 = p  BY DEF Stands
  <2>3. Reads(o, p, count)  BY <1>2, <2>1, <2>2 DEF Reads, Passed
  <2>. QED  BY <1>2, <2>1, <2>3
<1>3. CASE ~(count = 0 /\ ~terminated)
  <2>1. o # Out(FlagError(r, "memory"), Null)  BY <1>0, FlagBad DEF Good, Out
  <2>2. PICK s \in ReadQuietly(r, count) : o = read(s)  BY <1>1, <1>3, <2>1
  <2>3. PICK q \in ReadNative(quiet, count) : s = Out(loud(q), q.v)  BY DEF ReadQuietly
  <2>4. /\ Stands(quiet, p) /\ quiet.error = "ok" /\ DOMAIN quiet = Fields
    <3>1. /\ DOMAIN quiet = Fields /\ quiet.buffer = r.buffer /\ quiet.data = r.data /\ quiet.end = r.end
          /\ quiet.drawn = r.drawn /\ quiet.size = r.size /\ quiet.fill = r.fill /\ quiet.error = "ok"
      BY <1>0 DEF Fields
    <3>. HIDE DEF quiet
    <3>. QED  BY <3>1 DEF Stands
  <2>. HIDE DEF quiet
  <2>5. DOMAIN q.rd = Fields  BY <2>4, ReadNativeKept DEF KeptAll, Kept
  <2>6. /\ s.rd = loud(q) /\ s.v = q.v /\ DOMAIN loud(q) = Fields
        /\ loud(q).buffer = q.rd.buffer /\ loud(q).data = q.rd.data /\ loud(q).end = q.rd.end
        /\ loud(q).drawn = q.rd.drawn /\ loud(q).size = q.rd.size /\ loud(q).fill = q.rd.fill
        /\ loud(q).error = q.rd.error
    BY <2>3, <2>5 DEF Out, Fields
  <2>. HIDE DEF loud
  <2>7. /\ DOMAIN Released(s.rd) = Fields
        /\ Released(s.rd).buffer = q.rd.buffer /\ Released(s.rd).data = q.rd.data
        /\ Released(s.rd).end = q.rd.end /\ Released(s.rd).drawn = q.rd.drawn
        /\ Released(s.rd).size = q.rd.size /\ Released(s.rd).fill = q.rd.fill
        /\ Released(s.rd).error = q.rd.error
    BY <2>6 DEF Released, Fields
  <2>8. Good(s)
    <3>. SUFFICES ASSUME ~Good(s)  PROVE FALSE  OBVIOUS
    <3>1. o.rd = Told(Released(s.rd))  BY <2>2 DEF read, Out
    <3>. DEFINE t == Released(s.rd)
    <3>2. DOMAIN t = Fields /\ t.error = s.rd.error  BY <2>6, <2>7
    <3>. HIDE DEF t
    <3>3. Told(t).error = t.error  BY <3>2 DEF Told, Fields
    <3>. QED  BY <3>1, <3>2, <3>3 DEF Good, t
  <2>9. Good(q)  BY <2>6, <2>8 DEF Good
  <2>10. Got(q, p, count)  BY <2>4, <2>9, ReadNativeGot
  <2>11. o.rd = Released(s.rd) /\ o.v.bytes = q.v \o tail /\ o.v = [bytes |-> q.v \o tail]
    BY <2>2, <2>6, <2>8 DEF read, Out
  <2>12. Passed(o, p + count)
    <3>1. Stands(q.rd, p + count) /\ q.rd.error = "ok"  BY <2>10 DEF Got
    <3>. QED  BY <2>7, <2>11, <3>1 DEF Passed, Stands
  <2>. DEFINE v == q.v
  <2>13. v \in Seq(Cell) /\ Len(v) = count /\ Yields(v, p, count)  BY <2>10 DEF Got, Yields
  <2>. HIDE DEF v
  <2>14. tail \in Seq(Cell)  BY NulCell
  <2>. HIDE DEF tail
  <2>15. v \o tail \in Seq(Cell) /\ count <= Len(v \o tail) /\ \A i \in 1 .. count : (v \o tail)[i] = v[i]
    BY <2>13, <2>14
  <2>16. Yields(v \o tail, p, count)  BY <2>13, <2>15, Longer
  <2>17. Reads(o, p, count)  BY <2>11, <2>12, <2>16 DEF Reads, v
  <2>. QED  BY <1>3, <2>11, <2>17
<1>. QED  BY <1>2, <1>3

LEMMA BytesInplaceReads ==
    ASSUME NEW r, NEW p, Stands(r, p), r.error = "ok", NEW count \in Nat,
           NEW o \in BytesInplace(r, count), Good(o)
    PROVE  Reads(o, p, count) /\ o.v = [bytes |-> o.v.bytes] /\ Len(o.v.bytes) = count
<1>1. PICK q \in Ensure(r, count) :
        o = IF q.v THEN Out(Take(q.rd, count).rd, [bytes |-> Take(q.rd, count).v]) ELSE Out(q.rd, Null)
  BY DEF BytesInplace
<1>2. DOMAIN q.rd = Fields  BY EnsureKept DEF KeptAll, Kept, Stands
<1>3. Take(q.rd, count).rd.error = q.rd.error  BY <1>2 DEF Take, Out, Fields
<1>4. Good(q)  BY <1>1, <1>3 DEF Good, Out
<1>5. Stands(q.rd, p) /\ InBuffer(q.rd) >= count /\ q.v = TRUE /\ q.rd.error = "ok"
  BY <1>4, EnsureStands
<1>6. count <= InBuffer(q.rd)
  <2>1. InBuffer(q.rd) \in Int  BY <1>5 DEF Stands, InBuffer
  <2>. QED  BY <1>5, <2>1
<1>7. Got(Take(q.rd, count), p, count)  BY <1>5, <1>6, TakeGot
<1>8. /\ o.rd = Take(q.rd, count).rd /\ o.v.bytes = Take(q.rd, count).v
      /\ o.v = [bytes |-> Take(q.rd, count).v]
  BY <1>1, <1>5 DEF Out
<1>. QED  BY <1>7, <1>8 DEF Got, Reads, Passed

LEMMA Utf8InplaceReads ==
    ASSUME NEW r, NEW p, Stands(r, p), r.error = "ok", NEW count \in Nat,
           NEW o \in Utf8Inplace(r, count), Good(o)
    PROVE  Reads(o, p, count)
<1>1. PICK q \in BytesInplace(r, count) :
        o = IF Good(q) /\ ~IsUtf8(q.v.bytes) THEN Refused(q, Null) ELSE q
  BY DEF Utf8Inplace
<1>2. DOMAIN q.rd = Fields  BY BytesInplaceKept DEF KeptAll, Kept, Stands
<1>3. o = q  BY <1>1, <1>2, RefusedBad
<1>. QED  BY <1>3, BytesInplaceReads

-----------------------------------------------------------------------------
(* Tags *)

LEMMA TagSizes == \A tag \in DOMAIN Width : Width[tag] \in Nat /\ TagSize(tag) \in {1 + Width[tag], 2 + Width[tag]}
                                            /\ TagSize(tag) \in Nat /\ TagSize(tag) >= 1
<1>1. \A tag \in DOMAIN Width : Width[tag] \in Nat  BY DEF Width
<1>. QED  BY <1>1 DEF TagSize

(* A tag is what its bytes are, wherever they are *)
LEMMA SameTag ==
    ASSUME NEW b \in Seq(Cell), NEW s \in Seq(Cell), NEW d \in Nat, NEW p \in Nat, NEW size,
           s[p + 1].t \in DOMAIN Width, size = TagSize(s[p + 1].t), d + size <= Len(b), p + size <= Len(s),
           \A i \in 1 .. size : b[d + i] = s[p + i]
    PROVE  ParseTag(b, d + 1) = ParseTag(s, p + 1)
<1>0. PICK w : w = Width[s[p + 1].t]  OBVIOUS
<1>1. w \in Nat /\ size \in {1 + w, 2 + w} /\ size \in Nat /\ size >= 1  BY <1>0, TagSizes
<1>2. b[d + 1] = s[p + 1]  BY <1>1
<1>3. SubSeq(b, (d + 1) + 1, (d + 1) + w) = SubSeq(s, (p + 1) + 1, (p + 1) + w)
  <2>0. PICK x, y : x = d + 1 /\ y = p + 1  OBVIOUS
  <2>1. x \in Nat /\ y \in Nat /\ x + w <= Len(b) /\ y + w <= Len(s)  BY <1>1, <2>0
  <2>2. \A i \in 1 .. w : b[x + i] = s[y + i]
    <3>. SUFFICES ASSUME NEW i \in 1 .. w  PROVE b[x + i] = s[y + i]  OBVIOUS
    <3>1. 1 + i \in 1 .. size /\ d + (1 + i) = x + i /\ p + (1 + i) = y + i  BY <1>1, <2>0
    <3>2. b[d + (1 + i)] = s[p + (1 + i)]  BY <3>1
    <3>. QED  BY <3>1, <3>2
  <2>3. Agree(b, s, x, y, w)  BY <1>1, <2>1, <2>2 DEF Agree
  <2>4. SameBytes(b, s, x, y, w)  BY <2>3, SamePart
  <2>. QED  BY <2>0, <2>4 DEF SameBytes
<1>4. b[(d + 1) + size - 1] = s[(p + 1) + size - 1]
  <2>1. (d + 1) + size - 1 = d + size /\ (p + 1) + size - 1 = p + size /\ size \in 1 .. size
    <3>1. \A x, y \in Nat : (x + 1) + y - 1 = x + y  OBVIOUS
    <3>2. size \in 1 .. size  BY <1>1
    <3>3. size \in Nat  BY <1>1
    <3>. QED  BY <3>1, <3>2, <3>3, Zenon
  <2>. QED  BY <2>1
<1>. QED  BY <1>0, <1>2, <1>3, <1>4 DEF ParseTag

LEMMA ParseKept ==
    ASSUME NEW o, DOMAIN o.rd = Fields
    PROVE  KeptAll(Parse(o), o.rd)
<1>1. Kept(o.rd, o.rd)  BY Stays
<1>2. Kept(FlagError(o.rd, "invalid"), o.rd)  BY FlagKept
<1>3. \A n : \A w \in Ensure(o.rd, n) : Kept(w.rd, o.rd)  BY EnsureKept DEF KeptAll
<1>4. \A p \in Parse(o) :
        \/ p.rd = o.rd \/ p.rd = FlagError(o.rd, "invalid")
        \/ \E w \in Ensure(o.rd, TagSize(o.rd.buffer[o.rd.data + 1].t)) : p.rd = w.rd
  BY DEF Parse, Out
<1>. QED  BY <1>1, <1>2, <1>3, <1>4 DEF KeptAll

(* A call that returns the tag behind the first p bytes *)
Tagged(o, p) ==
    LET size == TagSize(stream[p + 1].t)
    IN  /\ o.v = ParseTag(stream, p + 1)
        /\ p + size <= Len(stream)

LEMMA PeekTagTagged ==
    ASSUME NEW r, NEW p, Stands(r, p), r.error = "ok", p < Len(stream), stream[p + 1].t \in DOMAIN Width,
           NEW o \in PeekTag(r), Good(o)
    PROVE  /\ Stands(o.rd, p) /\ o.rd.error = "ok" /\ InBuffer(o.rd) >= TagSize(stream[p + 1].t)
           /\ Tagged(o, p)
<1>. DEFINE size == TagSize(stream[p + 1].t)
<1>1. PICK q \in Ensure(r, 1) : o \in Parse(q)  BY DEF PeekTag
<1>2. DOMAIN q.rd = Fields  BY EnsureKept DEF KeptAll, Kept, Stands
<1>3. Good(q)
  <2>1. Kept(o.rd, q.rd)  BY <1>1, <1>2, ParseKept DEF KeptAll
  <2>. QED  BY <2>1 DEF Kept, Good
<1>4. Stands(q.rd, p) /\ InBuffer(q.rd) >= 1 /\ q.v = TRUE /\ q.rd.error = "ok"
  BY <1>3, EnsureStands
<1>. DEFINE first == q.rd.buffer[q.rd.data + 1]
            parsed(w) == Out(w.rd, IF w.v THEN ParseTag(w.rd.buffer, w.rd.data + 1) ELSE NilTag)
<1>5. first = stream[p + 1]
  <2>1. 1 \in 1 .. (q.rd.end - q.rd.data)  BY <1>4 DEF InBuffer, Stands
  <2>. QED  BY <1>4, <2>1 DEF Stands
<1>6. Parse(q) = IF first.t = "reserved" THEN {Out(FlagError(q.rd, "invalid"), NilTag)}
                 ELSE {parsed(w) : w \in Ensure(q.rd, TagSize(first.t))}
  BY <1>4 DEF Parse
<1>. HIDE DEF first, parsed
<1>7. first.t # "reserved"
  <2>. SUFFICES ASSUME first.t = "reserved"  PROVE FALSE  OBVIOUS
  <2>1. o = Out(FlagError(q.rd, "invalid"), NilTag)  BY <1>1, <1>6
  <2>. QED  BY <1>2, <2>1, FlagBad DEF Good, Out
<1>8. PICK w \in Ensure(q.rd, size) : o = parsed(w)  BY <1>1, <1>5, <1>6, <1>7
<1>9. o.rd = w.rd /\ o.v = IF w.v THEN ParseTag(w.rd.buffer, w.rd.data + 1) ELSE NilTag
  BY <1>8 DEF parsed, Out
<1>10. size \in Nat  BY TagSizes
<1>. HIDE DEF size
<1>11. Stands(w.rd, p) /\ InBuffer(w.rd) >= size /\ w.v = TRUE /\ w.rd.error = "ok"
  BY <1>4, <1>8, <1>9, <1>10, EnsureStands DEF Good
<1>. DEFINE d == w.rd.data
            e == w.rd.end
            b == w.rd.buffer
<1>12. /\ d \in Nat /\ e \in Nat /\ p \in Nat /\ b \in Seq(Cell) /\ stream \in Seq(Cell)
       /\ e <= Len(b) /\ d <= e /\ w.rd.drawn <= Len(stream) /\ p + (e - d) = w.rd.drawn /\ w.rd.drawn \in Nat
       /\ e - d >= size /\ \A i \in 1 .. (e - d) : b[d + i] = stream[p + i]
  BY <1>11 DEF Stands, InBuffer
<1>. HIDE DEF d, e, b
<1>13. d + size <= Len(b) /\ p + size <= Len(stream)  BY <1>10, <1>12
<1>14. \A i \in 1 .. size : b[d + i] = stream[p + i]
  <2>1. \A i \in 1 .. size : i \in 1 .. (e - d)  BY <1>10, <1>12
  <2>. QED  BY <1>12, <2>1
<1>15. ParseTag(b, d + 1) = ParseTag(stream, p + 1)
  BY <1>12, <1>13, <1>14, SameTag DEF size
<1>. QED  BY <1>9, <1>11, <1>13, <1>15 DEF Tagged, size, b, d

(* A tag is only read where there is one *)
LEMMA PeekTagWithin ==
    ASSUME NEW r, NEW p, Stands(r, p), r.error = "ok", NEW o \in PeekTag(r), Good(o)
    PROVE  p < Len(stream)
<1>1. PICK q \in Ensure(r, 1) : o \in Parse(q)  BY DEF PeekTag
<1>2. DOMAIN q.rd = Fields  BY EnsureKept DEF KeptAll, Kept, Stands
<1>3. Good(q)
  <2>1. Kept(o.rd, q.rd)  BY <1>1, <1>2, ParseKept DEF KeptAll
  <2>. QED  BY <2>1 DEF Kept, Good
<1>4. Stands(q.rd, p) /\ InBuffer(q.rd) >= 1  BY <1>3, EnsureStands
<1>. DEFINE d == q.rd.data
            e == q.rd.end
            n == q.rd.drawn
            l == Len(stream)
<1>5. d \in Nat /\ e \in Nat /\ n \in Nat /\ l \in Nat /\ n <= l /\ p \in Nat /\ p + (e - d) = n /\ e - d >= 1
  BY <1>4 DEF Stands, InBuffer
<1>. HIDE DEF d, e, n, l
<1>6. p < l  BY <1>5
<1>. QED  BY <1>6 DEF l

LEMMA ReadTagTagged ==
    ASSUME NEW r, NEW p, Stands(r, p), r.error = "ok", p < Len(stream), stream[p + 1].t \in DOMAIN Width,
           NEW o \in ReadTag(r), Good(o)
    PROVE  Passed(o, p + TagSize(stream[p + 1].t)) /\ Tagged(o, p)
<1>. DEFINE size == TagSize(stream[p + 1].t)
<1>1. PICK q \in PeekTag(r) : o = IF Good(q) THEN Out([q.rd EXCEPT !.data = @ + TagSize(q.v.tag)], q.v) ELSE q
  BY DEF ReadTag
<1>2. Good(q)  BY <1>1
<1>3. /\ Stands(q.rd, p) /\ q.rd.error = "ok" /\ InBuffer(q.rd) >= size /\ Tagged(q, p)
  BY <1>2, PeekTagTagged
<1>4. TagSize(q.v.tag) = size  BY <1>3 DEF Tagged, ParseTag
<1>5. o.rd = [q.rd EXCEPT !.data = @ + size] /\ o.v = q.v  BY <1>1, <1>2, <1>4 DEF Out
<1>6. size \in Nat  BY TagSizes
<1>. HIDE DEF size
<1>7. size <= InBuffer(q.rd)
  <2>1. InBuffer(q.rd) \in Int  BY <1>3 DEF Stands, InBuffer
  <2>. QED  BY <1>3, <1>6, <2>1
<1>8. Got(Take(q.rd, size), p, size)  BY <1>3, <1>6, <1>7, TakeGot
<1>9. Take(q.rd, size).rd = o.rd  BY <1>5 DEF Take, Out
<1>10. Tagged(o, p)  BY <1>3, <1>5 DEF Tagged
<1>. QED  BY <1>8, <1>9, <1>10 DEF Got, Passed, size

LEMMA ReadTagWithin ==
    ASSUME NEW r, NEW p, Stands(r, p), r.error = "ok", NEW o \in ReadTag(r), Good(o)
    PROVE  p < Len(stream)
<1>1. PICK q \in PeekTag(r) : o = IF Good(q) THEN Out([q.rd EXCEPT !.data = @ + TagSize(q.v.tag)], q.v) ELSE q
  BY DEF ReadTag
<1>2. Good(q)  BY <1>1
<1>. QED  BY <1>2, PeekTagWithin

LEMMA DiscardOnePassed ==
    ASSUME NEW r, NEW p, Stands(r, p), r.error = "ok", p < Len(stream), stream[p + 1].t \in DOMAIN Width,
           Elements(stream), NEW o \in DiscardOne(r), Good(o)
    PROVE  LET size == TagSize(stream[p + 1].t)
               rest == Contents(ParseTag(stream, p + 1))
           IN  rest \in Nat /\ Begins(stream, p + size + rest) /\ Passed(o, p + size + rest)
<1>. DEFINE size == TagSize(stream[p + 1].t)
            rest == Contents(ParseTag(stream, p + 1))
<1>0. PICK q \in ReadTag(r) : \E s \in SkipBytes(q.rd, Contents(q.v)) : o = Out(s.rd, Inside(q.v))
  BY DEF DiscardOne
<1>1. PICK s \in SkipBytes(q.rd, Contents(q.v)) : o = Out(s.rd, Inside(q.v))
  BY <1>0
<1>2. Good(s)  BY <1>1 DEF Good, Out
<1>3. Good(q)
  <2>. SUFFICES ASSUME ~Good(q)  PROVE FALSE  OBVIOUS
  <2>1. s = Out(q.rd, Null)  BY <1>1 DEF Good, SkipBytes
  <2>. QED  BY <1>2, <2>1 DEF Good, Out
<1>4. Passed(q, p + size) /\ Tagged(q, p)  BY <1>3, ReadTagTagged
<1>5. Contents(q.v) = rest /\ p + size <= Len(stream)  BY <1>4 DEF Tagged
<1>6. rest \in Nat /\ Begins(stream, p + size + rest)
  <2>1. p \in 0 .. Len(stream) - 1  BY DEF Stands
  <2>. QED  BY <1>5, <2>1 DEF Elements
<1>. HIDE DEF rest, size
<1>7. Passed(s, p + size + rest)
  BY <1>1, <1>2, <1>4, <1>5, <1>6, SkipBytesPassed DEF Passed
<1>. QED  BY <1>1, <1>6, <1>7 DEF Passed, Out, size, rest

LEMMA ReadTimestampPassed ==
    ASSUME NEW r, NEW p, Stands(r, p), r.error = "ok", NEW size \in Nat,
           NEW o \in ReadTimestamp(r, size), Good(o)
    PROVE  Passed(o, p + size)
<1>0. DOMAIN r = Fields  BY DEF Stands
<1>1. ~Good(Out(FlagError(r, "invalid"), [time |-> NoTime]))  BY <1>0, FlagBad DEF Good, Out
<1>2. PICK q \in ReadNative(r, size) : o = Stamp(q)  BY <1>1 DEF ReadTimestamp
<1>3. DOMAIN q.rd = Fields  BY <1>0, ReadNativeKept DEF KeptAll, Kept
<1>4. FlagError(q.rd, "invalid").error # "ok"  BY <1>3, FlagBad
<1>5. o.rd = q.rd \/ o.rd = FlagError(q.rd, "invalid")  BY <1>2 DEF Stamp, Out
<1>6. o.rd = q.rd /\ Good(q)  BY <1>4, <1>5 DEF Good
<1>7. Got(q, p, size)  BY <1>2, <1>6, ReadNativeGot
<1>. QED  BY <1>6, <1>7 DEF Got, Passed

-----------------------------------------------------------------------------
(* The order of the bytes *)

Same(v, p, count) == SubSeq(v, 1, count) = SubSeq(stream, p + 1, p + count)

LEMMA YieldsSame ==
    ASSUME stream \in Seq(Cell), NEW v, NEW p, NEW count, Yields(v, p, count)
    PROVE  Same(v, p, count)
<1>. DEFINE x == SubSeq(v, 1, count)
            y == SubSeq(stream, p + 1, p + count)
<1>0. /\ v \in Seq(Cell) /\ count \in Nat /\ p \in Nat /\ count <= Len(v) /\ p + count <= Len(stream)
      /\ \A i \in 1 .. count : v[i] = stream[p + i]
  BY DEF Yields
<1>1. x \in Seq(Cell) /\ Len(x) = count /\ \A i \in 1 .. count : x[i] = v[i]
  BY <1>0, Prefix, Zenon
<1>2. y \in Seq(Cell) /\ Len(y) = count /\ \A i \in 1 .. count : y[i] = stream[p + i]
  <2>1. stream \in Seq(Cell) /\ p \in Nat /\ count \in Nat /\ p + count <= Len(stream)  BY <1>0
  <2>. QED  BY <2>1, <1>0, Part
<1>. HIDE DEF x, y
<1>3. x = y  BY <1>0, <1>1, <1>2, SameSeq
<1>. QED  BY <1>3 DEF x, y, Same

(* What call f says of the stream behind p bytes *)
Says(f, num, v, p) ==
    /\ f \in {"read_bytes", "read_cstr", "remaining"} /\ v # Null => Same(v.bytes, p, num)
    /\ f = "read_tag" => v.tag = ParseTag(stream, p + 1)

(* The inductive invariant: until there is an error, the reader stands behind *)
(* the bytes that were read, and behind those to come an element begins      *)
Ordered ==
    /\ stream \in Streams
    /\ rd.error = "ok" => /\ Stands(rd, pos) /\ left \in Nat /\ Begins(stream, pos + left)
                          /\ Says(asked.f, asked.num, result, asked.from)

(* The calls that succeed, none of them after an error *)
Follows(f, num, o, bytes, after) ==
    /\ rd.error = "ok" /\ Passed(o, pos + bytes) /\ Says(f, num, o.v, pos)
    /\ after \in Nat /\ Begins(stream, pos + bytes + after)
Orderly(f, num, outcomes, bytes, after) ==
    \A o \in outcomes : Good(o) => Follows(f, num, o, bytes, after)

LEMMA DoOrdered ==
    ASSUME Ordered, NEW f, NEW num, NEW outcomes, NEW bytes, NEW after,
           Do(f, num, outcomes, bytes, after), Orderly(f, num, outcomes, bytes, after)
    PROVE  Ordered'
<1>1. PICK o \in outcomes : /\ rd' = o.rd /\ result' = o.v
                            /\ pos' = IF Good(o) THEN pos + bytes ELSE pos
                            /\ left' = IF Good(o) THEN after ELSE left
  BY DEF Do
<1>2. stream' = stream /\ asked' = [f |-> f, num |-> num, from |-> pos]  BY DEF Do
<1>3. stream' \in Streams  BY <1>2 DEF Ordered
<1>4. CASE ~Good(o)  BY <1>1, <1>3, <1>4 DEF Ordered, Good
<1>5. CASE Good(o)
  <2>1. Follows(f, num, o, bytes, after)  BY <1>1, <1>5 DEF Orderly
  <2>2. pos' = pos + bytes /\ left' = after  BY <1>1, <1>5
  <2>3. Stands(rd, pos)'  BY <1>1, <1>2, <2>1, <2>2 DEF Follows, Passed, Stands
  <2>4. Begins(stream, pos + left)'  BY <1>2, <2>1, <2>2 DEF Follows, Begins
  <2>5. Says(asked.f, asked.num, result, asked.from)'
    BY <1>1, <1>2, <2>1 DEF Follows, Says, Same
  <2>6. left' \in Nat  BY <2>1, <2>2 DEF Follows
  <2>. QED  BY <1>3, <2>3, <2>4, <2>5, <2>6 DEF Ordered
<1>. QED  BY <1>4, <1>5

(* The bytes of a string, blob or ext *)
LEMMA ReadsFollow ==
    ASSUME Ordered, rd.error = "ok", NEW f \in {"read_bytes", "read_cstr"}, NEW n \in Nat, n <= left,
           NEW o, Reads(o, pos, n)
    PROVE  Follows(f, n, o, n, left - n)
<1>1. Stands(rd, pos) /\ left \in Nat /\ Begins(stream, pos + left)  BY DEF Ordered
<1>2. pos \in Nat /\ stream \in Seq(Cell)  BY <1>1 DEF Stands
<1>3. left - n \in Nat /\ pos + n + (left - n) = pos + left  BY <1>1, <1>2
<1>4. o.v # Null => Same(o.v.bytes, pos, n)  BY <1>2, YieldsSame DEF Reads
<1>5. Says(f, n, o.v, pos)  BY <1>4 DEF Says
<1>6. Begins(stream, pos + n + (left - n))  BY <1>1, <1>3, Zenon
<1>. QED  BY <1>3, <1>5, <1>6 DEF Follows, Reads

LEMMA PassedFollows ==
    ASSUME Ordered, rd.error = "ok", NEW f \in {"skip", "read_timestamp"}, NEW n \in Nat, n <= left,
           NEW o, Passed(o, pos + n)
    PROVE  Follows(f, n, o, n, left - n)
<1>1. Stands(rd, pos) /\ left \in Nat /\ Begins(stream, pos + left)  BY DEF Ordered
<1>2. pos \in Nat  BY <1>1 DEF Stands
<1>3. left - n \in Nat /\ pos + n + (left - n) = pos + left  BY <1>1, <1>2
<1>5. Says(f, n, o.v, pos)  BY DEF Says
<1>6. Begins(stream, pos + n + (left - n))  BY <1>1, <1>3, Zenon
<1>. QED  BY <1>3, <1>5, <1>6 DEF Follows

(* The reader finds an element where one begins *)
LEMMA AtTag ==
    ASSUME Ordered, rd.error = "ok", left = 0, pos < Len(stream)
    PROVE  /\ Elements(stream) /\ stream[pos + 1].t \in DOMAIN Width
           /\ pos \in Nat /\ pos \in 0 .. Len(stream) - 1
<1>1. Stands(rd, pos) /\ Begins(stream, pos + left)  BY DEF Ordered
<1>2. pos \in Nat /\ pos + left = pos  BY <1>1 DEF Stands
<1>3. Begins(stream, pos)  BY <1>1, <1>2
<1>4. stream[pos + 1].t \in DOMAIN Width  BY <1>3 DEF Begins
<1>5. Elements(stream)  BY StreamsAssumption DEF Ordered
<1>6. pos \in 0 .. Len(stream) - 1  BY <1>1, <1>2 DEF Stands
<1>. QED  BY <1>2, <1>4, <1>5, <1>6

-----------------------------------------------------------------------------
(* The actions *)

LEMMA ReadOrdered == ASSUME Ordered, Fair(rd), Read  PROVE Ordered'
<1>. DEFINE size == TagSize(First_.t)
            tag == ParseTag(stream, pos + 1)
<1>0. DOMAIN rd = Fields  BY DEF Fair
<1>1. ASSUME NEW q \in ReadTag(rd), Good(q)
      PROVE  Follows("read_tag", 0, Out(q.rd, [tag |-> q.v]), size, Contents(tag))
  <2>1. rd.error = "ok"  BY <1>0, <1>1, ReadTagKept DEF KeptAll, Kept, Good
  <2>2. /\ Elements(stream) /\ stream[pos + 1].t \in DOMAIN Width
        /\ pos \in Nat /\ pos \in 0 .. Len(stream) - 1 /\ pos < Len(stream)
    BY <2>1, AtTag DEF Read, AtElement
  <2>3. Stands(rd, pos)  BY <2>1 DEF Ordered
  <2>4. Passed(q, pos + size) /\ Tagged(q, pos)  BY <1>1, <2>1, <2>2, <2>3, ReadTagTagged DEF First_
  <2>5. q.v = tag /\ pos + size <= Len(stream)  BY <2>4 DEF Tagged, First_
  <2>6. Contents(tag) \in Nat /\ Begins(stream, pos + size + Contents(tag))
    BY <2>2, <2>5 DEF Elements, First_
  <2>. HIDE DEF size, tag
  <2>7. Says("read_tag", 0, [tag |-> q.v], pos)  BY <2>5 DEF Says, tag
  <2>. QED  BY <2>1, <2>4, <2>6, <2>7 DEF Follows, Passed, Out
<1>2. Orderly("read_tag", 0, Tags(ReadTag(rd)), size, Contents(tag))
  BY <1>1 DEF Orderly, Tags, Out, Good
<1>3. Do("read_tag", 0, Tags(ReadTag(rd)), size, Contents(tag))  BY DEF Read
<1>. QED  BY <1>2, <1>3, DoOrdered

LEMMA PeekOrdered == ASSUME Ordered, Fair(rd), Peek  PROVE Ordered'
<1>0. DOMAIN rd = Fields  BY DEF Fair
<1>1. ASSUME NEW q \in PeekTag(rd), Good(q)
      PROVE  Follows("read_tag", 0, Out(q.rd, [tag |-> q.v]), 0, 0)
  <2>1. rd.error = "ok"  BY <1>0, <1>1, PeekTagKept DEF KeptAll, Kept, Good
  <2>2. stream[pos + 1].t \in DOMAIN Width /\ pos \in Nat /\ pos < Len(stream) /\ left = 0
    BY <2>1, AtTag DEF Peek, AtElement
  <2>3. Stands(rd, pos) /\ Begins(stream, pos + left)  BY <2>1 DEF Ordered
  <2>4. Stands(q.rd, pos) /\ q.rd.error = "ok" /\ Tagged(q, pos)
    BY <1>1, <2>1, <2>2, <2>3, PeekTagTagged
  <2>5. q.v = ParseTag(stream, pos + 1)  BY <2>4 DEF Tagged
  <2>6. Says("read_tag", 0, [tag |-> q.v], pos)  BY <2>5 DEF Says
  <2>7. pos + 0 = pos /\ pos + 0 + 0 = pos /\ pos + left = pos  BY <2>2
  <2>. QED  BY <2>1, <2>3, <2>4, <2>6, <2>7 DEF Follows, Passed, Out
<1>2. Orderly("read_tag", 0, Tags(PeekTag(rd)), 0, 0)
  BY <1>1 DEF Orderly, Tags, Out, Good
<1>3. Do("read_tag", 0, Tags(PeekTag(rd)), 0, 0)  BY DEF Peek
<1>. QED  BY <1>2, <1>3, DoOrdered

(* A call that succeeds is none after an error *)
Sound(outcomes) == \A o \in outcomes : Good(o) => rd.error = "ok"

LEMMA KeptSound == ASSUME NEW outcomes, KeptAll(outcomes, rd)  PROVE Sound(outcomes)
BY DEF KeptAll, Kept, Sound, Good

LEMMA ReadPartOrdered == ASSUME Ordered, Fair(rd), ReadPart  PROVE Ordered'
<1>0. DOMAIN rd = Fields  BY DEF Fair
<1>1. PICK n \in 0 .. left :
         \/ Do("read_bytes", n, ReadBytes(rd, n), n, left - n)
         \/ Do("read_bytes", n, BytesInplace(rd, n), n, left - n)
         \/ Do("skip", n, SkipBytes(rd, n), n, left - n)
         \/ \E t \in BOOLEAN : Do("read_bytes", n, BytesAlloc(rd, n, t), n, left - n)
  BY DEF ReadPart
<1>2. rd.error = "ok" => Stands(rd, pos) /\ left \in Nat  BY DEF Ordered
<1>3. rd.error = "ok" => n \in Nat /\ n <= left  BY <1>2
<1>4. Sound(ReadBytes(rd, n)) /\ Sound(BytesInplace(rd, n)) /\ Sound(SkipBytes(rd, n))
  BY <1>0, ReadBytesKept, BytesInplaceKept, SkipBytesKept, KeptSound
<1>5. \A t : Sound(BytesAlloc(rd, n, t))
  <2>. SUFFICES ASSUME NEW t, rd.error # "ok"  PROVE Sound(BytesAlloc(rd, n, t))  BY DEF Sound
  <2>1. BytesAlloc(rd, n, t) = {Out(rd, Null)}  BY DEF BytesAlloc
  <2>. QED  BY <2>1 DEF Sound, Good, Out
<1>6. Orderly("read_bytes", n, ReadBytes(rd, n), n, left - n)
  BY <1>2, <1>3, <1>4, ReadBytesReads, ReadsFollow DEF Orderly, Sound
<1>7. Orderly("read_bytes", n, BytesInplace(rd, n), n, left - n)
  BY <1>2, <1>3, <1>4, BytesInplaceReads, ReadsFollow DEF Orderly, Sound
<1>8. Orderly("skip", n, SkipBytes(rd, n), n, left - n)
  BY <1>2, <1>3, <1>4, SkipBytesPassed, PassedFollows DEF Orderly, Sound
<1>9. \A t \in BOOLEAN : Orderly("read_bytes", n, BytesAlloc(rd, n, t), n, left - n)
  BY <1>2, <1>3, <1>5, BytesAllocReads, ReadsFollow DEF Orderly, Sound
<1>. QED  BY <1>1, <1>6, <1>7, <1>8, <1>9, DoOrdered

LEMMA ReadTextOrdered == ASSUME Ordered, Fair(rd), ReadText  PROVE Ordered'
<1>0. DOMAIN rd = Fields  BY DEF Fair
<1>1. rd.error = "ok" => Stands(rd, pos) /\ left \in Nat /\ left + 1 \in Nat /\ left <= left /\ left - left = 0
  BY DEF Ordered
<1>2. Sound(ReadUtf8(rd, left)) /\ Sound(Utf8Inplace(rd, left)) /\ Sound(ReadTimestamp(rd, left))
  BY <1>0, ReadUtf8Kept, Utf8InplaceKept, ReadTimestampKept, KeptSound
<1>3. \A size, utf8 : Sound(ReadCstr(rd, size, left, utf8))
  BY <1>0, ReadCstrKept, KeptSound
<1>4. Orderly("read_bytes", left, ReadUtf8(rd, left), left, 0)
  BY <1>1, <1>2, ReadUtf8Reads, ReadsFollow DEF Orderly, Sound
<1>5. Orderly("read_bytes", left, Utf8Inplace(rd, left), left, 0)
  BY <1>1, <1>2, Utf8InplaceReads, ReadsFollow DEF Orderly, Sound
<1>6. \A size \in {left, left + 1}, utf8 \in BOOLEAN :
         Orderly("read_cstr", left, ReadCstr(rd, size, left, utf8), left, 0)
  BY <1>1, <1>3, ReadCstrReads, ReadsFollow DEF Orderly, Sound
<1>7. Orderly("read_timestamp", left, ReadTimestamp(rd, left), left, 0)
  BY <1>1, <1>2, ReadTimestampPassed, PassedFollows DEF Orderly, Sound
<1>8. \/ Do("read_bytes", left, ReadUtf8(rd, left), left, 0)
      \/ Do("read_bytes", left, Utf8Inplace(rd, left), left, 0)
      \/ \E size \in {left, left + 1}, utf8 \in BOOLEAN :
            Do("read_cstr", left, ReadCstr(rd, size, left, utf8), left, 0)
      \/ Do("read_timestamp", left, ReadTimestamp(rd, left), left, 0)
  BY DEF ReadText
<1>. QED  BY <1>4, <1>5, <1>6, <1>7, <1>8, DoOrdered

LEMMA DiscardOrdered == ASSUME Ordered, Fair(rd), Discard  PROVE Ordered'
<1>. DEFINE size == TagSize(First_.t)
            rest == Contents(ParseTag(stream, pos + 1))
<1>0. DOMAIN rd = Fields  BY DEF Fair
<1>1. PICK o \in DiscardOne(rd) : rd' = o.rd /\ pos' = IF Good(o) THEN pos + size + rest ELSE pos
  BY DEF Discard
<1>2. /\ stream' = stream /\ left' = left /\ left = 0
      /\ asked' = [f |-> "discard", num |-> 0, from |-> pos]
  BY DEF Discard
<1>3. stream' \in Streams  BY <1>2 DEF Ordered
<1>4. CASE ~Good(o)  BY <1>1, <1>3, <1>4 DEF Ordered, Good
<1>5. CASE Good(o)
  <2>1. rd.error = "ok"  BY <1>0, <1>5, DiscardOneKept DEF KeptAll, Kept, Good
  <2>3. Stands(rd, pos)  BY <2>1 DEF Ordered
  <2>0. pos < Len(stream)
    <3>1. PICK q \in ReadTag(rd) : \E t \in SkipBytes(q.rd, Contents(q.v)) : o = Out(t.rd, Inside(q.v))
      BY DEF DiscardOne
    <3>2. DOMAIN q.rd = Fields  BY <1>0, ReadTagKept DEF KeptAll, Kept
    <3>3. PICK t \in SkipBytes(q.rd, Contents(q.v)) : o = Out(t.rd, Inside(q.v))  BY <3>1
    <3>4. Kept(t.rd, q.rd)  BY <3>2, SkipBytesKept DEF KeptAll
    <3>5. Good(q)  BY <1>5, <3>3, <3>4 DEF Good, Kept, Out
    <3>. QED  BY <2>1, <2>3, <3>5, ReadTagWithin
  <2>2. Elements(stream) /\ stream[pos + 1].t \in DOMAIN Width /\ pos \in Nat
    BY <1>2, <2>0, <2>1, AtTag
  <2>4. rest \in Nat /\ Begins(stream, pos + size + rest) /\ Passed(o, pos + size + rest)
    BY <1>5, <2>0, <2>1, <2>2, <2>3, DiscardOnePassed DEF First_
  <2>5. size \in Nat  BY <2>2, TagSizes DEF First_
  <2>. HIDE DEF size, rest
  <2>6. pos' = pos + size + rest /\ pos' + left' = pos + size + rest
    BY <1>1, <1>2, <1>5, <2>2, <2>4, <2>5
  <2>7. Stands(rd, pos)'  BY <1>1, <1>2, <2>4, <2>6 DEF Passed, Stands
  <2>8. Begins(stream, pos + left)'  BY <1>2, <2>4, <2>6 DEF Begins
  <2>9. Says(asked.f, asked.num, result, asked.from)'  BY <1>2 DEF Says
  <2>10. left' \in Nat  BY <1>2
  <2>. QED  BY <1>3, <2>7, <2>8, <2>9, <2>10 DEF Ordered
<1>. QED  BY <1>4, <1>5

LEMMA RemainingOrdered == ASSUME Ordered, Fair(rd), Remaining  PROVE Ordered'
<1>. DEFINE n == InBuffer(rd)
            o == Out(rd, [bytes |-> IF rd.error = "ok" THEN Take(rd, n).v ELSE << >>])
<1>1. ASSUME Good(o)  PROVE Follows("remaining", n, o, 0, left)
  <2>1. rd.error = "ok"  BY <1>1 DEF Good, Out
  <2>2. Stands(rd, pos) /\ left \in Nat /\ Begins(stream, pos + left)  BY <2>1 DEF Ordered
  <2>3. n \in Nat /\ n <= n /\ pos \in Nat /\ stream \in Seq(Cell)  BY <2>2 DEF Stands, InBuffer
  <2>. HIDE DEF n
  <2>4. Got(Take(rd, n), pos, n)  BY <2>1, <2>2, <2>3, TakeGot DEF n
  <2>5. Same(Take(rd, n).v, pos, n)  BY <2>3, <2>4, YieldsSame DEF Got
  <2>6. o.v.bytes = Take(rd, n).v /\ o.rd = rd  BY <2>1 DEF Out
  <2>. HIDE DEF o
  <2>7. Says("remaining", n, o.v, pos)  BY <2>5, <2>6 DEF Says
  <2>8. pos + 0 = pos /\ pos + 0 + left = pos + left  BY <2>2, <2>3
  <2>. QED  BY <2>1, <2>2, <2>6, <2>7, <2>8 DEF Follows, Passed
<1>2. Do("remaining", n, {o}, 0, left)  BY DEF Remaining
<1>. HIDE DEF o, n
<1>3. Orderly("remaining", n, {o}, 0, left)  BY <1>1 DEF Orderly
<1>. QED  BY <1>2, <1>3, DoOrdered

LEMMA RejectOrdered == ASSUME Ordered, Fair(rd), Reject  PROVE Ordered'
<1>1. ~Good(Out(FlagError(rd, "data"), Null))  BY FlagBad DEF Good, Out, Fair
<1>2. Orderly("flag_error", 0, {Out(FlagError(rd, "data"), Null)}, 0, 0)  BY <1>1 DEF Orderly
<1>. QED  BY <1>2, DoOrdered DEF Reject

LEMMA NextOrdered == ASSUME Ordered, Fair(rd), [Next]_vars  PROVE Ordered'
<1>1. CASE UNCHANGED vars  BY <1>1 DEF vars, Ordered, Stands, Begins, Says, Same
<1>. QED  BY <1>1, ReadOrdered, PeekOrdered, ReadPartOrdered, ReadTextOrdered, DiscardOrdered,
             RemainingOrdered, RejectOrdered DEF Next

LEMMA PaddedCells ==
    ASSUME NEW v \in Seq(Cell), NEW size \in Nat, Len(v) <= size
    PROVE  /\ Padded(v, size) \in Seq(Cell) /\ Len(Padded(v, size)) = size
           /\ \A i \in 1 .. Len(v) : Padded(v, size)[i] = v[i]
<1>. DEFINE cell(i) == IF i <= Len(v) THEN v[i] ELSE Stale
<1>1. Padded(v, size) = [i \in 1 .. size |-> cell(i)]  BY DEF Padded
<1>2. \A i \in 1 .. size : cell(i) \in Cell  BY NulCell
<1>3. \A i \in 1 .. Len(v) : cell(i) = v[i]  OBVIOUS
<1>. HIDE DEF cell
<1>4. Padded(v, size) \in Seq(Cell) /\ Len(Padded(v, size)) = size  BY <1>1, <1>2
<1>5. \A i \in 1 .. Len(v) : Padded(v, size)[i] = cell(i)  BY <1>1
<1>. QED  BY <1>3, <1>4, <1>5

LEMMA SeqMonotonic == ASSUME NEW A, NEW B, A \subseteq B, NEW s \in Seq(A)  PROVE s \in Seq(B)
OBVIOUS

LEMMA InitOrdered == Init => Ordered
<1>. SUFFICES ASSUME Init  PROVE Ordered  OBVIOUS
<1>0. PICK setup \in Setups(stream) : rd = New(setup)  BY DEF Init
<1>. DEFINE size == setup.size
            memory == size = 0
            held == IF memory \/ setup.count > Len(stream) THEN Len(stream) ELSE setup.count
            cells == IF memory THEN stream ELSE Padded(SubSeq(stream, 1, held), size)
            plain == [buffer |-> cells, data |-> 0, end |-> held, drawn |-> held, size |-> size,
                      fill |-> FALSE, skip |-> setup.skip,
                      fn |-> TRUE, error |-> "ok", told |-> << >>, held |-> FALSE]
<1>1. stream \in Streams /\ Elements(stream)  BY StreamsAssumption DEF Init
<1>2. stream \in Seq(Cell) /\ Begins(stream, 0)
  <2>1. stream \in Seq(StreamCell) /\ Begins(stream, 0)  BY <1>1 DEF Elements, StreamCell
  <2>2. StreamCell \subseteq Cell  BY BaseAssumption DEF Cell, StreamCell
  <2>. QED  BY <2>1, <2>2, SeqMonotonic
<1>3. size \in Nat /\ setup.count \in 0 .. size  BY <1>1, SetupsAssumption
<1>. HIDE DEF size
<1>4. held \in Nat /\ held <= Len(stream) /\ (~memory => held <= size)  BY <1>2, <1>3
<1>. HIDE DEF held
<1>5. /\ cells \in Seq(Cell) /\ held <= Len(cells) /\ (~memory => Len(cells) = size)
      /\ \A i \in 1 .. held : cells[i] = stream[i]
  <2>1. CASE memory  BY <1>2, <1>4, <2>1
  <2>2. CASE ~memory
    <3>. DEFINE v == SubSeq(stream, 1, held)
    <3>1. v \in Seq(Cell) /\ Len(v) = held /\ \A i \in 1 .. held : v[i] = stream[i]
      BY <1>2, <1>4, Prefix, Zenon
    <3>2. cells = Padded(v, size)  BY <2>2
    <3>. HIDE DEF v, cells
    <3>3. /\ Padded(v, size) \in Seq(Cell) /\ Len(Padded(v, size)) = size
          /\ \A i \in 1 .. Len(v) : Padded(v, size)[i] = v[i]
      BY <1>3, <1>4, <2>2, <3>1, PaddedCells
    <3>. QED  BY <1>4, <2>2, <3>1, <3>2, <3>3
  <2>. QED  BY <2>1, <2>2
<1>. HIDE DEF cells
<1>6. New(setup) = IF ~setup.fill THEN plain
                   ELSE IF size < MinSize THEN FlagError(plain, "bug")
                   ELSE [plain EXCEPT !.fill = TRUE]
  BY DEF New, size, held, cells
<1>7. DOMAIN plain = Fields /\ Stands(plain, 0)
  BY <1>2, <1>4, <1>5 DEF Stands, Fields
<1>8. size >= MinSize => Stands([plain EXCEPT !.fill = TRUE], 0)
  <2>1. size >= MinSize => ~memory /\ size >= 1  BY <1>3, SizesAssumption
  <2>. QED  BY <1>2, <1>4, <1>5, <2>1 DEF Stands, Fields
<1>9. FlagError(plain, "bug").error # "ok"  BY <1>7, FlagBad
<1>10. rd.error = "ok" => Stands(rd, 0)
  <2>1. size < MinSize \/ size >= MinSize  BY <1>3, SizesAssumption
  <2>. HIDE DEF plain
  <2>. QED  BY <1>0, <1>6, <1>7, <1>8, <1>9, <2>1
<1>11. pos = 0 /\ left = 0 /\ asked.f = "none"  BY DEF Init, NoCall
<1>. QED  BY <1>1, <1>2, <1>10, <1>11 DEF Ordered, Says

LEMMA OrderedInOrder == Ordered => InOrder
<1>. SUFFICES ASSUME Ordered, rd.error = "ok"  PROVE InOrder  BY DEF InOrder
<1>. DEFINE n == InBuffer(rd)
<1>1. Stands(rd, pos) /\ Says(asked.f, asked.num, result, asked.from)  BY DEF Ordered
<1>2. stream \in Seq(Cell) /\ n \in Nat /\ n <= n /\ pos \in Nat /\ pos + n = rd.drawn
  BY <1>1 DEF Stands, InBuffer
<1>. HIDE DEF n
<1>3. Got(Take(rd, n), pos, n)  BY <1>1, <1>2, TakeGot DEF n
<1>4. Same(Take(rd, n).v, pos, n) /\ Len(Take(rd, n).v) = n /\ Take(rd, n).v \in Seq(Cell)
  BY <1>2, <1>3, YieldsSame DEF Got, Yields
<1>5. Take(rd, n).v = SubSeq(stream, pos + 1, pos + n)
  <2>. DEFINE v == Take(rd, n).v
  <2>. HIDE DEF v
  <2>1. v \in Seq(Cell) /\ Len(v) = n /\ SubSeq(v, 1, n) = SubSeq(stream, pos + 1, pos + n)
    BY <1>4 DEF v, Same
  <2>2. SubSeq(v, 1, n) = v  BY <1>2, <2>1
  <2>. QED  BY <2>1, <2>2 DEF v
<1>. QED  BY <1>1, <1>2, <1>5 DEF InOrder, Says, Same, n

(* Bytes are read in the order of the stream, each once: whatever pieces   *)
(* the source delivers, and wherever a string lies, a call yields the      *)
(* bytes that follow those of the calls before, and the buffer holds the   *)
(* next ones (reader.c:217-560).                                           *)
THEOREM ReadInOrder == ReaderSpec => []InOrder
<1>. DEFINE Inv == Ordered /\ Fair(rd)
<1>1. Init => Inv  BY InitOrdered, InitFair DEF IInv
<1>2. Inv /\ [Next]_vars => Inv'  BY NextOrdered, NextFair DEF IInv
<1>. HIDE DEF Inv
<1>3. Inv => InOrder  BY OrderedInOrder DEF Inv
<1>. QED  BY <1>1, <1>2, <1>3, PTL DEF ReaderSpec

-----------------------------------------------------------------------------
(* Why a call fails, and that nothing is read any more when it has *)

Halted(s) ==
    /\ s.error # "ok" /\ s.end = s.data /\ s.data \in Nat
    /\ DOMAIN s = Fields /\ s = [x \in Fields |-> s[x]]

(* The source fails before it is drawn that far, the message is at its     *)
(* end, or the buffer is too small                                         *)
Starved(s, to) == Halted(s) /\ s.fill /\ s.error \in FillErrors /\ s.drawn \in Nat /\ to > s.drawn
Cut(s, p, n) == Halted(s) /\ ~s.fill /\ s.error = "invalid" /\ s.drawn \in Nat /\ p + n > s.drawn
TooBig(s, n) == Halted(s) /\ s.fill /\ s.error = "too_big" /\ s.size \in Nat /\ n > s.size
Lacks(s, p, n) == Starved(s, p + n) \/ Cut(s, p, n)
Refuses(s, e) == Halted(s) /\ s.error = e

LEMMA FlagFields ==
    ASSUME NEW r, DOMAIN r = Fields, r.error = "ok", NEW e
    PROVE  LET s == FlagError(r, e)
           IN  /\ s.error = e /\ s.end = r.data /\ s.data = r.data /\ s.drawn = r.drawn
               /\ s.fill = r.fill /\ s.size = r.size /\ DOMAIN s = Fields
               /\ s = [x \in Fields |-> s[x]]
BY DEF FlagError, Fields

LEMMA FlagHalts ==
    ASSUME NEW r, DOMAIN r = Fields, r.error = "ok", r.data \in Nat, NEW e, e # "ok"
    PROVE  LET s == FlagError(r, e)
           IN  Refuses(s, e) /\ s.fill = r.fill /\ s.size = r.size /\ s.drawn = r.drawn
BY FlagFields DEF Halted, Refuses

LEMMA FillRangeBad ==
    ASSUME NEW r, DOMAIN r = Fields, r.error = "ok", r.data \in Nat, r.fill, r.drawn \in Nat,
           stream \in Seq(Cell), NEW min \in Nat, NEW max, NEW o \in FillRange(r, min, max), ~Good(o)
    PROVE  Starved(o.rd, r.drawn + min)
<1>1. ASSUME NEW n  PROVE /\ DOMAIN Draw(r, n) = Fields /\ Draw(r, n).error = "ok"
                         /\ Draw(r, n).data = r.data /\ Draw(r, n).fill = r.fill
                         /\ Draw(r, n).drawn = r.drawn + n
  BY DEF Draw, Fields
<1>2. o \notin {Out(Draw(r, n), Drawn(r, n)) : n \in min .. Most(r, max)}
  <2>1. \A n : Out(Draw(r, n), Drawn(r, n)).rd.error = "ok"  BY <1>1 DEF Out
  <2>. QED  BY <2>1 DEF Good
<1>3. PICK n \in 0 .. Most(r, min - 1), e \in FillErrors : o = Out(FlagError(Draw(r, n), e), Drawn(r, n))
  BY <1>2 DEF FillRange
<1>4. e # "ok"  BY DEF FillErrors
<1>5. Refuses(o.rd, e) /\ o.rd.fill = r.fill /\ o.rd.drawn = r.drawn + n
  BY <1>1, <1>3, <1>4, FlagHalts DEF Out
<1>6. n \in Nat /\ n < min  BY <1>3 DEF Most
<1>7. r.drawn + n \in Nat /\ r.drawn + min > r.drawn + n  BY <1>6
<1>. QED  BY <1>5, <1>7 DEF Refuses, Starved

(* What happens to the buffer of a reader that has failed is all the same *)
LEMMA WriteHalts ==
    ASSUME NEW s, Halted(s), NEW at, NEW bytes
    PROVE  LET w == Write(s, at, bytes)
           IN  Halted(w) /\ w.error = s.error /\ w.fill = s.fill /\ w.size = s.size /\ w.drawn = s.drawn
BY DEF Write, Halted, Fields

LEMMA EnsureBad ==
    ASSUME NEW r, NEW p, Stands(r, p), r.error = "ok", NEW count \in Nat,
           NEW o \in Ensure(r, count), ~Good(o)
    PROVE  (Lacks(o.rd, p, count) \/ TooBig(o.rd, count)) /\ o.v = FALSE
<1>. DEFINE c == Compacted(r)
            k == InBuffer(r)
            range == FillRange(c, count - k, r.size - k)
            full(q) == Write(q.rd, k, q.v)
            filled(q) == Out(IF Good(q) THEN [full(q) EXCEPT !.end = @ + Len(q.v)] ELSE full(q), Good(q))
<1>0. /\ DOMAIN r = Fields /\ r.data \in Nat /\ k \in Nat /\ p + k = r.drawn /\ p \in Nat
      /\ r.drawn \in Nat /\ (r.fill => r.size \in Nat) /\ stream \in Seq(Cell)
  BY DEF Stands, InBuffer
<1>1. Ensure(r, count) =
        IF count <= k THEN {Out(r, TRUE)}
        ELSE IF ~r.fill THEN {Out(FlagError(r, "invalid"), FALSE)}
        ELSE IF count > r.size THEN {Out(FlagError(r, "too_big"), FALSE)}
        ELSE {filled(q) : q \in range}
  BY DEF Ensure
<1>. HIDE DEF filled, range
<1>2. CASE count <= k
  <2>1. o = Out(r, TRUE)  BY <1>1, <1>2
  <2>. QED  BY <2>1 DEF Good, Out
<1>3. CASE ~(count <= k) /\ ~r.fill
  <2>1. o.rd = FlagError(r, "invalid") /\ o.v = FALSE  BY <1>1, <1>3 DEF Out
  <2>2. Refuses(o.rd, "invalid") /\ o.rd.fill = r.fill /\ o.rd.drawn = r.drawn  BY <1>0, <2>1, FlagHalts
  <2>3. p + count > r.drawn /\ r.drawn \in Nat  BY <1>0, <1>3
  <2>. QED  BY <1>3, <2>1, <2>2, <2>3 DEF Refuses, Lacks, Cut
<1>4. CASE ~(count <= k) /\ r.fill /\ count > r.size
  <2>1. o.rd = FlagError(r, "too_big") /\ o.v = FALSE  BY <1>1, <1>4 DEF Out
  <2>2. Refuses(o.rd, "too_big") /\ o.rd.fill = r.fill /\ o.rd.size = r.size  BY <1>0, <2>1, FlagHalts
  <2>. QED  BY <1>0, <1>4, <2>1, <2>2 DEF Refuses, TooBig
<1>5. CASE ~(count <= k) /\ r.fill /\ ~(count > r.size)
  <2>1. PICK q \in range : o = filled(q)  BY <1>1, <1>5
  <2>2. /\ DOMAIN c = Fields /\ c.error = "ok" /\ c.data \in Nat /\ c.fill /\ c.drawn = r.drawn
    BY <1>0, <1>5 DEF Compacted, Write, Fields
  <2>. HIDE DEF c, k
  <2>3. ~Good(q)
    <3>. SUFFICES ASSUME Good(q)  PROVE FALSE  OBVIOUS
    <3>1. DOMAIN q.rd = Fields /\ q.rd.error = "ok"
      <4>1. KeptAll(range, c)  BY <2>2, FillRangeKept DEF range
      <4>. QED  BY <4>1 DEF KeptAll, Kept, Good
    <3>. DEFINE more == [full(q) EXCEPT !.end = @ + Len(q.v)]
    <3>2. o.rd = more  BY <2>1 DEF filled, Out
    <3>3. DOMAIN full(q) = Fields /\ full(q).error = "ok"  BY <3>1 DEF Write, Fields
    <3>. HIDE DEF full
    <3>4. more.error = "ok"  BY <3>3 DEF Fields
    <3>. QED  BY <3>2, <3>4 DEF Good
  <2>4. o.rd = full(q) /\ o.v = FALSE
    <3>1. o.v = Good(q) /\ o.rd = (IF Good(q) THEN [full(q) EXCEPT !.end = @ + Len(q.v)] ELSE full(q))
      BY <2>1 DEF filled, Out
    <3>. QED  BY <2>3, <3>1
  <2>5. count - k \in Nat /\ r.drawn + (count - k) = p + count  BY <1>0, <1>5
  <2>6. c.drawn \in Nat  BY <1>0, <2>2
  <2>7. Starved(q.rd, c.drawn + (count - k))
    <3>. DEFINE min == count - k
                max == r.size - k
    <3>1. q \in FillRange(c, min, max) /\ min \in Nat  BY <2>5 DEF range
    <3>. HIDE DEF min, max
    <3>2. Starved(q.rd, c.drawn + min)  BY <1>0, <2>2, <2>3, <2>6, <3>1, FillRangeBad
    <3>. QED  BY <3>2 DEF min
  <2>8. Starved(q.rd, p + count)  BY <2>2, <2>5, <2>7
  <2>9. Starved(full(q), p + count)  BY <2>8, WriteHalts DEF Starved
  <2>. QED  BY <2>4, <2>9 DEF Lacks
<1>. QED  BY <1>2, <1>3, <1>4, <1>5

LEMMA RestBad ==
    ASSUME NEW r, DOMAIN r = Fields, r.error = "ok", r.data \in Nat, r.fill, r.drawn \in Nat,
           stream \in Seq(Cell), NEW first, NEW rest \in Nat, NEW o \in Rest(r, first, rest), ~Good(o)
    PROVE  Starved(o.rd, r.drawn + rest)
<1>. DEFINE next(q) == [Write(q.rd, 0, q.v) EXCEPT !.data = rest, !.end = Len(q.v)]
            small(q) == IF Good(q) THEN Out(next(q), first \o SubSeq(q.v, 1, rest))
                        ELSE Out(Write(q.rd, 0, q.v), Padded(first, Len(first) + rest))
            large(q) == Out(q.rd, Padded(first \o q.v, Len(first) + rest))
<1>1. Rest(r, first, rest) =
        IF rest <= r.size \div ReadFraction THEN {small(q) : q \in FillRange(r, rest, r.size)}
        ELSE {large(q) : q \in FillRange(r, rest, rest)}
  BY DEF Rest
<1>. HIDE DEF small, large
<1>2. ASSUME NEW max, NEW q \in FillRange(r, rest, max), o = small(q)  PROVE Starved(o.rd, r.drawn + rest)
  <2>1. KeptAll(FillRange(r, rest, max), r)  BY FillRangeKept
  <2>2. ~Good(q)
    <3>. SUFFICES ASSUME Good(q)  PROVE FALSE  OBVIOUS
    <3>1. DOMAIN q.rd = Fields /\ q.rd.error = "ok"  BY <2>1 DEF KeptAll, Kept, Good
    <3>2. o.rd = next(q)  BY <1>2 DEF small, Out
    <3>3. DOMAIN Write(q.rd, 0, q.v) = Fields /\ Write(q.rd, 0, q.v).error = "ok"  BY <3>1 DEF Write, Fields
    <3>4. next(q).error = "ok"  BY <3>3 DEF Fields
    <3>. QED  BY <3>2, <3>4 DEF Good
  <2>3. o.rd = Write(q.rd, 0, q.v)  BY <1>2, <2>2 DEF small, Out
  <2>4. Starved(q.rd, r.drawn + rest)  BY <2>2, FillRangeBad
  <2>. QED  BY <2>3, <2>4, WriteHalts DEF Starved
<1>3. ASSUME NEW q \in FillRange(r, rest, rest), o = large(q)  PROVE Starved(o.rd, r.drawn + rest)
  <2>1. o.rd = q.rd  BY <1>3 DEF large, Out
  <2>. QED  BY <2>1, FillRangeBad DEF Good
<1>. QED  BY <1>1, <1>2, <1>3

LEMMA ReadNativeBad ==
    ASSUME NEW r, NEW p, Stands(r, p), r.error = "ok", NEW count \in Nat,
           NEW o \in ReadNative(r, count), ~Good(o)
    PROVE  Lacks(o.rd, p, count)
<1>. DEFINE k == InBuffer(r)
            f == Take(r, k)
<1>0. /\ DOMAIN r = Fields /\ r.data \in Nat /\ k \in Nat /\ p + k = r.drawn /\ p \in Nat
      /\ r.drawn \in Nat /\ stream \in Seq(Cell)
  BY DEF Stands, InBuffer
<1>1. ReadNative(r, count) = IF count <= k THEN {Take(r, count)}
                             ELSE IF r.error # "ok" THEN {Out(r, Zeros(count))}
                             ELSE IF ~r.fill THEN {Out(FlagError(r, "invalid"), Zeros(count))}
                             ELSE Rest(f.rd, f.v, count - k)
  BY DEF ReadNative
<1>2. CASE count <= k
  <2>1. o = Take(r, count)  BY <1>1, <1>2
  <2>2. Good(Take(r, count))  BY <1>0 DEF Good, Take, Out, Fields
  <2>. QED  BY <2>1, <2>2
<1>3. CASE ~(count <= k) /\ ~r.fill
  <2>1. o.rd = FlagError(r, "invalid")  BY <1>1, <1>3 DEF Out
  <2>2. Refuses(o.rd, "invalid") /\ o.rd.fill = r.fill /\ o.rd.drawn = r.drawn  BY <1>0, <2>1, FlagHalts
  <2>3. p + count > r.drawn /\ r.drawn \in Nat  BY <1>0, <1>3
  <2>. QED  BY <1>3, <2>2, <2>3 DEF Refuses, Lacks, Cut
<1>4. CASE ~(count <= k) /\ r.fill
  <2>1. o \in Rest(f.rd, f.v, count - k)  BY <1>1, <1>4
  <2>2. f.rd = [r EXCEPT !.data = @ + k]  BY DEF Take, Out
  <2>3. /\ DOMAIN f.rd = Fields /\ f.rd.error = "ok" /\ f.rd.data \in Nat /\ f.rd.fill
        /\ f.rd.drawn = r.drawn
    BY <1>0, <1>4, <2>2 DEF Fields
  <2>4. count - k \in Nat /\ r.drawn + (count - k) = p + count  BY <1>0, <1>4
  <2>5. Starved(o.rd, f.rd.drawn + (count - k))
    <3>. DEFINE rest == count - k
    <3>1. o \in Rest(f.rd, f.v, rest) /\ rest \in Nat  BY <2>1, <2>4
    <3>. HIDE DEF rest, f
    <3>2. Starved(o.rd, f.rd.drawn + rest)  BY <1>0, <2>3, <3>1, RestBad
    <3>. QED  BY <3>2 DEF rest
  <2>6. Starved(o.rd, p + count)  BY <2>3, <2>4, <2>5
  <2>. QED  BY <2>6 DEF Lacks
<1>. QED  BY <1>2, <1>3, <1>4

-----------------------------------------------------------------------------
(* Skipping *)

LEMMA LastFillBad ==
    ASSUME NEW r, DOMAIN r = Fields, r.error = "ok", r.fill, r.drawn \in Nat,
           stream \in Seq(Cell), NEW count \in Nat, NEW o \in LastFill(r, count), ~Good(o)
    PROVE  Starved(o.rd, r.drawn + count)
<1>. DEFINE start == [r EXCEPT !.data = 0]
            next(q) == [Write(q.rd, 0, q.v) EXCEPT !.data = count, !.end = Len(q.v)]
            last(q) == Out(IF Good(q) THEN next(q) ELSE q.rd, Null)
<1>1. PICK q \in FillRange(start, count, r.size) : o = last(q)  BY DEF LastFill
<1>2. /\ DOMAIN start = Fields /\ start.error = "ok" /\ start.data \in Nat /\ start.fill
      /\ start.drawn = r.drawn
  BY DEF Fields
<1>. HIDE DEF start
<1>3. KeptAll(FillRange(start, count, r.size), start)  BY <1>2, FillRangeKept
<1>4. o.rd = IF Good(q) THEN next(q) ELSE q.rd  BY <1>1 DEF Out
<1>5. ~Good(q)
  <2>. SUFFICES ASSUME Good(q)  PROVE FALSE  OBVIOUS
  <2>1. DOMAIN q.rd = Fields /\ q.rd.error = "ok"  BY <1>3 DEF KeptAll, Kept, Good
  <2>2. DOMAIN Write(q.rd, 0, q.v) = Fields /\ Write(q.rd, 0, q.v).error = "ok"  BY <2>1 DEF Write, Fields
  <2>3. next(q).error = "ok"  BY <2>2 DEF Fields
  <2>. QED  BY <1>4, <2>3 DEF Good
<1>. QED  BY <1>2, <1>4, <1>5, FillRangeBad

LEMMA SkipUsingFillBad ==
    ASSUME NEW r, Blank(r), r.error = "ok", r.data \in Nat, NEW count \in Nat, count >= 1,
           NEW o \in SkipUsingFill(r, count), ~Good(o)
    PROVE  Starved(o.rd, r.drawn + count)
<1>. DEFINE whole == ((count - 1) \div r.size) * r.size
            emptied == IF whole = 0 THEN {Out(r, << >>)} ELSE FillRange(r, whole, whole)
            last(q) == IF Good(q) THEN LastFill(q.rd, count - whole) ELSE {Out(q.rd, Null)}
<1>1. whole \in Nat /\ whole <= count
  <2>. DEFINE a == count - 1
              b == r.size
  <2>1. a \in Nat /\ b \in Nat /\ b >= 1 /\ a <= count  BY DEF Blank
  <2>2. whole = (a \div b) * b  OBVIOUS
  <2>. HIDE DEF a, b, whole
  <2>3. (a \div b) * b \in Nat /\ (a \div b) * b <= a  BY <2>1, WholeBuffers
  <2>. QED  BY <2>1, <2>2, <2>3
<1>2. PICK q \in emptied : o \in last(q)
  <2>1. SkipUsingFill(r, count) = UNION {last(q) : q \in emptied}  BY DEF SkipUsingFill
  <2>. HIDE DEF last, emptied
  <2>. QED  BY <2>1
<1>. HIDE DEF whole
<1>3. DOMAIN r = Fields /\ r.drawn \in Nat /\ r.fill /\ Ready(r) /\ stream \in Seq(Cell)  BY DEF Blank, Ready
<1>4. CASE Good(q)
  <2>1. /\ DOMAIN q.rd = Fields /\ q.rd.fill /\ q.rd.error = "ok" /\ q.rd.drawn = r.drawn + whole
    <3>1. CASE whole = 0
      <4>1. q.rd = r  BY <1>2, <3>1 DEF Out
      <4>. QED  BY <1>3, <3>1, <4>1
    <3>2. CASE whole # 0
      <4>1. q \in FillRange(r, whole, whole)  BY <1>2, <3>2
      <4>2. PICK n \in Nat : whole <= n /\ n <= whole /\ Brought(r, q, n)
        BY <1>1, <1>3, <1>4, <4>1, Delivered
      <4>3. n = whole  BY <1>1, <4>2
      <4>. QED  BY <1>3, <1>4, <4>2, <4>3, BroughtFields DEF Good
    <3>. QED  BY <3>1, <3>2
  <2>2. o \in LastFill(q.rd, count - whole)  BY <1>2, <1>4
  <2>3. count - whole \in Nat /\ q.rd.drawn \in Nat /\ q.rd.drawn + (count - whole) = r.drawn + count
    BY <1>1, <1>3, <2>1
  <2>4. Starved(o.rd, q.rd.drawn + (count - whole))
    <3>. DEFINE n == count - whole
    <3>1. n \in Nat /\ o \in LastFill(q.rd, n)  BY <2>2, <2>3
    <3>. HIDE DEF n
    <3>2. Starved(o.rd, q.rd.drawn + n)  BY <1>3, <2>1, <2>3, <3>1, LastFillBad
    <3>. QED  BY <3>2 DEF n
  <2>. QED  BY <2>3, <2>4
<1>5. CASE ~Good(q)
  <2>1. o = Out(q.rd, Null)  BY <1>2, <1>5
  <2>2. whole # 0
    <3>. SUFFICES ASSUME whole = 0  PROVE FALSE  OBVIOUS
    <3>1. q.rd = r  BY <1>2 DEF Out
    <3>. QED  BY <1>5, <3>1 DEF Good
  <2>3. q \in FillRange(r, whole, whole)  BY <1>2, <2>2
  <2>4. Starved(q.rd, r.drawn + whole)  BY <1>1, <1>3, <1>5, <2>3, FillRangeBad
  <2>5. Starved(q.rd, r.drawn + count)  BY <1>1, <1>3, <2>4 DEF Starved
  <2>. QED  BY <2>1, <2>5 DEF Out
<1>. QED  BY <1>4, <1>5

LEMMA SkipBytesBad ==
    ASSUME NEW r, NEW p, Stands(r, p), r.error = "ok", NEW count \in Nat,
           NEW o \in SkipBytes(r, count), ~Good(o)
    PROVE  Lacks(o.rd, p, count)
<1>. DEFINE k == InBuffer(r)
            rest == count - k
            emptied == [r EXCEPT !.data = r.end]
<1>0. /\ DOMAIN r = Fields /\ r.data \in Nat /\ r.end \in Nat /\ k \in Nat /\ p + k = r.drawn /\ p \in Nat
      /\ r.drawn \in Nat
  BY DEF Stands, InBuffer
<1>1. SkipBytes(r, count) =
        IF r.error # "ok" THEN {Out(r, Null)}
        ELSE IF rest <= 0 THEN {Out([r EXCEPT !.data = @ + count], Null)}
        ELSE IF ~r.fill THEN {Out(FlagError(r, "invalid"), Null)}
        ELSE IF r.skip /\ rest > r.size \div SkipFraction THEN Seek(emptied, rest)
        ELSE SkipUsingFill(emptied, rest)
  BY DEF SkipBytes
<1>2. /\ DOMAIN emptied = Fields /\ emptied.data \in Nat /\ emptied.fill = r.fill /\ emptied.error = "ok"
      /\ emptied.drawn = r.drawn /\ emptied.buffer = r.buffer /\ emptied.size = r.size
  BY <1>0 DEF Fields
<1>. HIDE DEF emptied
<1>3. CASE rest <= 0
  <2>1. o.rd = [r EXCEPT !.data = @ + count]  BY <1>1, <1>3 DEF Out
  <2>2. o.rd.error = "ok"  BY <1>0, <2>1 DEF Fields
  <2>. QED  BY <2>2 DEF Good
<1>4. CASE ~(rest <= 0) /\ ~r.fill
  <2>1. o.rd = FlagError(r, "invalid")  BY <1>1, <1>4 DEF Out
  <2>2. Refuses(o.rd, "invalid") /\ o.rd.fill = r.fill /\ o.rd.drawn = r.drawn  BY <1>0, <2>1, FlagHalts
  <2>3. p + count > r.drawn /\ r.drawn \in Nat  BY <1>0, <1>4
  <2>. QED  BY <1>4, <2>2, <2>3 DEF Refuses, Lacks, Cut
<1>5. CASE ~(rest <= 0) /\ r.fill
  <2>1. o \in Seek(emptied, rest) \/ o \in SkipUsingFill(emptied, rest)  BY <1>1, <1>5
  <2>0. rest \in Nat /\ rest >= 1 /\ r.drawn + rest = p + count  BY <1>0, <1>5
  <2>. HIDE DEF rest
  <2>2. CASE o \in Seek(emptied, rest)
    <3>1. Draw(emptied, rest).error = "ok"  BY <1>2 DEF Draw, Fields
    <3>2. o # Out(Draw(emptied, rest), Null)  BY <3>1 DEF Good, Out
    <3>3. o.rd = FlagError(emptied, "io")  BY <2>2, <3>2 DEF Seek, Out
    <3>4. Refuses(o.rd, "io") /\ o.rd.fill = emptied.fill /\ o.rd.drawn = emptied.drawn
      BY <1>2, <3>3, FlagHalts
    <3>5. p + count > r.drawn  BY <1>0, <2>0
    <3>. QED  BY <1>0, <1>2, <1>5, <3>4, <3>5 DEF Refuses, Lacks, Starved, FillErrors
  <2>3. CASE o \in SkipUsingFill(emptied, rest)
    <3>1. Blank(emptied)  BY <1>2, <1>5 DEF Stands, Blank, Ready
    <3>2. Starved(o.rd, emptied.drawn + rest)  BY <1>2, <2>0, <2>3, <3>1, SkipUsingFillBad
    <3>. QED  BY <1>2, <2>0, <3>2 DEF Lacks
  <2>. QED  BY <2>1, <2>2, <2>3
<1>. QED  BY <1>3, <1>4, <1>5

-----------------------------------------------------------------------------
(* Bytes *)

LEMMA StandsRefuses ==
    ASSUME NEW r, NEW p, Stands(r, p), r.error = "ok", NEW e, e # "ok"
    PROVE  Refuses(FlagError(r, e), e)
BY FlagHalts DEF Stands

LEMMA TakenBad ==
    ASSUME NEW r, NEW p, Stands(r, p), r.error = "ok", NEW count \in Nat, NEW q \in Ensure(r, count),
           NEW o, q.v => o.rd = Take(q.rd, count).rd, ~q.v => o.rd = q.rd, ~Good(o)
    PROVE  Lacks(o.rd, p, count) \/ TooBig(o.rd, count)
<1>1. ~Good(q)
  <2>. SUFFICES ASSUME Good(q)  PROVE FALSE  OBVIOUS
  <2>0. Stands(q.rd, p) /\ q.v = TRUE /\ q.rd.error = "ok"  BY EnsureStands
  <2>1. q.v = TRUE /\ q.rd.error = "ok" /\ DOMAIN q.rd = Fields  BY <2>0 DEF Stands
  <2>2. o.rd.error = "ok"  BY <2>1 DEF Take, Out, Fields
  <2>. QED  BY <2>2 DEF Good
<1>2. (Lacks(q.rd, p, count) \/ TooBig(q.rd, count)) /\ q.v = FALSE  BY <1>1, EnsureBad
<1>. QED  BY <1>2

LEMMA BytesInplaceBad ==
    ASSUME NEW r, NEW p, Stands(r, p), r.error = "ok", NEW count \in Nat,
           NEW o \in BytesInplace(r, count), ~Good(o)
    PROVE  Lacks(o.rd, p, count) \/ TooBig(o.rd, count)
<1>1. PICK q \in Ensure(r, count) :
         o = IF q.v THEN Out(Take(q.rd, count).rd, [bytes |-> Take(q.rd, count).v]) ELSE Out(q.rd, Null)
  BY DEF BytesInplace
<1>. QED  BY <1>1, TakenBad DEF Out

LEMMA BytesAllocBad ==
    ASSUME NEW r, NEW p, Stands(r, p), r.error = "ok", NEW count \in Nat, NEW terminated,
           NEW o \in BytesAlloc(r, count, terminated), ~Good(o)
    PROVE  Lacks(o.rd, p, count) \/ (Refuses(o.rd, "memory") /\ (count # 0 \/ terminated))
<1>. DEFINE quiet == [r EXCEPT !.held = TRUE, !.fn = FALSE]
            loud(q) == [q.rd EXCEPT !.fn = r.fn]
            tail == IF terminated THEN <<NUL>> ELSE << >>
            read(q) == IF Good(q) THEN Out(Released(q.rd), [bytes |-> q.v \o tail])
                       ELSE Out(Told(Released(q.rd)), Null)
            ends == r.error # "ok" \/ (count = 0 /\ ~terminated)
<1>0. DOMAIN r = Fields  BY DEF Stands
<1>1. BytesAlloc(r, count, terminated) =
        IF ends THEN {Out(r, Null)}
        ELSE {Out(FlagError(r, "memory"), Null)} \cup {read(q) : q \in ReadQuietly(r, count)}
  BY DEF BytesAlloc
<1>. HIDE DEF read
<1>2. CASE ends
  <2>1. o.rd = r  BY <1>1, <1>2 DEF Out
  <2>. QED  BY <2>1 DEF Good
<1>3. CASE o = Out(FlagError(r, "memory"), Null)
  <2>1. o.rd = FlagError(r, "memory")  BY <1>3 DEF Out
  <2>2. ~ends
    <3>. SUFFICES ASSUME ends  PROVE FALSE  OBVIOUS
    <3>1. o.rd = r  BY <1>1 DEF Out
    <3>. QED  BY <3>1 DEF Good
  <2>3. count # 0 \/ terminated  BY <2>2
  <2>. QED  BY <2>1, <2>3, StandsRefuses
<1>4. CASE ~ends /\ o # Out(FlagError(r, "memory"), Null)
  <2>1. PICK s \in ReadQuietly(r, count) : o = read(s)  BY <1>1, <1>4
  <2>2. PICK q \in ReadNative(quiet, count) : s = Out(loud(q), q.v)  BY DEF ReadQuietly
  <2>3. Stands(quiet, p) /\ quiet.error = "ok" /\ DOMAIN quiet = Fields
    <3>1. /\ DOMAIN quiet = Fields /\ quiet.buffer = r.buffer /\ quiet.data = r.data /\ quiet.end = r.end
          /\ quiet.drawn = r.drawn /\ quiet.size = r.size /\ quiet.fill = r.fill /\ quiet.error = "ok"
      BY <1>0 DEF Fields
    <3>. HIDE DEF quiet
    <3>. QED  BY <3>1 DEF Stands
  <2>. HIDE DEF quiet
  <2>4. DOMAIN q.rd = Fields  BY <2>3, ReadNativeKept DEF KeptAll, Kept
  <2>5. s.rd = loud(q)  BY <2>2 DEF Out
  <2>6. ~Good(q)
    <3>. SUFFICES ASSUME Good(q)  PROVE FALSE  OBVIOUS
    <3>1. Good(s)  BY <2>4, <2>5 DEF Good, Fields
    <3>2. o.rd = Released(s.rd)  BY <2>1, <3>1 DEF read, Out
    <3>3. o.rd.error = "ok"  BY <2>4, <2>5, <3>1, <3>2 DEF Released, Good, Fields
    <3>. QED  BY <3>3 DEF Good
  <2>7. Lacks(q.rd, p, count)  BY <2>3, <2>6, ReadNativeBad
  <2>8. Halted(q.rd)  BY <2>7 DEF Lacks, Starved, Cut
  <2>9. ~Good(s)  BY <2>5, <2>6, <2>8 DEF Good, Halted, Fields
  <2>10. o.rd = Told(Released(loud(q)))  BY <2>1, <2>5, <2>9 DEF read, Out
  <2>11. /\ Halted(o.rd) /\ o.rd.error = q.rd.error /\ o.rd.fill = q.rd.fill
         /\ o.rd.size = q.rd.size /\ o.rd.drawn = q.rd.drawn
    <3>. DEFINE a == loud(q)
                b == Released(a)
    <3>1. /\ DOMAIN a = Fields /\ a.error = q.rd.error /\ a.fill = q.rd.fill
          /\ a.size = q.rd.size /\ a.drawn = q.rd.drawn /\ a.end = q.rd.end /\ a.data = q.rd.data
      BY <2>8 DEF Halted, Fields
    <3>. HIDE DEF a
    <3>2. /\ DOMAIN b = Fields /\ b.error = a.error /\ b.fill = a.fill
          /\ b.size = a.size /\ b.drawn = a.drawn /\ b.end = a.end /\ b.data = a.data
      BY <3>1 DEF Released, Fields
    <3>. HIDE DEF b
    <3>3. LET c == Told(b)
          IN  /\ DOMAIN c = Fields /\ c.error = b.error /\ c.fill = b.fill /\ c = [x \in Fields |-> c[x]]
              /\ c.size = b.size /\ c.drawn = b.drawn /\ c.end = b.end /\ c.data = b.data
      BY <3>2 DEF Told, Fields
    <3>4. o.rd = Told(b)  BY <2>10 DEF a, b
    <3>. QED  BY <2>8, <3>1, <3>2, <3>3, <3>4 DEF Halted
  <2>. QED  BY <2>7, <2>11 DEF Lacks, Starved, Cut
<1>. QED  BY <1>2, <1>3, <1>4

LEMMA ReadBytesBad ==
    ASSUME NEW r, NEW p, Stands(r, p), r.error = "ok", NEW count \in Nat,
           NEW o \in ReadBytes(r, count), ~Good(o)
    PROVE  Lacks(o.rd, p, count)
<1>1. PICK q \in ReadNative(r, count) : o.rd = q.rd  BY DEF ReadBytes, Out
<1>. QED  BY <1>1, ReadNativeBad DEF Good

LEMMA ReadCstrBad ==
    ASSUME NEW r, NEW p, Stands(r, p), r.error = "ok", NEW count \in Nat, NEW size, NEW utf8,
           NEW o \in ReadCstr(r, size, count, utf8), ~Good(o)
    PROVE  \/ Lacks(o.rd, p, count)
           \/ Refuses(o.rd, "too_big") /\ count > size - 1
           \/ /\ Refuses(o.rd, "type") /\ p + count <= Len(stream)
              /\ ~Valid(SubSeq(stream, p + 1, p + count), utf8, TRUE)
<1>. DEFINE text(q) == Out(q.rd, [bytes |-> Padded(q.v \o <<NUL>>, size)])
            wrong(q) == Good(q) /\ ~Valid(q.v, utf8, TRUE)
<1>1. CASE count > size - 1
  <2>1. o.rd = FlagError(r, "too_big")  BY <1>1 DEF ReadCstr, Out
  <2>2. Refuses(o.rd, "too_big")  BY <2>1, StandsRefuses
  <2>. QED  BY <1>1, <2>2
<1>2. CASE ~(count > size - 1)
  <2>1. PICK q \in ReadNative(r, count) : o = IF wrong(q) THEN Refused(q, EmptyString(size)) ELSE text(q)
    BY <1>2 DEF ReadCstr
  <2>2. CASE wrong(q)
    <3>1. o.rd = FlagError(q.rd, "type")  BY <2>1, <2>2 DEF Refused, Out
    <3>2. Got(q, p, count)  BY <2>2, ReadNativeGot
    <3>3. stream \in Seq(Cell)  BY DEF Stands
    <3>4. q.v = SubSeq(stream, p + 1, p + count) /\ p + count <= Len(stream)
      BY <3>2, <3>3, ExactBytes DEF Got, Yields
    <3>5. Refuses(o.rd, "type")  BY <3>1, <3>2, StandsRefuses DEF Got
    <3>. QED  BY <2>2, <3>4, <3>5
  <2>3. CASE ~wrong(q)
    <3>1. o.rd = q.rd  BY <2>1, <2>3 DEF Out
    <3>. QED  BY <3>1, ReadNativeBad DEF Good
  <2>. QED  BY <2>2, <2>3
<1>. QED  BY <1>1, <1>2

LEMMA ReadTimestampBad ==
    ASSUME NEW r, NEW p, Stands(r, p), r.error = "ok", NEW size \in Nat,
           NEW o \in ReadTimestamp(r, size), ~Good(o)
    PROVE  \/ Lacks(o.rd, p, size)
           \/ Refuses(o.rd, "invalid") /\ size \notin {4, 8, 12}
           \/ /\ Refuses(o.rd, "invalid") /\ p + size <= Len(stream)
              /\ Split(SubSeq(stream, p + 1, p + size)).nano > MaxNano
<1>1. CASE size \notin {4, 8, 12}
  <2>1. o.rd = FlagError(r, "invalid")  BY <1>1 DEF ReadTimestamp, Out
  <2>. QED  BY <1>1, <2>1, StandsRefuses
<1>2. CASE size \in {4, 8, 12}
  <2>1. PICK q \in ReadNative(r, size) : o = Stamp(q)  BY <1>2 DEF ReadTimestamp
  <2>2. CASE ~Good(q)
    <3>1. o.rd = q.rd  BY <2>1, <2>2 DEF Stamp, Out
    <3>. QED  BY <2>2, <3>1, ReadNativeBad
  <2>3. CASE Good(q)
    <3>1. Got(q, p, size)  BY <2>3, ReadNativeGot
    <3>2. \/ o.rd = q.rd
          \/ o.rd = FlagError(q.rd, "invalid") /\ Split(q.v).nano > MaxNano
      BY <2>1, <2>3 DEF Stamp, Out
    <3>3. o.rd = FlagError(q.rd, "invalid") /\ Split(q.v).nano > MaxNano  BY <2>3, <3>2 DEF Good
    <3>4. stream \in Seq(Cell)  BY DEF Stands
    <3>5. q.v = SubSeq(stream, p + 1, p + size) /\ p + size <= Len(stream)
      BY <3>1, <3>4, ExactBytes DEF Got, Yields
    <3>. QED  BY <3>1, <3>3, <3>5, StandsRefuses DEF Got
  <2>. QED  BY <2>2, <2>3
<1>. QED  BY <1>1, <1>2

=============================================================================
